----------------------------- MODULE Transport -----------------------------
(***************************************************************************)
(* One connection between two nodes below the level of messages: the       *)
(* sockets' buffers are bounded, a message is a number of chunks, and each *)
(* side's application thread and Connection thread share the lock l_ that  *)
(* send_message and recv_message hold during blocking socket calls         *)
(* (network/connection.h, network/network.h).                              *)
(***************************************************************************)
EXTENDS Integers, Sequences, FiniteSets

CONSTANTS
  Sends,        \* Sends[s]: the messages side s's application sends, in order
  Buffer        \* chunks that the sockets hold in each direction

Sides == {1, 2}
Peer(s) == 3 - s

\* A PUT, a request (GET or WAITANDGET) or a REPLY of `size` chunks, the first
\* of which holds the length; a request is answered by `answer` chunks.
Message(kind, size, answer) == [kind |-> kind, size |-> size, answer |-> answer]
Answer(m) == Message("reply", m.answer, 0)

Sent == UNION {{Sends[s][i] : i \in 1 .. Len(Sends[s])} : s \in Sides}
Messages == Sent \cup {Answer(m) : m \in {x \in Sent : x.kind = "ask"}}

ASSUME TransportAssumption ==
  /\ Buffer \in Nat \ {0}
  /\ \A s \in Sides : Sends[s] \in Seq(Sent)
  /\ Sent \subseteq [kind : {"put", "ask"}, size : Nat \ {0}, answer : Nat]
  /\ \A m \in Sent : m.kind = "ask" => m.answer # 0

Chunk(m, i) == [msg |-> m, at |-> i]

VARIABLES
  pipe,         \* pipe[s]: chunks in the sockets' buffers towards side s
  l,            \* Connection::l_: "free", or the thread of side s that holds it
  todo,         \* messages the application has still to send
  app,          \* "ready", "sending" or "awaiting" a reply
  conn,         \* the Connection thread: "poll", "ready" (has_new_bytes), "receiving",
                \* "answer" (has a Reply to send), "sending"
  out,          \* out[s][t]: chunks thread t has sent of its message
  in,           \* in[s]: chunks of the message being received
  asked,        \* the request being answered
  replies,      \* number of Replies queued
  got           \* the last message received, if any

vars == <<pipe, l, todo, app, conn, out, in, asked, replies, got>>

Init ==
  /\ pipe = [s \in Sides |-> <<>>]
  /\ l = [s \in Sides |-> "free"]
  /\ todo = [s \in Sides |-> Sends[s]]
  /\ app = [s \in Sides |-> "ready"]
  /\ conn = [s \in Sides |-> "poll"]
  /\ out = [s \in Sides |-> [app |-> 0, conn |-> 0]]
  /\ in = [s \in Sides |-> <<>>]
  /\ asked = [s \in Sides |-> <<>>]
  /\ replies = [s \in Sides |-> 0]
  /\ got = [s \in Sides |-> <<>>]

Take(s, t) == l[s] = "free" /\ l' = [l EXCEPT ![s] = t]
Release(s) == l' = [l EXCEPT ![s] = "free"]

\* send_bytes: thread t's next chunk of m enters the buffer, when it has room.
Push(s, t, m) ==
  /\ out[s][t] < m.size
  /\ Len(pipe[Peer(s)]) < Buffer
  /\ pipe' = [pipe EXCEPT ![Peer(s)] = Append(@, Chunk(m, out[s][t] + 1))]
  /\ out' = [out EXCEPT ![s][t] = @ + 1]

\* send_message by the application's thread: lock, send every chunk, unlock.
AppLock(s) ==
  /\ app[s] = "ready" /\ todo[s] # <<>>
  /\ Take(s, "app")
  /\ app' = [app EXCEPT ![s] = "sending"]
  /\ UNCHANGED <<pipe, todo, conn, out, in, asked, replies, got>>

\* Mutant: unlocks once the length is sent, before the message's bytes.
AppPush_EarlyUnlock(s) ==
  /\ app[s] = "sending"
  /\ Push(s, "app", Head(todo[s]))
  /\ Release(s)
  /\ UNCHANGED <<todo, app, conn, in, asked, replies, got>>

AppPush(s) ==
  /\ app[s] = "sending"
  /\ Push(s, "app", Head(todo[s]))
  /\ UNCHANGED <<l, todo, app, conn, in, asked, replies, got>>

AppUnlock(s) ==
  /\ app[s] = "sending" /\ out[s].app = Head(todo[s]).size
  /\ Release(s)
  /\ out' = [out EXCEPT ![s].app = 0]
  /\ app' = [app EXCEPT ![s] = IF Head(todo[s]).kind = "ask" THEN "awaiting" ELSE "ready"]
  /\ todo' = [todo EXCEPT ![s] = Tail(@)]
  /\ UNCHANGED <<pipe, conn, in, asked, replies, got>>

\* process_reply_.
AppReply(s) ==
  /\ app[s] = "awaiting" /\ replies[s] > 0
  /\ replies' = [replies EXCEPT ![s] = @ - 1]
  /\ app' = [app EXCEPT ![s] = "ready"]
  /\ UNCHANGED <<pipe, l, todo, conn, out, in, asked, got>>

\* Mutant: recv_message is entered without asking for new bytes first.
Poll_Never(s) ==
  /\ conn[s] = "poll"
  /\ conn' = [conn EXCEPT ![s] = "ready"]
  /\ UNCHANGED <<pipe, l, todo, app, out, in, asked, replies, got>>

\* run: has_new_bytes, asked without the lock.
Poll(s) ==
  /\ conn[s] = "poll" /\ pipe[s] # <<>>
  /\ conn' = [conn EXCEPT ![s] = "ready"]
  /\ UNCHANGED <<pipe, l, todo, app, out, in, asked, replies, got>>

\* recv_message: lock, receive the length and as many chunks, unlock.
RecvLock(s) ==
  /\ conn[s] = "ready"
  /\ Take(s, "conn")
  /\ conn' = [conn EXCEPT ![s] = "receiving"]
  /\ UNCHANGED <<pipe, todo, app, out, in, asked, replies, got>>

Complete(s) == in[s] # <<>> /\ Len(in[s]) = in[s][1].msg.size

RecvChunk(s) ==
  /\ conn[s] = "receiving" /\ ~Complete(s) /\ pipe[s] # <<>>
  /\ in' = [in EXCEPT ![s] = Append(@, Head(pipe[s]))]
  /\ pipe' = [pipe EXCEPT ![s] = Tail(@)]
  /\ UNCHANGED <<l, todo, app, conn, out, asked, replies, got>>

\* The message is complete: unlock and handle it.  A request's Reply is sent by
\* the Connection thread itself.
RecvUnlock(s) ==
  LET m == in[s][1].msg IN
  /\ conn[s] = "receiving" /\ Complete(s)
  /\ Release(s)
  /\ in' = [in EXCEPT ![s] = <<>>]
  /\ got' = [got EXCEPT ![s] = <<m>>]
  /\ replies' = [replies EXCEPT ![s] = IF m.kind = "reply" THEN @ + 1 ELSE @]
  /\ asked' = [asked EXCEPT ![s] = IF m.kind = "ask" THEN <<m>> ELSE <<>>]
  /\ conn' = [conn EXCEPT ![s] = IF m.kind = "ask" THEN "answer" ELSE "poll"]
  /\ UNCHANGED <<pipe, todo, app, out>>

\* Mutant: the Connection thread sends its Reply without the lock.
AnswerLock_NoLock(s) ==
  /\ conn[s] = "answer"
  /\ conn' = [conn EXCEPT ![s] = "sending"]
  /\ UNCHANGED <<pipe, l, todo, app, out, in, asked, replies, got>>

\* send_message by the Connection thread, of a Reply.
AnswerLock(s) ==
  /\ conn[s] = "answer"
  /\ Take(s, "conn")
  /\ conn' = [conn EXCEPT ![s] = "sending"]
  /\ UNCHANGED <<pipe, todo, app, out, in, asked, replies, got>>

AnswerPush(s) ==
  /\ conn[s] = "sending"
  /\ Push(s, "conn", Answer(asked[s][1]))
  /\ UNCHANGED <<l, todo, app, conn, in, asked, replies, got>>

AnswerUnlock(s) ==
  /\ conn[s] = "sending" /\ out[s].conn = asked[s][1].answer
  /\ Release(s)
  /\ out' = [out EXCEPT ![s].conn = 0]
  /\ asked' = [asked EXCEPT ![s] = <<>>]
  /\ conn' = [conn EXCEPT ![s] = "poll"]
  /\ UNCHANGED <<pipe, todo, app, in, replies, got>>

App(s) == AppLock(s) \/ AppPush(s) \/ AppUnlock(s) \/ AppReply(s)
Conn(s) == \/ Poll(s) \/ RecvLock(s) \/ RecvChunk(s) \/ RecvUnlock(s)
           \/ AnswerLock(s) \/ AnswerPush(s) \/ AnswerUnlock(s)

Next == \E s \in Sides : App(s) \/ Conn(s)

Spec == Init /\ [][Next]_vars

\* Both threads of both sides keep running.  Messages are finitely many, so a
\* side's two threads contend for its lock finitely often: weak fairness is enough.
FairSpec == Spec /\ \A s \in Sides : WF_vars(App(s)) /\ WF_vars(Conn(s))

-----------------------------------------------------------------------------

\* The types, and that a thread is inside send_message or recv_message exactly
\* when it holds l_.
TypeOK ==
  /\ \A s \in Sides :
       /\ \A i \in DOMAIN (pipe[s] \o in[s]) : (pipe[s] \o in[s])[i].msg \in Messages
       /\ Len(pipe[s]) <= Buffer
       /\ (l[s] = "app") <=> (app[s] = "sending")
       /\ (l[s] = "conn") <=> (conn[s] \in {"receiving", "sending"})
       /\ out[s].app > 0 => app[s] = "sending"
       /\ out[s].conn > 0 => conn[s] = "sending"
       /\ replies[s] \in {0, 1}

\* The messages that start in a sequence of chunks, in order: the k-th starts
\* with the chunk up to which k of them have started.
Rank(c, i) == Cardinality({j \in 1 .. i : c[j].at = 1})
Heads(c) ==
  [k \in 1 .. Rank(c, Len(c)) |->
     c[CHOOSE i \in DOMAIN c : c[i].at = 1 /\ Rank(c, i) = k].msg]

\* The messages whose first chunk is in the buffer or in hand.
Frames(s) == Heads(in[s] \o pipe[s])

FIFO == INSTANCE Channel WITH queue <- [s \in Sides |-> Frames(s)]

\* Whatever the two threads of either side do (connection.h:71-79, 87-100), the
\* bytes on a connection are whole messages: each is received once, complete and
\* in the order it was sent, though both threads write to the same socket.
Fifo == FIFO!CSpec

\* Every message is eventually sent and received and every request answered: no
\* thread is left holding l_ in a socket call that the other side never serves.
AllDelivered ==
  <>[](\A s \in Sides : /\ todo[s] = <<>> /\ app[s] = "ready" /\ conn[s] = "poll"
                        /\ pipe[s] = <<>> /\ in[s] = <<>>)

=============================================================================
