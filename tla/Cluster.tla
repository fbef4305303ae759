------------------------------ MODULE Cluster ------------------------------
(***************************************************************************)
(* The nodes of an eau2 cluster once registration is over: on every node   *)
(* the application's thread, the NetworkIfc thread that accepts the        *)
(* connections of other nodes and tears the node down                      *)
(* (network/network_ifc.h), and one thread per Connection that serves the  *)
(* messages of one peer (network/connection.h).  A node's KVStore is the   *)
(* atomic store that KVStore.tla is proved to implement.                   *)
(*                                                                         *)
(* The application of a node is the sequence of store operations it makes, *)
(* Script[n]; each key is homed at one node and is put once.  A stream is  *)
(* one TCP connection <<a, b>>, opened by a towards b; it has an end at    *)
(* each of the two nodes, with a Connection object and its thread there.   *)
(***************************************************************************)
EXTENDS Integers, Sequences

CONSTANTS
  N,            \* number of nodes; node 0 is the controller
  Script,       \* Script[n]: the operations of node n's application, in order
  None,         \* no stream, no end, no key
  Barrier       \* TRUE: a node is torn down once every application has ended, as
                \* the tests do; FALSE: once its own has, as the Linus program does

Nodes == 0 .. N - 1

Op(type, name, node) == [type |-> type, key |-> [name |-> name, node |-> node]]

\* The keys some application puts or reads (Key::name_ and Key::node_).
Keys == UNION {{Script[n][i].key : i \in 1 .. Len(Script[n])} : n \in Nodes}

Streams == {s \in Nodes \X Nodes : s[1] # s[2]}
Ends    == {e \in Streams \X Nodes : e[2] \in {e[1][1], e[1][2]}}

Other(s, n) == IF n = s[1] THEN s[2] ELSE s[1]     \* the node at the other end
Peer(e)     == <<e[1], Other(e[1], e[2])>>         \* the other end

ASSUME ClusterAssumption ==
  /\ N \in Nat \ {0}
  /\ Barrier \in BOOLEAN
  /\ None \notin Keys \cup Streams \cup Ends
  /\ \A n \in Nodes : Script[n] \in Seq([type : {"put", "get", "wait"}, key : Keys])
  /\ \A k \in Keys : k.node \in Nodes

VARIABLES
  store,        \* store[n]: the keys with a value in node n's KVStore
  todo,         \* todo[n]: the operations node n's application has still to make
  app,          \* app[n]: "ready", "enlist" (in connect_to_node_) or "await"
  cur,          \* cur[n]: the end whose Connection the application awaits
  conn,         \* conn[n][m]: the stream in NetworkIfc::connections_
  backlog,      \* backlog[n]: streams the listening socket has not handed out
  net,          \* net[n]: where the NetworkIfc thread is
  keepNet,      \* NetworkIfc::keep_processing_
  busy,         \* busy[n]: the stream the NetworkIfc thread is accepting or joining
  left,         \* left[n]: the peers whose Connection is still to be stopped
  wire,         \* wire[e]: messages on their way to the end e
  th,           \* th[e]: where the Connection thread of the end e is
  keep,         \* Connection::keep_processing_
  asked,        \* asked[e]: the key a GET or WAITANDGET is being served for
  replies       \* Connection::replies, by the key each Reply answers

appVars  == <<todo, app, cur>>
netVars  == <<backlog, net, keepNet, busy, left>>
connVars == <<th, keep, asked, replies>>
vars == <<store, appVars, conn, netVars, wire, connVars>>

Finished(n) == todo[n] = <<>>
Cmd(n)      == Head(todo[n])
Home(n)     == Cmd(n).key.node

\* The bytes put on an end whose process has exited are lost.
Sent(w, e, m) == IF net[Peer(e)[2]] = "down" THEN w
                 ELSE [w EXCEPT ![Peer(e)] = Append(@, m)]

----------------------------------------------------------------------------
(* Registration left one stream per client, opened by the client towards   *)
(* the controller, with a running Connection thread at each end.           *)
Registered == {<<i, 0>> : i \in Nodes \ {0}}

Init ==
  /\ store = [n \in Nodes |-> {}]
  /\ todo = [n \in Nodes |-> Script[n]]
  /\ app = [n \in Nodes |-> "ready"]
  /\ cur = [n \in Nodes |-> None]
  /\ conn = [n \in Nodes |-> [m \in Nodes |->
               IF <<n, m>> \in Registered THEN <<n, m>>
               ELSE IF <<m, n>> \in Registered THEN <<m, n>> ELSE None]]
  /\ backlog = [n \in Nodes |-> <<>>]
  /\ net = [n \in Nodes |-> "serve"]
  /\ keepNet = [n \in Nodes |-> TRUE]
  /\ busy = [n \in Nodes |-> None]
  /\ left = [n \in Nodes |-> {}]
  /\ wire = [e \in Ends |-> <<>>]
  /\ th = [e \in Ends |-> IF e[1] \in Registered THEN "poll" ELSE "none"]
  /\ keep = [e \in Ends |-> TRUE]
  /\ asked = [e \in Ends |-> None]
  /\ replies = [e \in Ends |-> <<>>]

----------------------------------------------------------------------------
(* The application's thread.                                               *)

\* An operation on a key homed here goes to the local store: a put adds the
\* key, a get asserts it is there, a waitAndGet blocks until it is.
Local(n) ==
  /\ ~Finished(n) /\ app[n] = "ready" /\ Home(n) = n
  /\ IF Cmd(n).type = "put" THEN store' = [store EXCEPT ![n] = @ \cup {Cmd(n).key}]
                            ELSE Cmd(n).key \in store[n] /\ UNCHANGED store
  /\ todo' = [todo EXCEPT ![n] = Tail(@)]
  /\ UNCHANGED <<app, cur, conn, netVars, wire, connVars>>

\* connect_to_node_: connections_ has no entry for the key's node.  Open a
\* stream and start its Connection thread.
Connect(n) ==
  /\ ~Finished(n) /\ app[n] = "ready" /\ Home(n) # n
  /\ conn[n][Home(n)] = None
  /\ net[Home(n)] # "down"
  /\ LET s == <<n, Home(n)>> IN
       /\ backlog' = [backlog EXCEPT ![Home(n)] = Append(@, s)]
       /\ th' = [th EXCEPT ![<<s, n>>] = "poll"]
  /\ app' = [app EXCEPT ![n] = "enlist"]
  /\ UNCHANGED <<store, todo, cur, conn, net, keepNet, busy, left, wire, keep, asked, replies>>

\* connect_to_node_: connections_[node] = c, whatever is there by now.
Enlist(n) ==
  /\ app[n] = "enlist"
  /\ conn' = [conn EXCEPT ![n][Home(n)] = <<n, Home(n)>>]
  /\ app' = [app EXCEPT ![n] = "ready"]
  /\ UNCHANGED <<store, todo, cur, netVars, wire, connVars>>

\* put_at_node sends a PUT and returns; get_from_node and
\* wait_and_get_from_node send a request and await its reply on the same
\* Connection.
Send(n) ==
  /\ ~Finished(n) /\ app[n] = "ready" /\ Home(n) # n
  /\ conn[n][Home(n)] # None
  /\ LET e == <<conn[n][Home(n)], n>> IN
       /\ wire' = Sent(wire, e, Cmd(n))
       /\ IF Cmd(n).type = "put"
          THEN todo' = [todo EXCEPT ![n] = Tail(@)] /\ UNCHANGED <<app, cur>>
          ELSE /\ app' = [app EXCEPT ![n] = "await"]
               /\ cur' = [cur EXCEPT ![n] = e]
               /\ UNCHANGED todo
  /\ UNCHANGED <<store, conn, netVars, connVars>>

\* (mutant) the Reply is read and stays in the queue.
TakeReply_NoPop(n) ==
  /\ app[n] = "await"
  /\ replies[cur[n]] # <<>>
  /\ todo' = [todo EXCEPT ![n] = Tail(@)]
  /\ app' = [app EXCEPT ![n] = "ready"]
  /\ cur' = [cur EXCEPT ![n] = None]
  /\ UNCHANGED <<store, conn, netVars, wire, connVars>>

\* process_reply_: spin until replies is not empty, then take its front.
TakeReply(n) ==
  /\ app[n] = "await"
  /\ replies[cur[n]] # <<>>
  /\ replies' = [replies EXCEPT ![cur[n]] = Tail(@)]
  /\ todo' = [todo EXCEPT ![n] = Tail(@)]
  /\ app' = [app EXCEPT ![n] = "ready"]
  /\ cur' = [cur EXCEPT ![n] = None]
  /\ UNCHANGED <<store, conn, netVars, wire, th, keep, asked>>

\* ~Application: net_.stop().  A NetworkIfc thread that has just tested
\* keep_processing_ makes one more round of its loop ("last").
StopNet(n) ==
  /\ Finished(n) /\ keepNet[n]
  /\ Barrier => \A m \in Nodes : Finished(m)
  /\ keepNet' = [keepNet EXCEPT ![n] = FALSE]
  /\ net' = [net EXCEPT ![n] = IF @ = "serve" THEN "last" ELSE @]
  /\ UNCHANGED <<store, appVars, conn, backlog, busy, left, wire, connVars>>

App(n) == Local(n) \/ Connect(n) \/ Enlist(n) \/ Send(n) \/ TakeReply(n) \/ StopNet(n)

----------------------------------------------------------------------------
(* The NetworkIfc thread.                                                  *)

\* run: take a connection from the listening socket, read the node number its
\* opener sent and start its Connection thread.
Accept(n) ==
  /\ net[n] = "last" \/ (net[n] = "serve" /\ keepNet[n])
  /\ backlog[n] # <<>>
  /\ backlog' = [backlog EXCEPT ![n] = Tail(@)]
  /\ busy' = [busy EXCEPT ![n] = Head(backlog[n])]
  /\ th' = [th EXCEPT ![<<Head(backlog[n]), n>>] = "poll"]
  /\ net' = [net EXCEPT ![n] = "enlist"]
  /\ UNCHANGED <<store, appVars, conn, keepNet, left, wire, keep, asked, replies>>

\* run: connections_[node] = c, whatever is there by now.
EnlistAccepted(n) ==
  /\ net[n] = "enlist"
  /\ conn' = [conn EXCEPT ![n][Other(busy[n], n)] = busy[n]]
  /\ busy' = [busy EXCEPT ![n] = None]
  /\ net' = [net EXCEPT ![n] = "serve"]
  /\ UNCHANGED <<store, appVars, backlog, keepNet, left, wire, connVars>>

Peers(n) == {m \in Nodes : conn[n][m] # None}

\* run, after the loop: the controller broadcasts KILL over connections_.
LeaveLoop(n) ==
  /\ net[n] \in {"serve", "last"} /\ ~keepNet[n]
  /\ wire' = IF n # 0 THEN wire
             ELSE [e \in Ends |->
                     IF /\ e[2] \in Peers(0) /\ conn[0][e[2]] = e[1]
                        /\ net[e[2]] # "down"
                     THEN Append(wire[e], [type |-> "kill", key |-> None]) ELSE wire[e]]
  /\ left' = [left EXCEPT ![n] = Peers(n)]
  /\ net' = [net EXCEPT ![n] = "stop"]
  /\ UNCHANGED <<store, appVars, conn, backlog, keepNet, busy, connVars>>

\* run: stop the next Connection of connections_.  Its thread may have tested
\* keep_processing_ just before, and serve one more message ("last").
StopConnection(n) ==
  /\ net[n] = "stop"
  /\ \E m \in left[n] : LET e == <<conn[n][m], n>> IN
       /\ keep' = [keep EXCEPT ![e] = FALSE]
       /\ th' = [th EXCEPT ![e] = IF @ = "poll" THEN "last" ELSE @]
       /\ busy' = [busy EXCEPT ![n] = conn[n][m]]
       /\ left' = [left EXCEPT ![n] = @ \ {m}]
  /\ net' = [net EXCEPT ![n] = "join"]
  /\ UNCHANGED <<store, appVars, conn, backlog, keepNet, wire, asked, replies>>

\* run: join the stopped Connection's thread.
JoinConnection(n) ==
  /\ net[n] = "join"
  /\ th[<<busy[n], n>>] = "gone"
  /\ busy' = [busy EXCEPT ![n] = None]
  /\ net' = [net EXCEPT ![n] = "stop"]
  /\ UNCHANGED <<store, appVars, conn, backlog, keepNet, left, wire, connVars>>

\* Every Connection was joined: the NetworkIfc thread ends, ~Application joins
\* it, and the process exits, which closes its sockets.
Exit(n) ==
  /\ net[n] = "stop" /\ left[n] = {}
  /\ net' = [net EXCEPT ![n] = "down"]
  /\ UNCHANGED <<store, appVars, conn, backlog, keepNet, busy, left, wire, connVars>>

Net(n) == \/ Accept(n) \/ EnlistAccepted(n) \/ LeaveLoop(n)
          \/ StopConnection(n) \/ JoinConnection(n) \/ Exit(n)

----------------------------------------------------------------------------
(* The Connection threads.                                                 *)

\* Connection::run finds a message of the given type and takes it.
Receives(e, type) ==
  /\ th[e] = "last" \/ (th[e] = "poll" /\ keep[e])
  /\ net[e[2]] # "down"
  /\ wire[e] # <<>>
  /\ Head(wire[e]).type = type
  /\ wire' = [wire EXCEPT ![e] = Tail(@)]

\* handle_put_message_: put the value into this node's store.
HandlePut(e) ==
  /\ Receives(e, "put")
  /\ store' = [store EXCEPT ![e[2]] = @ \cup {Head(wire[e]).key}]
  /\ th' = [th EXCEPT ![e] = "poll"]
  /\ UNCHANGED <<appVars, conn, netVars, keep, asked, replies>>

\* handle_get_message_: the key is in this node's store (KVStore::get asserts
\* it); the reply is still to be sent.
HandleGet(e) ==
  /\ Receives(e, "get")
  /\ Head(wire[e]).key \in store[e[2]]
  /\ asked' = [asked EXCEPT ![e] = Head(wire[e]).key]
  /\ th' = [th EXCEPT ![e] = "reply"]
  /\ UNCHANGED <<store, appVars, conn, netVars, keep, replies>>

\* handle_wait_and_get_message_: the Connection thread itself blocks in
\* KVStore::waitAndGet, and serves nothing else until the key is there.
HandleWait(e) ==
  /\ Receives(e, "wait")
  /\ asked' = [asked EXCEPT ![e] = Head(wire[e]).key]
  /\ th' = [th EXCEPT ![e] = "wait"]
  /\ UNCHANGED <<store, appVars, conn, netVars, keep, replies>>

\* (mutant) a thread that is woken does not look again.
WaitOver_NoRecheck(e) ==
  /\ th[e] = "wait"
  /\ net[e[2]] # "down"
  /\ th' = [th EXCEPT ![e] = "reply"]
  /\ UNCHANGED <<store, appVars, conn, netVars, wire, keep, asked, replies>>

WaitOver(e) ==
  /\ th[e] = "wait"
  /\ net[e[2]] # "down"
  /\ asked[e] \in store[e[2]]
  /\ th' = [th EXCEPT ![e] = "reply"]
  /\ UNCHANGED <<store, appVars, conn, netVars, wire, keep, asked, replies>>

\* (mutant) the key being served is forgotten before the Reply is made.
SendReply_Forgets(e) ==
  /\ th[e] = "reply"
  /\ net[e[2]] # "down"
  /\ wire' = Sent(wire, e, [type |-> "reply", key |-> None])
  /\ asked' = [asked EXCEPT ![e] = None]
  /\ th' = [th EXCEPT ![e] = "poll"]
  /\ UNCHANGED <<store, appVars, conn, netVars, keep, replies>>

\* The two handlers send the Reply over their own Connection.
SendReply(e) ==
  /\ th[e] = "reply"
  /\ net[e[2]] # "down"
  /\ wire' = Sent(wire, e, [type |-> "reply", key |-> asked[e]])
  /\ asked' = [asked EXCEPT ![e] = None]
  /\ th' = [th EXCEPT ![e] = "poll"]
  /\ UNCHANGED <<store, appVars, conn, netVars, keep, replies>>

\* handle_reply_message_: queue the Reply for the application's thread.
HandleReply(e) ==
  /\ Receives(e, "reply")
  /\ replies' = [replies EXCEPT ![e] = Append(@, Head(wire[e]).key)]
  /\ th' = [th EXCEPT ![e] = "poll"]
  /\ UNCHANGED <<store, appVars, conn, netVars, keep, asked>>

\* handle_message_ of a KILL: keep_processing_ = false.
HandleKill(e) ==
  /\ Receives(e, "kill")
  /\ keep' = [keep EXCEPT ![e] = FALSE]
  /\ th' = [th EXCEPT ![e] = "poll"]
  /\ UNCHANGED <<store, appVars, conn, netVars, asked, replies>>

\* (mutant) a Connection ends only when its peer has closed the stream.
EndThread_PeerOnly(e) ==
  /\ th[e] \in {"poll", "last"}
  /\ net[e[2]] # "down"
  /\ wire[e] = <<>> /\ net[Peer(e)[2]] = "down"
  /\ th' = [th EXCEPT ![e] = "gone"]
  /\ UNCHANGED <<store, appVars, conn, netVars, wire, keep, asked, replies>>

\* run ends: keep_processing_ is false, or the peer closed the stream and
\* recv_message returns nullptr.
EndThread(e) ==
  /\ th[e] \in {"poll", "last"}
  /\ net[e[2]] # "down"
  /\ ~keep[e] \/ (wire[e] = <<>> /\ net[Peer(e)[2]] = "down")
  /\ th' = [th EXCEPT ![e] = "gone"]
  /\ UNCHANGED <<store, appVars, conn, netVars, wire, keep, asked, replies>>

Conn(e) == \/ HandlePut(e) \/ HandleGet(e) \/ HandleWait(e) \/ WaitOver(e)
           \/ SendReply(e) \/ HandleReply(e) \/ HandleKill(e) \/ EndThread(e)

----------------------------------------------------------------------------
AllDown == \A n \in Nodes : net[n] = "down"

\* The cluster has stopped, as it should in the end.
Stopped == AllDown /\ UNCHANGED vars

Next == \/ \E n \in Nodes : App(n) \/ Net(n)
        \/ \E e \in Ends : Conn(e)
        \/ Stopped

Spec == Init /\ [][Next]_vars

\* Every thread that can run is run: each is a thread of its own process, and
\* none depends on an event outside the cluster.
FairSpec == /\ Spec
            /\ \A n \in Nodes : WF_vars(App(n)) /\ WF_vars(Net(n))
            /\ \A e \in Ends : WF_vars(Conn(e))
----------------------------------------------------------------------------
Message == [type : {"put", "get", "wait", "reply"}, key : Keys]
             \cup {[type |-> "kill", key |-> None]}

TypeOK ==
  /\ store \in [Nodes -> SUBSET Keys]
  /\ todo \in [Nodes -> Seq([type : {"put", "get", "wait"}, key : Keys])]
  /\ app \in [Nodes -> {"ready", "enlist", "await"}]
  /\ cur \in [Nodes -> Ends \cup {None}]
  /\ conn \in [Nodes -> [Nodes -> Streams \cup {None}]]
  /\ backlog \in [Nodes -> Seq(Streams)]
  /\ net \in [Nodes -> {"serve", "last", "enlist", "stop", "join", "down"}]
  /\ keepNet \in [Nodes -> BOOLEAN]
  /\ busy \in [Nodes -> Streams \cup {None}]
  /\ left \in [Nodes -> SUBSET Nodes]
  /\ wire \in [Ends -> Seq(Message)]
  /\ th \in [Ends -> {"none", "poll", "last", "wait", "reply", "gone"}]
  /\ keep \in [Ends -> BOOLEAN]
  /\ asked \in [Ends -> Keys \cup {None}]
  /\ replies \in [Ends -> Seq(Keys)]

\* Every application that puts d has put k before.
Put(k) == [type |-> "put", key |-> k]
PutBefore(k, d) ==
  \A w \in Nodes : \A q \in DOMAIN Script[w] :
    Script[w][q] = Put(d) => \E p \in 1 .. q - 1 : Script[w][p] = Put(k)

\* d is a descriptor that the controller publishes at home, having put k at
\* its reader's node.
Delivers(k, d) ==
  /\ k.node # 0 /\ d.node = 0 /\ PutBefore(k, d)
  /\ \A w \in Nodes : \A q \in DOMAIN Script[w] : Script[w][q] = Put(d) => w = 0

\* How a program has to be written for its gets to find their keys: before node
\* n gets k it has put k itself, at home or where the controller is on either
\* side, or it was told of a descriptor that is homed at the controller, that is
\* put after k, and with k at the controller too or delivered to n with it.
Causal ==
  \A n \in Nodes : \A i \in DOMAIN Script[n] : Script[n][i].type = "get" =>
    LET k == Script[n][i].key IN
    \E j \in 1 .. i - 1 :
      \/ /\ Script[n][j] = Put(k)
         /\ k.node = n \/ 0 \in {n, k.node}
      \/ /\ Script[n][j].type # "put"
         /\ LET d == Script[n][j].key IN
              \/ k.node = 0 /\ d.node = 0 /\ PutBefore(k, d)
              \/ k.node = n /\ Delivers(k, d)

\* A get is only served where its key is (the assertion of KVStore::get), on
\* behalf of the node's own application and of its peers: whoever learned that
\* a key exists finds its value there, whichever streams the put and the get
\* took.
GetFindsKey ==
  /\ \A n \in Nodes : ~Finished(n) /\ app[n] = "ready" /\ Home(n) = n /\ Cmd(n).type = "get"
       => Cmd(n).key \in store[n]
  /\ \A e \in Ends : wire[e] # <<>> /\ Head(wire[e]).type = "get"
                     /\ th[e] \in {"poll", "last"}
       => Head(wire[e]).key \in store[e[2]]

\* The assertions of get_from_node, wait_and_get_from_node and process_reply_
\* on the size of replies: a Connection's queue holds a Reply only while the
\* application awaits it there, one at most, and it is the one for the key
\* that was asked for, although nothing in a Reply says which request it
\* answers.
ReplyMatchesRequest ==
  \A e \in Ends : replies[e] # <<>> =>
    /\ app[e[2]] = "await" /\ cur[e[2]] = e
    /\ replies[e] = <<Cmd(e[2]).key>>

\* connect_to_node_ "opens a connection to it if one does not already exist"
\* (network_ifc.h): two nodes never hold two streams between them.
OneConnectionPerPair ==
  \A n, m \in Nodes : <<n, m>> \in Streams =>
    ~(th[<<<<n, m>>, n>>] # "none" /\ th[<<<<m, n>>, n>>] # "none")

\* Every application ends: no two threads, on one node or on two, wait for each
\* other.
AppsFinish == <>(\A n \in Nodes : Finished(n))

\* Every node is torn down "gracefully": its NetworkIfc thread stops and joins
\* every Connection of connections_ and ends.
CleanShutdown == <>AllDown
=============================================================================
