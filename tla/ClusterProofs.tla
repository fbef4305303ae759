---------------------------- MODULE ClusterProofs ----------------------------
(***************************************************************************)
(* Theorems about Cluster.tla, for any number of nodes and any scripts: a  *)
(* Reply reaches the application that asked for its key; and in a program  *)
(* whose scripts are Causal every get finds its key.                       *)
(***************************************************************************)
EXTENDS Cluster, TLAPS

Requests == {"get", "wait"}
Replies  == {"reply"}

\* Messages of the types T in a sequence s: there is one, there is at most one,
\* they are about keys of K.
Has(s, T)      == \E i \in DOMAIN s : s[i].type \in T
Once(s, T)     == \A i, j \in DOMAIN s : s[i].type \in T /\ s[j].type \in T => i = j
About(s, T, K) == \A i \in DOMAIN s : s[i].type \in T => s[i].key \in K

\* A request passes from the wire w to the thread that serves it, where it is a,
\* and its Reply from there to the wire v and into the queue r; it is at one of
\* these places, or at none, and about a key of K.
Passing(w, a, v, r, K) ==
  /\ Once(w, Requests) /\ Once(v, Replies)
  /\ About(w, Requests, K) /\ About(v, Replies, K)
  /\ a \in K \cup {None}
  /\ r = <<>> \/ \E k \in K : r = <<k>>
  /\ Has(w, Requests) => a = None
  /\ Has(w, Requests) \/ a # None => ~Has(v, Replies)
  /\ Has(w, Requests) \/ a # None \/ Has(v, Replies) => r = <<>>

\* The key the application of end e awaits a Reply for, on e.
Awaits(e) == IF app[e[2]] = "await" /\ cur[e[2]] = e THEN {Cmd(e[2]).key} ELSE {}

\* Nothing passes on an end but what its application awaits there.
RequestInv(e) == Passing(wire[Peer(e)], asked[Peer(e)], wire[e], replies[e], Awaits(e))

\* What the threads of a node hold is its own.
Place(n) ==
  /\ app[n] = "await" => cur[n] # None /\ cur[n][2] = n
  /\ app[n] # "ready" => ~Finished(n)
  /\ app[n] = "enlist" => Home(n) # n
  /\ \A m \in Nodes : conn[n][m] # None => n # m /\ conn[n][m] \in {<<n, m>>, <<m, n>>}
  /\ left[n] \subseteq Peers(n)
  /\ \A i \in DOMAIN backlog[n] : backlog[n][i][2] = n
  /\ net[n] \in {"enlist", "join"} => busy[n] # None
  /\ busy[n] # None => n \in {busy[n][1], busy[n][2]}

\* A Connection thread that waits or replies does so for a key.
ServeInv(e) == th[e] \in {"wait", "reply"} => asked[e] # None

IInv == /\ TypeOK
        /\ \A n \in Nodes : Place(n)
        /\ \A e \in Ends : ServeInv(e) /\ RequestInv(e)

----------------------------------------------------------------------------
(* Messages of a type in a sequence.                                       *)

\* A message of another type makes no difference at the end of a stream.
LEMMA AppendOther ==
  ASSUME NEW S, NEW s \in Seq(S), NEW m \in S, NEW T, NEW K, m.type \notin T
  PROVE  /\ Has(Append(s, m), T) <=> Has(s, T)
         /\ Once(s, T) => Once(Append(s, m), T)
         /\ About(s, T, K) => About(Append(s, m), T, K)
<1> DEFINE t == Append(s, m)
<1>1. /\ DOMAIN s = 1 .. Len(s) /\ DOMAIN t = 1 .. Len(s) + 1 /\ Len(s) \in Nat
      /\ t[Len(s) + 1] = m
      /\ \A i \in 1 .. Len(s) : t[i] = s[i]
  OBVIOUS
<1> HIDE DEF t
<1>2. Has(t, T) <=> Has(s, T)
  BY <1>1 DEF Has
<1>3. ASSUME Once(s, T) PROVE Once(t, T)
  BY <1>1, <1>3 DEF Once
<1>4. ASSUME About(s, T, K) PROVE About(t, T, K)
  BY <1>1, <1>4 DEF About
<1> QED
  BY <1>2, <1>3, <1>4 DEF t

\* The first message of a type at the end of a stream is the only one.
LEMMA AppendFirst ==
  ASSUME NEW S, NEW s \in Seq(S), NEW m \in S, NEW T, NEW K, ~Has(s, T), m.key \in K
  PROVE  Once(Append(s, m), T) /\ About(Append(s, m), T, K)
<1> DEFINE t == Append(s, m)
<1>1. /\ DOMAIN s = 1 .. Len(s) /\ DOMAIN t = 1 .. Len(s) + 1 /\ Len(s) \in Nat
      /\ t[Len(s) + 1] = m
      /\ \A i \in 1 .. Len(s) : t[i] = s[i]
  OBVIOUS
<1> HIDE DEF t
<1>2. \A i \in DOMAIN t : t[i].type \in T => i = Len(s) + 1
  BY <1>1 DEF Has
<1> QED
  BY <1>1, <1>2 DEF Once, About, t

\* A message of another type makes no difference at the head of a stream.
LEMMA TailOther ==
  ASSUME NEW S, NEW s \in Seq(S), s # <<>>, NEW T, NEW K, Head(s).type \notin T
  PROVE  /\ Has(Tail(s), T) <=> Has(s, T)
         /\ Once(s, T) => Once(Tail(s), T)
         /\ About(s, T, K) => About(Tail(s), T, K)
<1> DEFINE t == Tail(s)
<1>1. /\ DOMAIN s = 1 .. Len(s) /\ DOMAIN t = 1 .. Len(s) - 1 /\ Len(s) \in Nat \ {0}
      /\ Head(s) = s[1]
      /\ \A i \in 1 .. Len(s) - 1 : t[i] = s[i + 1]
  OBVIOUS
<1> HIDE DEF t
<1>2. ASSUME Has(t, T) PROVE Has(s, T)
  BY <1>1, <1>2 DEF Has
<1>3. ASSUME Has(s, T) PROVE Has(t, T)
  <2>1. PICK i \in 1 .. Len(s) : s[i].type \in T
    BY <1>1, <1>3 DEF Has
  <2>2. i # 1 /\ i - 1 \in 1 .. Len(s) - 1 /\ t[i - 1] = s[i]
    BY <1>1, <2>1
  <2> QED
    BY <1>1, <2>1, <2>2 DEF Has
<1>4. ASSUME Once(s, T) PROVE Once(t, T)
  <2> SUFFICES ASSUME NEW i \in 1 .. Len(s) - 1, NEW j \in 1 .. Len(s) - 1,
                      t[i].type \in T, t[j].type \in T
               PROVE  i = j
    BY <1>1 DEF Once
  <2>1. i + 1 \in DOMAIN s /\ j + 1 \in DOMAIN s /\ t[i] = s[i + 1] /\ t[j] = s[j + 1]
    BY <1>1
  <2>2. i + 1 = j + 1
    BY <1>4, <2>1 DEF Once
  <2> QED
    BY <1>1, <2>2
<1>5. ASSUME About(s, T, K) PROVE About(t, T, K)
  BY <1>1, <1>5 DEF About
<1> QED
  BY <1>2, <1>3, <1>4, <1>5 DEF t

\* Where there is at most one message of a type, there is none once it is taken.
LEMMA TailFirst ==
  ASSUME NEW S, NEW s \in Seq(S), s # <<>>, NEW T, NEW K, Head(s).type \in T,
         Once(s, T), About(s, T, K)
  PROVE  /\ Has(s, T) /\ Head(s).key \in K
         /\ ~Has(Tail(s), T) /\ Once(Tail(s), T) /\ About(Tail(s), T, K)
<1> DEFINE t == Tail(s)
<1>1. /\ DOMAIN s = 1 .. Len(s) /\ DOMAIN t = 1 .. Len(s) - 1 /\ Len(s) \in Nat \ {0}
      /\ Head(s) = s[1]
      /\ \A i \in 1 .. Len(s) - 1 : t[i] = s[i + 1]
  OBVIOUS
<1> HIDE DEF t
<1>2. 1 \in DOMAIN s /\ Has(s, T) /\ Head(s).key \in K
  BY <1>1 DEF Has, About
<1>3. ASSUME NEW i \in DOMAIN t, t[i].type \in T PROVE FALSE
  <2>1. i + 1 \in DOMAIN s /\ s[i + 1].type \in T /\ i + 1 # 1
    BY <1>1, <1>3
  <2> QED
    BY <1>1, <1>2, <2>1 DEF Once
<1> QED
  BY <1>2, <1>3 DEF Has, Once, About, t

----------------------------------------------------------------------------
(* What passes between an application and the thread that serves it.       *)

\* The application sends a request, of which nothing arrives when the peer has
\* exited.
LEMMA PassRequest ==
  ASSUME NEW w \in Seq(Message), NEW v \in Seq(Message), NEW a, NEW r,
         NEW m \in Message, m.type \in Requests, Passing(w, a, v, r, {}),
         NEW x, x = w \/ x = Append(w, m)
  PROVE  Passing(x, a, v, r, {m.key})
<1>1. ~Has(w, Requests) /\ ~Has(v, Replies) /\ a = None /\ r = <<>>
  BY DEF Passing, Has, About
<1>2. Once(Append(w, m), Requests) /\ About(Append(w, m), Requests, {m.key})
  BY <1>1, AppendFirst
<1>3. /\ Once(v, Replies) /\ About(v, Replies, {m.key})
      /\ Once(w, Requests) /\ About(w, Requests, {m.key})
  BY <1>1 DEF Has, Once, About
<1> QED
  BY <1>1, <1>2, <1>3 DEF Passing

\* The serving thread takes the request.
LEMMA PassServe ==
  ASSUME NEW w \in Seq(Message), NEW v, NEW a, NEW r, NEW K,
         w # <<>>, Head(w).type \in Requests, Passing(w, a, v, r, K)
  PROVE  Passing(Tail(w), Head(w).key, v, r, K)
<1>1. /\ Has(w, Requests) /\ Head(w).key \in K
      /\ ~Has(Tail(w), Requests) /\ Once(Tail(w), Requests) /\ About(Tail(w), Requests, K)
  BY TailFirst DEF Passing
<1> QED
  BY <1>1 DEF Passing

\* It sends the Reply, which may be lost.
LEMMA PassReply ==
  ASSUME NEW w, NEW v \in Seq(Message), NEW a \in Keys, NEW r, NEW K,
         Passing(w, a, v, r, K),
         NEW m \in Message, m.type \in Replies, m.key = a,
         NEW y, y = v \/ y = Append(v, m)
  PROVE  Passing(w, None, y, r, K)
<1>1. a # None
  BY ClusterAssumption
<1>2. ~Has(w, Requests) /\ ~Has(v, Replies) /\ r = <<>> /\ a \in K
  BY <1>1 DEF Passing
<1>3. Once(Append(v, m), Replies) /\ About(Append(v, m), Replies, K)
  BY <1>2, AppendFirst
<1> QED
  BY <1>2, <1>3 DEF Passing

\* The Reply is taken from the wire and queued.
LEMMA PassQueue ==
  ASSUME NEW w, NEW v \in Seq(Message), NEW a, NEW r, NEW K,
         v # <<>>, Head(v).type \in Replies, Passing(w, a, v, r, K)
  PROVE  Passing(w, a, Tail(v), Append(r, Head(v).key), K)
<1>1. /\ Has(v, Replies) /\ Head(v).key \in K
      /\ ~Has(Tail(v), Replies) /\ Once(Tail(v), Replies) /\ About(Tail(v), Replies, K)
  BY TailFirst DEF Passing
<1>2. ~Has(w, Requests) /\ a = None /\ r = <<>>
  BY <1>1 DEF Passing
<1>3. Append(r, Head(v).key) = <<Head(v).key>>
  BY <1>2
<1> QED
  BY <1>1, <1>2, <1>3 DEF Passing

\* The application takes the Reply.
LEMMA PassTake ==
  ASSUME NEW w, NEW v, NEW a, NEW r, NEW K,
         r # <<>>, Passing(w, a, v, r, K)
  PROVE  Passing(w, a, v, Tail(r), {})
<1>1. /\ ~Has(w, Requests) /\ a = None /\ ~Has(v, Replies)
      /\ \E k \in K : r = <<k>>
  BY DEF Passing
<1>2. Tail(r) = <<>>
  BY <1>1
<1>3. About(w, Requests, {}) /\ About(v, Replies, {})
  BY <1>1 DEF Has, About
<1> QED
  BY <1>1, <1>2, <1>3 DEF Passing

\* Other messages are sent,
LEMMA PassSentTo ==
  ASSUME NEW w \in Seq(Message), NEW v, NEW a, NEW r, NEW K,
         NEW m \in Message, m.type \notin Requests, Passing(w, a, v, r, K),
         NEW x, x = w \/ x = Append(w, m)
  PROVE  Passing(x, a, v, r, K)
<1>1. /\ Has(x, Requests) <=> Has(w, Requests)
      /\ Once(w, Requests) => Once(x, Requests)
      /\ About(w, Requests, K) => About(x, Requests, K)
  BY AppendOther
<1> QED
  BY <1>1 DEF Passing

LEMMA PassSentBack ==
  ASSUME NEW w, NEW v \in Seq(Message), NEW a, NEW r, NEW K,
         NEW m \in Message, m.type \notin Replies, Passing(w, a, v, r, K),
         NEW x, x = v \/ x = Append(v, m)
  PROVE  Passing(w, a, x, r, K)
<1>1. /\ Has(x, Replies) <=> Has(v, Replies)
      /\ Once(v, Replies) => Once(x, Replies)
      /\ About(v, Replies, K) => About(x, Replies, K)
  BY AppendOther
<1> QED
  BY <1>1 DEF Passing

\* and taken.
LEMMA PassTakenTo ==
  ASSUME NEW w \in Seq(Message), NEW v, NEW a, NEW r, NEW K,
         w # <<>>, Head(w).type \notin Requests, Passing(w, a, v, r, K)
  PROVE  Passing(Tail(w), a, v, r, K)
<1>1. /\ Has(Tail(w), Requests) <=> Has(w, Requests)
      /\ Once(w, Requests) => Once(Tail(w), Requests)
      /\ About(w, Requests, K) => About(Tail(w), Requests, K)
  BY TailOther
<1> QED
  BY <1>1 DEF Passing

LEMMA PassTakenBack ==
  ASSUME NEW w, NEW v \in Seq(Message), NEW a, NEW r, NEW K,
         v # <<>>, Head(v).type \notin Replies, Passing(w, a, v, r, K)
  PROVE  Passing(w, a, Tail(v), r, K)
<1>1. /\ Has(Tail(v), Replies) <=> Has(v, Replies)
      /\ Once(v, Replies) => Once(Tail(v), Replies)
      /\ About(v, Replies, K) => About(Tail(v), Replies, K)
  BY TailOther
<1> QED
  BY <1>1 DEF Passing

----------------------------------------------------------------------------
(* Ends and what is awaited there.                                         *)

LEMMA PeerFacts ==
  ASSUME NEW e \in Ends
  PROVE  /\ Peer(e) \in Ends /\ Peer(Peer(e)) = e /\ Peer(e) # e
         /\ e[1] \in Streams /\ e[2] \in Nodes /\ Peer(e)[2] \in Nodes
         /\ e = <<e[1], e[2]>>
BY DEF Peer, Other, Ends, Streams

LEMMA EndFacts ==
  ASSUME NEW s \in Streams, NEW n \in Nodes, n \in {s[1], s[2]}
  PROVE  /\ <<s, n>> \in Ends /\ <<s, n>>[1] = s /\ <<s, n>>[2] = n
         /\ Other(s, n) \in Nodes /\ Other(s, n) # n
         /\ s \in {<<n, Other(s, n)>>, <<Other(s, n), n>>}
BY DEF Other, Ends, Streams

\* The stream between two nodes, whoever opened it.
LEMMA StreamFacts ==
  ASSUME NEW n \in Nodes, NEW m \in Nodes, n # m, NEW s \in {<<n, m>>, <<m, n>>}
  PROVE  /\ s \in Streams /\ n \in {s[1], s[2]} /\ Other(s, n) = m
         /\ <<s, n>> \in Ends /\ <<s, n>>[1] = s /\ <<s, n>>[2] = n
BY DEF Other, Ends, Streams

\* The operation an application is to make next.
LEMMA CmdFacts ==
  ASSUME TypeOK, NEW n \in Nodes, ~Finished(n)
  PROVE  /\ Cmd(n) \in [type : {"put", "get", "wait"}, key : Keys]
         /\ Cmd(n) \in Message /\ Cmd(n).key \in Keys /\ Home(n) \in Nodes
         /\ Tail(todo[n]) \in Seq([type : {"put", "get", "wait"}, key : Keys])
<1> DEFINE C == [type : {"put", "get", "wait"}, key : Keys]
<1>1. todo[n] \in Seq(C) /\ todo[n] # <<>>
  BY DEF TypeOK, Finished
<1> HIDE DEF C
<1>2. Head(todo[n]) \in C /\ Tail(todo[n]) \in Seq(C)
  BY <1>1
<1> QED
  BY <1>2, ClusterAssumption DEF C, Cmd, Home, Message

\* An operation is done.
LEMMA TodoFacts ==
  ASSUME TypeOK, NEW n \in Nodes, ~Finished(n)
  PROVE  /\ [todo EXCEPT ![n] = Tail(@)] \in [Nodes -> Seq([type : {"put", "get", "wait"}, key : Keys])]
         /\ todo \in [Nodes -> Seq([type : {"put", "get", "wait"}, key : Keys])]
BY CmdFacts DEF TypeOK

\* A put at node n leaves a store that has the key.
LEMMA StoreFacts ==
  ASSUME TypeOK, NEW n \in Nodes, NEW k \in Keys
  PROVE  /\ [store EXCEPT ![n] = @ \cup {k}] \in [Nodes -> SUBSET Keys]
         /\ store \in [Nodes -> SUBSET Keys]
<1>1. store \in [Nodes -> SUBSET Keys]
  BY DEF TypeOK
<1>2. store[n] \cup {k} \in SUBSET Keys
  BY <1>1
<1> QED
  BY <1>1, <1>2

\* A message other than a KILL is about a key.
LEMMA MessageFacts ==
  ASSUME TypeOK, NEW e \in Ends, wire[e] # <<>>
  PROVE  /\ Head(wire[e]) \in Message /\ Tail(wire[e]) \in Seq(Message)
         /\ Head(wire[e]).type \in {"put", "get", "wait", "reply", "kill"}
         /\ Head(wire[e]).type # "kill" => Head(wire[e]).key \in Keys
<1>1. wire[e] \in Seq(Message)
  BY DEF TypeOK
<1>2. Head(wire[e]) \in Message /\ Tail(wire[e]) \in Seq(Message)
  BY <1>1
<1> QED
  BY <1>2 DEF Message

----------------------------------------------------------------------------
(* What a step leaves alone.                                               *)

\* A node whose own threads' variables are as they were.
LEMMA PlaceKept ==
  ASSUME NEW n \in Nodes, Place(n),
         app'[n] = app[n], cur'[n] = cur[n], todo'[n] = todo[n], conn'[n] = conn[n],
         left'[n] = left[n], backlog'[n] = backlog[n], net'[n] = net[n], busy'[n] = busy[n]
  PROVE  Place(n)'
BY DEF Place, Finished, Home, Cmd, Peers

LEMMA AwaitsKept ==
  ASSUME NEW e, app'[e[2]] = app[e[2]], cur'[e[2]] = cur[e[2]], todo'[e[2]] = todo[e[2]]
  PROVE  Awaits(e)' = Awaits(e)
BY DEF Awaits, Cmd

LEMMA RequestKept ==
  ASSUME NEW e, RequestInv(e), wire'[e] = wire[e], wire'[Peer(e)] = wire[Peer(e)],
         asked'[Peer(e)] = asked[Peer(e)], replies'[e] = replies[e],
         Awaits(e)' = Awaits(e)
  PROVE  RequestInv(e)'
BY DEF RequestInv, Peer, Other

\* A message is added to the wire of the other end, or lost.
LEMMA SentFacts ==
  ASSUME TypeOK, NEW e \in Ends, NEW m \in Message
  PROVE  /\ Sent(wire, e, m) \in [Ends -> Seq(Message)]
         /\ \/ Sent(wire, e, m)[Peer(e)] = wire[Peer(e)]
            \/ Sent(wire, e, m)[Peer(e)] = Append(wire[Peer(e)], m)
         /\ \A f \in Ends : f # Peer(e) => Sent(wire, e, m)[f] = wire[f]
<1>1. wire \in [Ends -> Seq(Message)] /\ Peer(e) \in Ends
  BY PeerFacts DEF TypeOK
<1>2. Append(wire[Peer(e)], m) \in Seq(Message)
  BY <1>1
<1> QED
  BY <1>1, <1>2 DEF Sent

LEMMA RequestPrimed ==
  ASSUME NEW e, NEW K, Awaits(e)' = K,
         Passing(wire'[Peer(e)], asked'[Peer(e)], wire'[e], replies'[e], K)
  PROVE  RequestInv(e)'
BY DEF RequestInv, Peer, Other

----------------------------------------------------------------------------
(* The application's thread.                                               *)

LEMMA LocalStep ==
  ASSUME IInv, NEW n \in Nodes, Local(n)
  PROVE  IInv'
<1> USE DEF IInv
<1>1. /\ ~Finished(n) /\ app[n] = "ready"
      /\ todo' = [todo EXCEPT ![n] = Tail(@)]
      /\ \/ store' = [store EXCEPT ![n] = @ \cup {Cmd(n).key}]
         \/ store' = store
      /\ UNCHANGED <<app, cur, conn, netVars, wire, connVars>>
  BY DEF Local
<1>2. TypeOK'
  <2>1. Cmd(n).key \in Keys
    BY <1>1, CmdFacts
  <2>2. store' \in [Nodes -> SUBSET Keys]
    BY <1>1, <2>1, StoreFacts
  <2>3. todo' \in [Nodes -> Seq([type : {"put", "get", "wait"}, key : Keys])]
    BY <1>1, CmdFacts DEF TypeOK
  <2> QED
    BY <1>1, <2>2, <2>3 DEF TypeOK, netVars, connVars
<1>3. ASSUME NEW m \in Nodes PROVE Place(m)'
  <2>1. CASE m = n
    BY <1>1, <2>1 DEF Place, Peers, netVars
  <2>2. CASE m # n
    <3>1. todo'[m] = todo[m]
      BY <1>1, <2>2 DEF TypeOK
    <3> QED
      BY <1>1, <3>1, PlaceKept DEF netVars
  <2> QED
    BY <2>1, <2>2
<1>4. ASSUME NEW e \in Ends PROVE ServeInv(e)' /\ RequestInv(e)'
  <2>1. Awaits(e)' = Awaits(e)
    <3>1. CASE e[2] = n
      BY <1>1, <3>1 DEF Awaits
    <3>2. CASE e[2] # n
      <4>1. todo'[e[2]] = todo[e[2]]
        BY <1>1, <3>2, PeerFacts DEF TypeOK
      <4> QED
        BY <1>1, <4>1, AwaitsKept
    <3> QED
      BY <3>1, <3>2
  <2> QED
    BY <1>1, <2>1, RequestKept DEF ServeInv, connVars
<1> QED
  BY <1>2, <1>3, <1>4

LEMMA ConnectStep ==
  ASSUME IInv, NEW n \in Nodes, Connect(n)
  PROVE  IInv'
<1> USE DEF IInv
<1> DEFINE h == Home(n)
           s == <<n, h>>
<1>1. /\ ~Finished(n) /\ app[n] = "ready" /\ h # n
      /\ backlog' = [backlog EXCEPT ![h] = Append(@, s)]
      /\ th' = [th EXCEPT ![<<s, n>>] = "poll"]
      /\ app' = [app EXCEPT ![n] = "enlist"]
      /\ UNCHANGED <<store, todo, cur, conn, net, keepNet, busy, left, wire, keep, asked, replies>>
  BY DEF Connect
<1>2. h \in Nodes /\ s \in Streams /\ <<s, n>> \in Ends /\ s[2] = h
  BY <1>1, CmdFacts, StreamFacts
<1> HIDE DEF s
<1>3. TypeOK'
  <2>1. backlog[h] \in Seq(Streams)
    BY <1>2 DEF TypeOK
  <2>2. Append(backlog[h], s) \in Seq(Streams)
    BY <1>2, <2>1
  <2> QED
    BY <1>1, <1>2, <2>2 DEF TypeOK
<1>4. ASSUME NEW m \in Nodes PROVE Place(m)'
  <2>1. \A i \in DOMAIN backlog'[m] : backlog'[m][i][2] = m
    <3>1. CASE m = h
      <4>1. backlog[h] \in Seq(Streams) /\ backlog'[h] = Append(backlog[h], s)
        BY <1>1, <1>2 DEF TypeOK
      <4>2. \A i \in DOMAIN backlog[h] : backlog[h][i][2] = h
        BY <1>2 DEF Place
      <4> QED
        BY <3>1, <4>1, <4>2, <1>2
    <3>2. CASE m # h
      BY <1>1, <3>2 DEF TypeOK, Place
    <3> QED
      BY <3>1, <3>2
  <2>2. Finished(m)' = Finished(m) /\ Home(m)' = Home(m) /\ Peers(m)' = Peers(m)
    BY <1>1 DEF Finished, Home, Cmd, Peers
  <2>3. app'[m] = IF m = n THEN "enlist" ELSE app[m]
    BY <1>1 DEF TypeOK
  <2> QED
    BY <1>1, <2>1, <2>2, <2>3 DEF Place
<1>5. ASSUME NEW e \in Ends PROVE ServeInv(e)' /\ RequestInv(e)'
  <2>1. Awaits(e)' = Awaits(e)
    BY <1>1, PeerFacts DEF Awaits, Cmd, TypeOK
  <2>2. th'[e] \in {th[e], "poll"}
    BY <1>1 DEF TypeOK
  <2> QED
    BY <1>1, <2>1, <2>2, RequestKept DEF ServeInv
<1> QED
  BY <1>3, <1>4, <1>5

LEMMA EnlistStep ==
  ASSUME IInv, NEW n \in Nodes, Enlist(n)
  PROVE  IInv'
<1> USE DEF IInv
<1> DEFINE h == Home(n)
           s == <<n, h>>
<1>1. /\ app[n] = "enlist"
      /\ conn' = [conn EXCEPT ![n][h] = s]
      /\ app' = [app EXCEPT ![n] = "ready"]
      /\ UNCHANGED <<store, todo, cur, netVars, wire, connVars>>
  BY DEF Enlist
<1>2. ~Finished(n) /\ h # n
  BY <1>1 DEF Place
<1>3. h \in Nodes /\ s \in Streams /\ None # s
  <2>1. h \in Nodes /\ s \in Streams
    BY <1>2, CmdFacts, StreamFacts
  <2> HIDE DEF s
  <2> QED
    BY <2>1, ClusterAssumption
<1>4. TypeOK'
  <2>1. conn' \in [Nodes -> [Nodes -> Streams \cup {None}]]
    BY <1>1, <1>3 DEF TypeOK
  <2> QED
    BY <1>1, <2>1 DEF TypeOK, netVars, connVars
<1>5. \A m, k \in Nodes : conn'[m][k] = IF m = n /\ k = h THEN s ELSE conn[m][k]
  BY <1>1, <1>3 DEF TypeOK
<1>6. ASSUME NEW m \in Nodes PROVE Place(m)'
  <2>1. \A k \in Nodes : conn'[m][k] # None => m # k /\ conn'[m][k] \in {<<m, k>>, <<k, m>>}
    BY <1>2, <1>5 DEF Place
  <2>2. Peers(m) \subseteq Peers(m)'
    BY <1>3, <1>5 DEF Peers
  <2>3. Finished(m)' = Finished(m) /\ Home(m)' = Home(m)
    BY <1>1 DEF Finished, Home, Cmd
  <2>4. app'[m] = IF m = n THEN "ready" ELSE app[m]
    BY <1>1 DEF TypeOK
  <2> HIDE DEF s, h
  <2> QED
    BY <1>1, <2>1, <2>2, <2>3, <2>4 DEF Place, netVars
<1>7. ASSUME NEW e \in Ends PROVE ServeInv(e)' /\ RequestInv(e)'
  <2>1. Awaits(e)' = Awaits(e)
    BY <1>1, PeerFacts DEF Awaits, Cmd, TypeOK
  <2> QED
    BY <1>1, <2>1, RequestKept DEF ServeInv, connVars
<1> QED
  BY <1>4, <1>6, <1>7

LEMMA SendStep ==
  ASSUME IInv, NEW n \in Nodes, Send(n)
  PROVE  IInv'
<1> USE DEF IInv
<1>0. PICK s, e, m : s = conn[n][Home(n)] /\ e = <<s, n>> /\ m = Cmd(n)
  OBVIOUS
<1>1. /\ ~Finished(n) /\ app[n] = "ready" /\ Home(n) # n
      /\ s # None
      /\ wire' = Sent(wire, e, m)
      /\ \/ /\ m.type = "put"
            /\ todo' = [todo EXCEPT ![n] = Tail(@)]
            /\ UNCHANGED <<app, cur>>
         \/ /\ m.type # "put"
            /\ app' = [app EXCEPT ![n] = "await"]
            /\ cur' = [cur EXCEPT ![n] = e]
            /\ UNCHANGED todo
      /\ UNCHANGED <<store, conn, netVars, connVars>>
  BY <1>0 DEF Send
<1>2. /\ Home(n) \in Nodes /\ m \in Message /\ m.key \in Keys
      /\ m.type \in {"put", "get", "wait"}
      /\ Tail(todo[n]) \in Seq([type : {"put", "get", "wait"}, key : Keys])
  BY <1>0, <1>1, CmdFacts
<1>3. e \in Ends /\ e[2] = n /\ e[1] = s
  <2>1. s \in {<<n, Home(n)>>, <<Home(n), n>>}
    BY <1>0, <1>1, <1>2 DEF Place
  <2> QED
    BY <1>0, <1>1, <1>2, <2>1 DEF Ends, Streams
<1>4. /\ wire' \in [Ends -> Seq(Message)]
      /\ \/ wire'[Peer(e)] = wire[Peer(e)]
         \/ wire'[Peer(e)] = Append(wire[Peer(e)], m)
      /\ \A f \in Ends : f # Peer(e) => wire'[f] = wire[f]
  <2>1. m \in Message /\ e \in Ends /\ TypeOK
    BY <1>2, <1>3
  <2>2. wire' = Sent(wire, e, m)
    BY <1>1
  <2>3. /\ Sent(wire, e, m) \in [Ends -> Seq(Message)]
        /\ \/ Sent(wire, e, m)[Peer(e)] = wire[Peer(e)]
           \/ Sent(wire, e, m)[Peer(e)] = Append(wire[Peer(e)], m)
        /\ \A f \in Ends : f # Peer(e) => Sent(wire, e, m)[f] = wire[f]
    BY <2>1, SentFacts
  <2> QED
    BY <2>2, <2>3
<1>5. TypeOK'
  <2>1. todo' \in [Nodes -> Seq([type : {"put", "get", "wait"}, key : Keys])]
    BY <1>1, TodoFacts
  <2>2. app' \in [Nodes -> {"ready", "enlist", "await"}] /\ cur' \in [Nodes -> Ends \cup {None}]
    <3>1. app \in [Nodes -> {"ready", "enlist", "await"}] /\ cur \in [Nodes -> Ends \cup {None}]
      BY DEF TypeOK
    <3> QED
      BY <1>1, <1>3, <3>1
  <2> QED
    BY <1>1, <1>4, <2>1, <2>2 DEF TypeOK, netVars, connVars
<1>6. e # None
  BY <1>3, ClusterAssumption
<1>7. ASSUME NEW k \in Nodes PROVE Place(k)'
  <2>1. CASE k # n
    <3>1. todo'[k] = todo[k] /\ app'[k] = app[k] /\ cur'[k] = cur[k]
      BY <1>1, <2>1 DEF TypeOK
    <3> QED
      BY <1>1, <3>1, PlaceKept DEF netVars
  <2>2. CASE k = n
    <3>1. /\ app'[n] = "await" => cur'[n] = e /\ todo'[n] = todo[n]
          /\ app'[n] \in {"ready", "await"}
      BY <1>1 DEF TypeOK
    <3> QED
      BY <1>1, <1>3, <1>6, <2>2, <3>1 DEF Place, Peers, Finished, netVars
  <2> QED
    BY <2>1, <2>2
<1>8. ASSUME NEW f \in Ends, f # e PROVE Awaits(f)' = Awaits(f)
  <2>1. CASE f[2] = n
    BY <1>1, <1>8, <2>1 DEF Awaits, TypeOK
  <2>2. CASE f[2] # n
    BY <1>1, <2>2, PeerFacts, AwaitsKept DEF TypeOK
  <2> QED
    BY <2>1, <2>2
<1>9. /\ Awaits(e) = {}
      /\ m.type = "put" => Awaits(e)' = {}
      /\ m.type # "put" => Awaits(e)' = {m.key}
  <2>1. CASE m.type = "put"
    BY <1>1, <1>3, <2>1 DEF Awaits
  <2>2. CASE m.type # "put"
    <3>1. app'[n] = "await" /\ cur'[n] = e /\ Cmd(n)' = m
      BY <1>0, <1>1, <2>2 DEF TypeOK, Cmd
    <3>2. Awaits(e)' = {m.key}
      BY <1>3, <3>1 DEF Awaits, Cmd
    <3> QED
      BY <1>1, <1>3, <2>2, <3>2 DEF Awaits
  <2> QED
    BY <2>1, <2>2
<1>10. ASSUME NEW f \in Ends PROVE RequestInv(f)'
  <2>1. /\ Peer(f) \in Ends /\ Peer(Peer(f)) = f /\ Peer(f) # f
        /\ Peer(e) \in Ends /\ Peer(Peer(e)) = e /\ Peer(e) # e
    BY <1>3, PeerFacts
  <2>2. /\ wire[f] \in Seq(Message) /\ wire[Peer(f)] \in Seq(Message)
        /\ asked'[Peer(f)] = asked[Peer(f)] /\ replies'[f] = replies[f]
    BY <1>1, <2>1 DEF TypeOK, connVars
  <2>3. Passing(wire[Peer(f)], asked[Peer(f)], wire[f], replies[f], Awaits(f))
    BY DEF RequestInv
  <2>5. CASE f = e
    <3>1. wire'[f] = wire[f]
      BY <1>4, <2>1, <2>5
    <3>2. CASE m.type = "put"
      <4>1. m.type \notin Requests
        BY <3>2 DEF Requests
      <4>2. Passing(wire'[Peer(f)], asked[Peer(f)], wire[f], replies[f], Awaits(f))
        <5>1. wire'[Peer(f)] = wire[Peer(f)] \/ wire'[Peer(f)] = Append(wire[Peer(f)], m)
          BY <1>4, <2>5
        <5> QED
          BY <1>2, <2>2, <2>3, <4>1, <5>1, PassSentTo
      <4> QED
        BY <1>9, <2>2, <2>5, <3>1, <3>2, <4>2, RequestPrimed
    <3>3. CASE m.type # "put"
      <4>1. m.type \in Requests
        BY <1>2, <3>3 DEF Requests
      <4>2. Passing(wire'[Peer(f)], asked[Peer(f)], wire[f], replies[f], {m.key})
        <5>1. wire'[Peer(f)] = wire[Peer(f)] \/ wire'[Peer(f)] = Append(wire[Peer(f)], m)
          BY <1>4, <2>5
        <5>2. Passing(wire[Peer(f)], asked[Peer(f)], wire[f], replies[f], {})
          BY <1>9, <2>3, <2>5
        <5> QED
          BY <1>2, <2>2, <4>1, <5>1, <5>2, PassRequest
      <4> QED
        BY <1>9, <2>2, <2>5, <3>1, <3>3, <4>2, RequestPrimed
    <3> QED
      BY <3>2, <3>3
  <2>6. CASE f = Peer(e)
    <3>1. wire'[Peer(f)] = wire[Peer(f)]
      BY <1>4, <2>1, <2>6
    <3>2. m.type \notin Replies
      BY <1>2 DEF Replies
    <3>3. Passing(wire[Peer(f)], asked[Peer(f)], wire'[f], replies[f], Awaits(f))
      <4>1. wire'[f] = wire[f] \/ wire'[f] = Append(wire[f], m)
        BY <1>4, <2>6
      <4> QED
        BY <1>2, <2>2, <2>3, <3>2, <4>1, PassSentBack
    <3> QED
      BY <1>8, <2>1, <2>2, <2>6, <3>1, <3>3, RequestPrimed
  <2>7. CASE f # e /\ f # Peer(e)
    <3>1. wire'[f] = wire[f] /\ wire'[Peer(f)] = wire[Peer(f)]
      BY <1>4, <2>1, <2>7
    <3> QED
      BY <1>8, <2>2, <2>7, <3>1, RequestKept
  <2> QED
    BY <2>5, <2>6, <2>7
<1>11. ASSUME NEW f \in Ends PROVE ServeInv(f)'
  BY <1>1 DEF ServeInv, connVars
<1> QED
  BY <1>5, <1>7, <1>10, <1>11

LEMMA TakeReplyStep ==
  ASSUME IInv, NEW n \in Nodes, TakeReply(n)
  PROVE  IInv'
<1> USE DEF IInv
<1> DEFINE e == cur[n]
<1>1. /\ app[n] = "await" /\ replies[e] # <<>>
      /\ replies' = [replies EXCEPT ![e] = Tail(@)]
      /\ todo' = [todo EXCEPT ![n] = Tail(@)]
      /\ app' = [app EXCEPT ![n] = "ready"]
      /\ cur' = [cur EXCEPT ![n] = None]
      /\ UNCHANGED <<store, conn, netVars, wire, th, keep, asked>>
  BY DEF TakeReply
<1>2. e \in Ends /\ e[2] = n /\ ~Finished(n)
  BY <1>1 DEF Place, TypeOK
<1> HIDE DEF e
<1>3. TypeOK'
  <2>1. todo' \in [Nodes -> Seq([type : {"put", "get", "wait"}, key : Keys])]
    BY <1>1, <1>2, CmdFacts DEF TypeOK
  <2>2. replies[e] \in Seq(Keys)
    BY <1>2 DEF TypeOK
  <2>3. Tail(replies[e]) \in Seq(Keys)
    BY <1>1, <2>2
  <2>4. replies' \in [Ends -> Seq(Keys)]
    BY <1>1, <2>3 DEF TypeOK
  <2> QED
    BY <1>1, <2>1, <2>4 DEF TypeOK, netVars
<1>4. ASSUME NEW m \in Nodes PROVE Place(m)'
  <2>1. CASE m # n
    <3>1. todo'[m] = todo[m] /\ app'[m] = app[m] /\ cur'[m] = cur[m]
      BY <1>1, <2>1 DEF TypeOK
    <3> QED
      BY <1>1, <3>1, PlaceKept DEF netVars
  <2>2. CASE m = n
    <3>1. app'[n] = "ready"
      BY <1>1 DEF TypeOK
    <3> QED
      BY <1>1, <2>2, <3>1 DEF Place, Peers, netVars
  <2> QED
    BY <2>1, <2>2
<1>5. ASSUME NEW f \in Ends PROVE ServeInv(f)' /\ RequestInv(f)'
  <2>1. Passing(wire[Peer(f)], asked[Peer(f)], wire[f], replies[f], Awaits(f))
    BY DEF RequestInv
  <2>3. ServeInv(f)'
    BY <1>1 DEF ServeInv
  <2>4. CASE f = e
    <3>1. Passing(wire[Peer(f)], asked[Peer(f)], wire[f], Tail(replies[f]), {})
      BY <1>1, <2>1, <2>4, PassTake
    <3>2. Awaits(f)' = {} /\ replies'[f] = Tail(replies[f])
      BY <1>1, <1>2, <2>4 DEF Awaits, TypeOK
    <3> QED
      BY <1>1, <2>3, <3>1, <3>2, RequestPrimed
  <2>5. CASE f # e
    <3>1. replies'[f] = replies[f]
      BY <1>1, <2>5 DEF TypeOK
    <3>2. Awaits(f)' = Awaits(f)
      <4>1. CASE f[2] = n
        BY <1>1, <2>5, <4>1 DEF Awaits, TypeOK, e
      <4>2. CASE f[2] # n
        BY <1>1, <4>2, PeerFacts, AwaitsKept DEF TypeOK
      <4> QED
        BY <4>1, <4>2
    <3> QED
      BY <1>1, <2>3, <3>1, <3>2, RequestKept
  <2> QED
    BY <2>4, <2>5
<1> QED
  BY <1>3, <1>4, <1>5

----------------------------------------------------------------------------
(* The NetworkIfc thread.                                                  *)

\* It takes no part in requests.
LEMMA RequestSame ==
  ASSUME IInv, UNCHANGED <<todo, app, cur, wire, asked, replies>>, NEW e \in Ends
  PROVE  RequestInv(e)'
BY AwaitsKept, RequestKept DEF IInv

LEMMA StopNetStep ==
  ASSUME IInv, NEW n \in Nodes, StopNet(n)
  PROVE  IInv'
<1> USE DEF IInv
<1>1. /\ keepNet' = [keepNet EXCEPT ![n] = FALSE]
      /\ net' = [net EXCEPT ![n] = IF @ = "serve" THEN "last" ELSE @]
      /\ UNCHANGED <<store, appVars, conn, backlog, busy, left, wire, connVars>>
  BY DEF StopNet
<1>2. TypeOK'
  BY <1>1 DEF TypeOK, appVars, connVars
<1>3. ASSUME NEW m \in Nodes PROVE Place(m)'
  <2>1. net'[m] \in {net[m], "last"}
    BY <1>1 DEF TypeOK
  <2>2. UNCHANGED <<appVars, conn, backlog, busy, left>>
    BY <1>1
  <2> QED
    BY <2>1, <2>2 DEF Place, Peers, Finished, Home, Cmd, appVars
<1>4. ASSUME NEW e \in Ends PROVE ServeInv(e)' /\ RequestInv(e)'
  BY <1>1, RequestSame DEF ServeInv, appVars, connVars
<1> QED
  BY <1>2, <1>3, <1>4

LEMMA AcceptStep ==
  ASSUME IInv, NEW n \in Nodes, Accept(n)
  PROVE  IInv'
<1> USE DEF IInv
<1>0. PICK s : s = Head(backlog[n])
  OBVIOUS
<1>1. /\ backlog[n] # <<>>
      /\ backlog' = [backlog EXCEPT ![n] = Tail(@)]
      /\ busy' = [busy EXCEPT ![n] = s]
      /\ th' = [th EXCEPT ![<<s, n>>] = "poll"]
      /\ net' = [net EXCEPT ![n] = "enlist"]
      /\ UNCHANGED <<store, appVars, conn, keepNet, left, wire, keep, asked, replies>>
  BY <1>0 DEF Accept
<1>2. backlog[n] \in Seq(Streams) /\ \A i \in DOMAIN backlog[n] : backlog[n][i][2] = n
  BY DEF TypeOK, Place
<1>3. /\ s \in Streams /\ s[2] = n /\ Tail(backlog[n]) \in Seq(Streams)
      /\ \A i \in DOMAIN Tail(backlog[n]) : Tail(backlog[n])[i][2] = n
  <2>1. s = backlog[n][1] /\ 1 \in DOMAIN backlog[n]
    BY <1>0, <1>1, <1>2
  <2>2. \A i \in DOMAIN Tail(backlog[n]) : /\ Tail(backlog[n])[i] = backlog[n][i + 1]
                                           /\ i + 1 \in DOMAIN backlog[n]
    BY <1>1, <1>2
  <2>3. s \in Streams /\ Tail(backlog[n]) \in Seq(Streams)
    BY <1>0, <1>1, <1>2
  <2> QED
    BY <1>2, <2>1, <2>2, <2>3
<1>4. s # None
  BY <1>3, ClusterAssumption
<1>5. TypeOK'
  <2>1. backlog' \in [Nodes -> Seq(Streams)]
    BY <1>1, <1>3 DEF TypeOK
  <2>2. busy' \in [Nodes -> Streams \cup {None}]
    BY <1>1, <1>3 DEF TypeOK
  <2>3. /\ th' \in [Ends -> {"none", "poll", "last", "wait", "reply", "gone"}]
        /\ net' \in [Nodes -> {"serve", "last", "enlist", "stop", "join", "down"}]
    BY <1>1 DEF TypeOK
  <2> QED
    BY <1>1, <2>1, <2>2, <2>3 DEF TypeOK, appVars
<1>6. ASSUME NEW m \in Nodes PROVE Place(m)'
  <2>1. CASE m # n
    <3>1. backlog'[m] = backlog[m] /\ busy'[m] = busy[m] /\ net'[m] = net[m]
      BY <1>1, <2>1 DEF TypeOK
    <3> QED
      BY <1>1, <3>1, PlaceKept DEF appVars
  <2>2. CASE m = n
    <3>1. backlog'[n] = Tail(backlog[n]) /\ busy'[n] = s
      BY <1>1 DEF TypeOK
    <3>2. \A i \in DOMAIN backlog'[n] : backlog'[n][i][2] = n
      BY <1>3, <3>1
    <3>3. busy'[n] # None /\ n \in {busy'[n][1], busy'[n][2]}
      BY <1>3, <1>4, <3>1
    <3>4. UNCHANGED <<appVars, conn, left>>
      BY <1>1
    <3> QED
      BY <2>2, <3>2, <3>3, <3>4 DEF Place, Peers, Finished, Home, Cmd, appVars
  <2> QED
    BY <2>1, <2>2
<1>7. ASSUME NEW e \in Ends PROVE ServeInv(e)' /\ RequestInv(e)'
  <2>1. th'[e] \in {th[e], "poll"}
    BY <1>1 DEF TypeOK
  <2>2. ServeInv(e)'
    BY <1>1, <2>1 DEF ServeInv
  <2> QED
    BY <1>1, <2>2, RequestSame DEF appVars
<1> QED
  BY <1>5, <1>6, <1>7

LEMMA EnlistAcceptedStep ==
  ASSUME IInv, NEW n \in Nodes, EnlistAccepted(n)
  PROVE  IInv'
<1> USE DEF IInv
<1>0. PICK s, h : s = busy[n] /\ h = Other(s, n)
  OBVIOUS
<1>1. /\ net[n] = "enlist"
      /\ conn' = [conn EXCEPT ![n][h] = s]
      /\ busy' = [busy EXCEPT ![n] = None]
      /\ net' = [net EXCEPT ![n] = "serve"]
      /\ UNCHANGED <<store, appVars, backlog, keepNet, left, wire, connVars>>
  BY <1>0 DEF EnlistAccepted
<1>2. s # None /\ s \in Streams /\ n \in {s[1], s[2]}
  BY <1>0, <1>1 DEF Place, TypeOK
<1>3. h \in Nodes /\ h # n /\ s \in {<<n, h>>, <<h, n>>}
  BY <1>0, <1>2, EndFacts
<1>4. TypeOK'
  <2>1. conn' \in [Nodes -> [Nodes -> Streams \cup {None}]]
    BY <1>1, <1>2 DEF TypeOK
  <2>2. /\ busy' \in [Nodes -> Streams \cup {None}]
        /\ net' \in [Nodes -> {"serve", "last", "enlist", "stop", "join", "down"}]
    BY <1>1 DEF TypeOK
  <2> QED
    BY <1>1, <2>1, <2>2 DEF TypeOK, appVars, connVars
<1>5. \A m, k \in Nodes : conn'[m][k] = IF m = n /\ k = h THEN s ELSE conn[m][k]
  BY <1>1, <1>3 DEF TypeOK
<1>6. ASSUME NEW m \in Nodes PROVE Place(m)'
  <2>1. \A k \in Nodes : conn'[m][k] # None => m # k /\ conn'[m][k] \in {<<m, k>>, <<k, m>>}
    BY <1>3, <1>5 DEF Place
  <2>2. Peers(m) \subseteq Peers(m)'
    BY <1>2, <1>5 DEF Peers
  <2>3. UNCHANGED <<appVars, left, backlog>>
    BY <1>1
  <2>4. /\ busy'[m] = IF m = n THEN None ELSE busy[m]
        /\ net'[m] = IF m = n THEN "serve" ELSE net[m]
    BY <1>1 DEF TypeOK
  <2> QED
    BY <2>1, <2>2, <2>3, <2>4 DEF Place, Finished, Home, Cmd, appVars
<1>7. ASSUME NEW e \in Ends PROVE ServeInv(e)' /\ RequestInv(e)'
  BY <1>1, RequestSame DEF ServeInv, appVars, connVars
<1> QED
  BY <1>4, <1>6, <1>7

LEMMA LeaveLoopStep ==
  ASSUME IInv, NEW n \in Nodes, LeaveLoop(n)
  PROVE  IInv'
<1> USE DEF IInv
<1>0. PICK k : k = [type |-> "kill", key |-> None]
  OBVIOUS
<1>1. /\ wire' = IF n # 0 THEN wire
                 ELSE [e \in Ends |->
                         IF /\ e[2] \in Peers(0) /\ conn[0][e[2]] = e[1]
                            /\ net[e[2]] # "down"
                         THEN Append(wire[e], k) ELSE wire[e]]
      /\ left' = [left EXCEPT ![n] = Peers(n)]
      /\ net' = [net EXCEPT ![n] = "stop"]
      /\ UNCHANGED <<store, appVars, conn, backlog, keepNet, busy, connVars>>
  BY <1>0 DEF LeaveLoop
<1>2. k \in Message /\ k.type \notin Requests /\ k.type \notin Replies
  BY <1>0 DEF Message, Requests, Replies
<1>3. wire \in [Ends -> Seq(Message)]
  BY DEF TypeOK
<1>4. \A e \in Ends : wire'[e] = wire[e] \/ wire'[e] = Append(wire[e], k)
  BY <1>1
<1>5. wire' \in [Ends -> Seq(Message)]
  <2>1. \A e \in Ends : Append(wire[e], k) \in Seq(Message)
    BY <1>2, <1>3
  <2> QED
    BY <1>1, <1>3, <2>1
<1>6. TypeOK'
  <2>1. left' \in [Nodes -> SUBSET Nodes]
    BY <1>1 DEF TypeOK, Peers
  <2>2. net' \in [Nodes -> {"serve", "last", "enlist", "stop", "join", "down"}]
    BY <1>1 DEF TypeOK
  <2> QED
    BY <1>1, <1>5, <2>1, <2>2 DEF TypeOK, appVars, connVars
<1>7. ASSUME NEW m \in Nodes PROVE Place(m)'
  <2>1. /\ left'[m] \in {left[m], Peers(m)}
        /\ net'[m] \in {net[m], "stop"}
    BY <1>1 DEF TypeOK
  <2>2. UNCHANGED <<appVars, conn, backlog, busy>>
    BY <1>1
  <2> QED
    BY <2>1, <2>2 DEF Place, Peers, Finished, Home, Cmd, appVars
<1>8. ASSUME NEW e \in Ends PROVE ServeInv(e)' /\ RequestInv(e)'
  <2>1. Peer(e) \in Ends
    BY PeerFacts
  <2>2. Passing(wire[Peer(e)], asked[Peer(e)], wire[e], replies[e], Awaits(e))
    BY DEF RequestInv
  <2>3. Passing(wire'[Peer(e)], asked[Peer(e)], wire[e], replies[e], Awaits(e))
    <3>1. wire[Peer(e)] \in Seq(Message)
      BY <1>3, <2>1
    <3>2. wire'[Peer(e)] = wire[Peer(e)] \/ wire'[Peer(e)] = Append(wire[Peer(e)], k)
      BY <1>4, <2>1
    <3> QED
      BY <1>2, <2>2, <3>1, <3>2, PassSentTo
  <2>4. Passing(wire'[Peer(e)], asked[Peer(e)], wire'[e], replies[e], Awaits(e))
    <3>1. wire[e] \in Seq(Message)
      BY <1>3
    <3>2. wire'[e] = wire[e] \/ wire'[e] = Append(wire[e], k)
      BY <1>4
    <3> QED
      BY <1>2, <2>3, <3>1, <3>2, PassSentBack
  <2>5. Awaits(e)' = Awaits(e) /\ asked' = asked /\ replies' = replies
    BY <1>1, AwaitsKept DEF appVars, connVars
  <2>6. RequestInv(e)'
    BY <2>4, <2>5, RequestPrimed
  <2> QED
    BY <1>1, <2>6 DEF ServeInv, connVars
<1> QED
  BY <1>6, <1>7, <1>8

LEMMA StopConnectionStep ==
  ASSUME IInv, NEW n \in Nodes, StopConnection(n)
  PROVE  IInv'
<1> USE DEF IInv
<1>0. PICK m, s, e :
        /\ m \in left[n]
        /\ s = conn[n][m] /\ e = <<s, n>>
        /\ keep' = [keep EXCEPT ![e] = FALSE]
        /\ th' = [th EXCEPT ![e] = IF @ = "poll" THEN "last" ELSE @]
        /\ busy' = [busy EXCEPT ![n] = s]
        /\ left' = [left EXCEPT ![n] = @ \ {m}]
        /\ net' = [net EXCEPT ![n] = "join"]
        /\ UNCHANGED <<store, appVars, conn, backlog, keepNet, wire, asked, replies>>
  BY DEF StopConnection
<1>1. m \in Nodes /\ s # None
  BY <1>0 DEF Place, Peers
<1>2. m # n /\ s \in {<<n, m>>, <<m, n>>}
  BY <1>0, <1>1 DEF Place
<1>3. s \in Streams /\ n \in {s[1], s[2]}
  BY <1>1, <1>2 DEF Streams
<1>4. TypeOK'
  <2>1. busy' \in [Nodes -> Streams \cup {None}] /\ left' \in [Nodes -> SUBSET Nodes]
    BY <1>0, <1>3 DEF TypeOK
  <2>2. keep' \in [Ends -> BOOLEAN]
    BY <1>0 DEF TypeOK
  <2>3. th' \in [Ends -> {"none", "poll", "last", "wait", "reply", "gone"}]
    BY <1>0 DEF TypeOK
  <2>4. net' \in [Nodes -> {"serve", "last", "enlist", "stop", "join", "down"}]
    BY <1>0 DEF TypeOK
  <2> QED
    BY <1>0, <2>1, <2>2, <2>3, <2>4 DEF TypeOK, appVars
<1>5. ASSUME NEW k \in Nodes PROVE Place(k)'
  <2>1. CASE k # n
    <3>1. left'[k] = left[k] /\ busy'[k] = busy[k] /\ net'[k] = net[k]
      BY <1>0, <2>1 DEF TypeOK
    <3> QED
      BY <1>0, <3>1, PlaceKept DEF appVars
  <2>2. CASE k = n
    <3>1. left'[n] \subseteq left[n] /\ busy'[n] = s
      BY <1>0 DEF TypeOK
    <3>2. UNCHANGED <<appVars, conn, backlog>>
      BY <1>0
    <3> QED
      BY <1>1, <1>3, <2>2, <3>1, <3>2 DEF Place, Peers, Finished, Home, Cmd, appVars
  <2> QED
    BY <2>1, <2>2
<1>6. ASSUME NEW f \in Ends PROVE ServeInv(f)' /\ RequestInv(f)'
  <2>1. th'[f] \in {th[f], "last"}
    BY <1>0 DEF TypeOK
  <2>2. asked' = asked
    BY <1>0
  <2>3. ServeInv(f)'
    BY <2>1, <2>2 DEF ServeInv
  <2>4. UNCHANGED <<todo, app, cur, wire, asked, replies>>
    BY <1>0 DEF appVars
  <2> QED
    BY <2>3, <2>4, RequestSame
<1> QED
  BY <1>4, <1>5, <1>6

\* Joining a Connection, and ending.
LEMMA EndStep ==
  ASSUME IInv, NEW n \in Nodes, JoinConnection(n) \/ Exit(n)
  PROVE  IInv'
<1> USE DEF IInv
<1>1. /\ busy' = [busy EXCEPT ![n] = None] \/ busy' = busy
      /\ net' = [net EXCEPT ![n] = "stop"] \/ net' = [net EXCEPT ![n] = "down"]
      /\ UNCHANGED <<store, appVars, conn, backlog, keepNet, left, wire, connVars>>
  BY DEF JoinConnection, Exit
<1>2. TypeOK'
  <2>1. busy' \in [Nodes -> Streams \cup {None}]
    BY <1>1 DEF TypeOK
  <2>2. net' \in [Nodes -> {"serve", "last", "enlist", "stop", "join", "down"}]
    BY <1>1 DEF TypeOK
  <2> QED
    BY <1>1, <2>1, <2>2 DEF TypeOK, appVars, connVars
<1>3. ASSUME NEW m \in Nodes PROVE Place(m)'
  <2>1. CASE m # n
    <3>1. busy'[m] = busy[m] /\ net'[m] = net[m]
      BY <1>1, <2>1 DEF TypeOK
    <3> QED
      BY <1>1, <3>1, PlaceKept DEF appVars
  <2>2. CASE m = n
    <3>1. busy'[n] \in {busy[n], None} /\ net'[n] \in {"stop", "down"}
      BY <1>1 DEF TypeOK
    <3>2. UNCHANGED <<appVars, conn, backlog, left>>
      BY <1>1
    <3> QED
      BY <2>2, <3>1, <3>2 DEF Place, Peers, Finished, Home, Cmd, appVars
  <2> QED
    BY <2>1, <2>2
<1>4. ASSUME NEW e \in Ends PROVE ServeInv(e)' /\ RequestInv(e)'
  BY <1>1, RequestSame DEF ServeInv, appVars, connVars
<1> QED
  BY <1>2, <1>3, <1>4

----------------------------------------------------------------------------
(* The Connection threads.                                                 *)

\* They leave the application and the NetworkIfc thread alone.
LEMMA PlaceSame ==
  ASSUME IInv, UNCHANGED <<appVars, conn, netVars>>, NEW n \in Nodes
  PROVE  Place(n)'
BY PlaceKept DEF IInv, appVars, netVars

LEMMA ReceiveFacts ==
  ASSUME TypeOK, NEW e \in Ends, NEW t, Receives(e, t)
  PROVE  /\ wire[e] # <<>> /\ Head(wire[e]).type = t /\ Head(wire[e]) \in Message
         /\ t # "kill" => Head(wire[e]).key \in Keys
         /\ wire' \in [Ends -> Seq(Message)]
         /\ wire'[e] = Tail(wire[e])
         /\ \A f \in Ends : f # e => wire'[f] = wire[f]
<1>1. wire[e] # <<>> /\ Head(wire[e]).type = t /\ wire' = [wire EXCEPT ![e] = Tail(@)]
  BY DEF Receives
<1>2. /\ Head(wire[e]) \in Message /\ Tail(wire[e]) \in Seq(Message)
      /\ t # "kill" => Head(wire[e]).key \in Keys
  BY <1>1, MessageFacts
<1>3. wire \in [Ends -> Seq(Message)]
  BY DEF TypeOK
<1> QED
  BY <1>1, <1>2, <1>3

\* The ends a step of end e touches: its own, and the one of the application that
\* it serves.
LEMMA RequestElsewhere ==
  ASSUME IInv, UNCHANGED <<todo, app, cur>>, NEW e \in Ends, NEW f \in Ends,
         f # e, f # Peer(e),
         wire'[f] = wire[f], wire'[Peer(f)] = wire[Peer(f)],
         asked'[Peer(f)] = asked[Peer(f)], replies'[f] = replies[f]
  PROVE  RequestInv(f)'
BY AwaitsKept, RequestKept DEF IInv

\* A PUT or a KILL is taken.
LEMMA TakeOther ==
  ASSUME IInv, NEW e \in Ends, NEW t, Receives(e, t), t \notin Requests, t \notin Replies,
         UNCHANGED <<todo, app, cur, asked, replies>>, NEW f \in Ends
  PROVE  RequestInv(f)'
<1>1. /\ wire[e] # <<>> /\ Head(wire[e]).type = t
      /\ wire'[e] = Tail(wire[e])
      /\ \A g \in Ends : g # e => wire'[g] = wire[g]
  BY ReceiveFacts DEF IInv
<1>2. Peer(f) \in Ends /\ Peer(Peer(f)) = f /\ Peer(f) # f /\ Peer(e) # e /\ Peer(Peer(e)) = e
  BY PeerFacts
<1>3. wire[f] \in Seq(Message) /\ wire[Peer(f)] \in Seq(Message)
  BY <1>2 DEF IInv, TypeOK
<1>4. Passing(wire[Peer(f)], asked[Peer(f)], wire[f], replies[f], Awaits(f))
  BY DEF IInv, RequestInv
<1>5. Awaits(f)' = Awaits(f)
  BY AwaitsKept
<1>6. CASE f = e
  <2>1. Passing(wire[Peer(f)], asked[Peer(f)], Tail(wire[f]), replies[f], Awaits(f))
    BY <1>1, <1>3, <1>4, <1>6, PassTakenBack
  <2> QED
    BY <1>1, <1>2, <1>5, <1>6, <2>1, RequestPrimed
<1>7. CASE f = Peer(e)
  <2>1. Passing(Tail(wire[Peer(f)]), asked[Peer(f)], wire[f], replies[f], Awaits(f))
    BY <1>1, <1>2, <1>3, <1>4, <1>7, PassTakenTo
  <2> QED
    BY <1>1, <1>2, <1>5, <1>7, <2>1, RequestPrimed
<1>8. CASE f # e /\ f # Peer(e)
  BY <1>1, <1>2, <1>8, RequestElsewhere
<1> QED
  BY <1>6, <1>7, <1>8

\* A GET or a WAITANDGET is taken, to be served.
LEMMA TakeRequest ==
  ASSUME IInv, NEW e \in Ends, NEW t, Receives(e, t), t \in Requests,
         asked' = [asked EXCEPT ![e] = Head(wire[e]).key],
         UNCHANGED <<todo, app, cur, replies>>, NEW f \in Ends
  PROVE  RequestInv(f)'
<1>1. /\ wire[e] # <<>> /\ Head(wire[e]).type = t
      /\ wire'[e] = Tail(wire[e])
      /\ \A g \in Ends : g # e => wire'[g] = wire[g]
  BY ReceiveFacts DEF IInv
<1>2. Peer(f) \in Ends /\ Peer(Peer(f)) = f /\ Peer(f) # f /\ Peer(e) # e /\ Peer(Peer(e)) = e
  BY PeerFacts
<1>3. wire[f] \in Seq(Message) /\ wire[Peer(f)] \in Seq(Message)
  BY <1>2 DEF IInv, TypeOK
<1>4. Passing(wire[Peer(f)], asked[Peer(f)], wire[f], replies[f], Awaits(f))
  BY DEF IInv, RequestInv
<1>5. Awaits(f)' = Awaits(f)
  BY AwaitsKept
<1>6. asked'[e] = Head(wire[e]).key /\ \A g \in Ends : g # e => asked'[g] = asked[g]
  BY DEF IInv, TypeOK
<1>7. CASE f = e
  <2>1. Head(wire[f]).type \notin Replies
    BY <1>1, <1>7 DEF Requests, Replies
  <2>2. Passing(wire[Peer(f)], asked[Peer(f)], Tail(wire[f]), replies[f], Awaits(f))
    BY <1>1, <1>3, <1>4, <1>7, <2>1, PassTakenBack
  <2> QED
    BY <1>1, <1>2, <1>5, <1>6, <1>7, <2>2, RequestPrimed
<1>8. CASE f = Peer(e)
  <2>1. Passing(Tail(wire[Peer(f)]), Head(wire[Peer(f)]).key, wire[f], replies[f], Awaits(f))
    BY <1>1, <1>2, <1>3, <1>4, <1>8, PassServe
  <2> QED
    BY <1>1, <1>2, <1>5, <1>6, <1>8, <2>1, RequestPrimed
<1>9. CASE f # e /\ f # Peer(e)
  BY <1>1, <1>2, <1>6, <1>9, RequestElsewhere
<1> QED
  BY <1>7, <1>8, <1>9

LEMMA HandlePutStep ==
  ASSUME IInv, NEW e \in Ends, HandlePut(e)
  PROVE  IInv'
<1> USE DEF IInv
<1>1. /\ Receives(e, "put")
      /\ store' = [store EXCEPT ![e[2]] = @ \cup {Head(wire[e]).key}]
      /\ th' = [th EXCEPT ![e] = "poll"]
      /\ UNCHANGED <<appVars, conn, netVars, keep, asked, replies>>
  BY DEF HandlePut
<1>2. Head(wire[e]).key \in Keys /\ wire' \in [Ends -> Seq(Message)] /\ e[2] \in Nodes
  BY <1>1, ReceiveFacts, PeerFacts
<1>3. TypeOK'
  <2>1. store' \in [Nodes -> SUBSET Keys]
    BY <1>1, <1>2, StoreFacts
  <2>2. th' \in [Ends -> {"none", "poll", "last", "wait", "reply", "gone"}]
    BY <1>1 DEF TypeOK
  <2> QED
    BY <1>1, <1>2, <2>1, <2>2 DEF TypeOK, appVars, netVars
<1>4. ASSUME NEW n \in Nodes PROVE Place(n)'
  BY <1>1, PlaceSame
<1>5. ASSUME NEW f \in Ends PROVE ServeInv(f)' /\ RequestInv(f)'
  <2>1. th'[f] \in {th[f], "poll"}
    BY <1>1 DEF TypeOK
  <2>2. RequestInv(f)'
    BY <1>1, TakeOther DEF appVars, Requests, Replies
  <2> QED
    BY <1>1, <2>1, <2>2 DEF ServeInv
<1> QED
  BY <1>3, <1>4, <1>5

LEMMA HandleKillStep ==
  ASSUME IInv, NEW e \in Ends, HandleKill(e)
  PROVE  IInv'
<1> USE DEF IInv
<1>1. /\ Receives(e, "kill")
      /\ keep' = [keep EXCEPT ![e] = FALSE]
      /\ th' = [th EXCEPT ![e] = "poll"]
      /\ UNCHANGED <<store, appVars, conn, netVars, asked, replies>>
  BY DEF HandleKill
<1>2. wire' \in [Ends -> Seq(Message)]
  BY <1>1, ReceiveFacts
<1>3. TypeOK'
  <2>1. keep' \in [Ends -> BOOLEAN]
    BY <1>1 DEF TypeOK
  <2>2. th' \in [Ends -> {"none", "poll", "last", "wait", "reply", "gone"}]
    BY <1>1 DEF TypeOK
  <2> QED
    BY <1>1, <1>2, <2>1, <2>2 DEF TypeOK, appVars, netVars
<1>4. ASSUME NEW n \in Nodes PROVE Place(n)'
  BY <1>1, PlaceSame
<1>5. ASSUME NEW f \in Ends PROVE ServeInv(f)' /\ RequestInv(f)'
  <2>1. th'[f] \in {th[f], "poll"}
    BY <1>1 DEF TypeOK
  <2>2. RequestInv(f)'
    BY <1>1, TakeOther DEF appVars, Requests, Replies
  <2> QED
    BY <1>1, <2>1, <2>2 DEF ServeInv
<1> QED
  BY <1>3, <1>4, <1>5

LEMMA HandleRequestStep ==
  ASSUME IInv, NEW e \in Ends, HandleGet(e) \/ HandleWait(e)
  PROVE  IInv'
<1> USE DEF IInv
<1>0. PICK t \in Requests :
        /\ Receives(e, t)
        /\ th' = [th EXCEPT ![e] = "reply"] \/ th' = [th EXCEPT ![e] = "wait"]
        /\ asked' = [asked EXCEPT ![e] = Head(wire[e]).key]
        /\ UNCHANGED <<store, appVars, conn, netVars, keep, replies>>
  BY DEF HandleGet, HandleWait, Requests
<1>1. Head(wire[e]).key \in Keys /\ wire' \in [Ends -> Seq(Message)]
  BY <1>0, ReceiveFacts DEF Requests
<1>2. Head(wire[e]).key # None
  BY <1>1, ClusterAssumption
<1>3. TypeOK'
  <2>1. asked' \in [Ends -> Keys \cup {None}]
    BY <1>0, <1>1 DEF TypeOK
  <2>2. th' \in [Ends -> {"none", "poll", "last", "wait", "reply", "gone"}]
    BY <1>0 DEF TypeOK
  <2> QED
    BY <1>0, <1>1, <2>1, <2>2 DEF TypeOK, appVars, netVars
<1>4. ASSUME NEW n \in Nodes PROVE Place(n)'
  BY <1>0, PlaceSame
<1>5. ASSUME NEW f \in Ends PROVE ServeInv(f)' /\ RequestInv(f)'
  <2>1. RequestInv(f)'
    BY <1>0, TakeRequest DEF appVars
  <2>2. f # e => th'[f] = th[f] /\ asked'[f] = asked[f]
    BY <1>0 DEF TypeOK
  <2>3. f = e => asked'[f] = Head(wire[e]).key
    BY <1>0 DEF TypeOK
  <2> QED
    BY <1>2, <2>1, <2>2, <2>3 DEF ServeInv
<1> QED
  BY <1>3, <1>4, <1>5

\* A waitAndGet returns, or the thread ends.
LEMMA ThreadStep ==
  ASSUME IInv, NEW e \in Ends, WaitOver(e) \/ EndThread(e)
  PROVE  IInv'
<1> USE DEF IInv
<1>1. /\ \/ th[e] = "wait" /\ th' = [th EXCEPT ![e] = "reply"]
         \/ th' = [th EXCEPT ![e] = "gone"]
      /\ UNCHANGED <<store, appVars, conn, netVars, wire, keep, asked, replies>>
  BY DEF WaitOver, EndThread
<1>2. TypeOK'
  <2>1. th' \in [Ends -> {"none", "poll", "last", "wait", "reply", "gone"}]
    <3>1. th \in [Ends -> {"none", "poll", "last", "wait", "reply", "gone"}]
      BY DEF TypeOK
    <3> QED
      BY <1>1, <3>1
  <2> QED
    BY <1>1, <2>1 DEF TypeOK, appVars, netVars
<1>3. ASSUME NEW n \in Nodes PROVE Place(n)'
  BY <1>1, PlaceSame
<1>4. ASSUME NEW f \in Ends PROVE ServeInv(f)' /\ RequestInv(f)'
  <2>1. th'[f] \in {th[f], "gone"} \/ th[f] = "wait"
    BY <1>1 DEF TypeOK
  <2>2. RequestInv(f)'
    BY <1>1, RequestSame DEF appVars
  <2> QED
    BY <1>1, <2>1, <2>2 DEF ServeInv
<1> QED
  BY <1>2, <1>3, <1>4

LEMMA SendReplyStep ==
  ASSUME IInv, NEW e \in Ends, SendReply(e)
  PROVE  IInv'
<1> USE DEF IInv
<1>0. PICK m : m = [type |-> "reply", key |-> asked[e]]
  OBVIOUS
<1>1. /\ th[e] = "reply"
      /\ wire' = Sent(wire, e, m)
      /\ asked' = [asked EXCEPT ![e] = None]
      /\ th' = [th EXCEPT ![e] = "poll"]
      /\ UNCHANGED <<store, appVars, conn, netVars, keep, replies>>
  BY <1>0 DEF SendReply
<1>2. asked[e] \in Keys
  BY <1>1 DEF ServeInv, TypeOK
<1>3. m \in Message /\ m.type \in Replies /\ m.type \notin Requests /\ m.key = asked[e]
  BY <1>0, <1>2 DEF Message, Requests, Replies
<1>4. /\ wire' \in [Ends -> Seq(Message)]
      /\ \/ wire'[Peer(e)] = wire[Peer(e)]
         \/ wire'[Peer(e)] = Append(wire[Peer(e)], m)
      /\ \A f \in Ends : f # Peer(e) => wire'[f] = wire[f]
  BY <1>1, <1>3, SentFacts
<1>5. TypeOK'
  <2>1. asked' \in [Ends -> Keys \cup {None}]
    BY <1>1 DEF TypeOK
  <2>2. th' \in [Ends -> {"none", "poll", "last", "wait", "reply", "gone"}]
    BY <1>1 DEF TypeOK
  <2> QED
    BY <1>1, <1>4, <2>1, <2>2 DEF TypeOK, appVars, netVars
<1>6. ASSUME NEW n \in Nodes PROVE Place(n)'
  BY <1>1, PlaceSame
<1>7. ASSUME NEW f \in Ends PROVE ServeInv(f)'
  <2>1. f # e => th'[f] = th[f] /\ asked'[f] = asked[f]
    BY <1>1 DEF TypeOK
  <2>2. f = e => th'[f] = "poll"
    BY <1>1 DEF TypeOK
  <2> QED
    BY <2>1, <2>2 DEF ServeInv
<1>8. ASSUME NEW f \in Ends PROVE RequestInv(f)'
  <2>1. /\ Peer(f) \in Ends /\ Peer(Peer(f)) = f /\ Peer(f) # f
        /\ Peer(e) \in Ends /\ Peer(Peer(e)) = e /\ Peer(e) # e
    BY PeerFacts
  <2>2. wire[f] \in Seq(Message) /\ wire[Peer(f)] \in Seq(Message)
    BY <2>1 DEF TypeOK
  <2>3. Passing(wire[Peer(f)], asked[Peer(f)], wire[f], replies[f], Awaits(f))
    BY DEF RequestInv
  <2>4. Awaits(f)' = Awaits(f) /\ replies' = replies
    BY <1>1, AwaitsKept DEF appVars
  <2>5. asked'[e] = None /\ \A g \in Ends : g # e => asked'[g] = asked[g]
    BY <1>1 DEF TypeOK
  <2>6. CASE f = e
    <3>1. wire'[Peer(f)] = wire[Peer(f)] \/ wire'[Peer(f)] = Append(wire[Peer(f)], m)
      BY <1>4, <2>6
    <3>2. Passing(wire'[Peer(f)], asked[Peer(f)], wire[f], replies[f], Awaits(f))
      BY <1>3, <2>2, <2>3, <3>1, PassSentTo
    <3>3. wire'[f] = wire[f] /\ asked'[Peer(f)] = asked[Peer(f)]
      BY <1>4, <2>1, <2>5, <2>6
    <3> QED
      BY <2>4, <3>2, <3>3, RequestPrimed
  <2>7. CASE f = Peer(e)
    <3>1. wire'[f] = wire[f] \/ wire'[f] = Append(wire[f], m)
      BY <1>4, <2>7
    <3>2. asked[Peer(f)] \in Keys /\ m.key = asked[Peer(f)]
      BY <1>2, <1>3, <2>1, <2>7
    <3>3. Passing(wire[Peer(f)], None, wire'[f], replies[f], Awaits(f))
      BY <1>3, <2>2, <2>3, <3>1, <3>2, PassReply
    <3>4. wire'[Peer(f)] = wire[Peer(f)] /\ asked'[Peer(f)] = None
      BY <1>4, <2>1, <2>5, <2>7
    <3> QED
      BY <2>4, <3>3, <3>4, RequestPrimed
  <2>8. CASE f # e /\ f # Peer(e)
    <3>1. Peer(f) # e /\ Peer(f) # Peer(e)
      BY <2>1, <2>8
    <3>2. wire'[f] = wire[f] /\ wire'[Peer(f)] = wire[Peer(f)] /\ asked'[Peer(f)] = asked[Peer(f)]
      BY <1>4, <2>1, <2>5, <2>8, <3>1
    <3> QED
      BY <2>4, <3>2, RequestKept
  <2> QED
    BY <2>6, <2>7, <2>8
<1> QED
  BY <1>5, <1>6, <1>7, <1>8

LEMMA HandleReplyStep ==
  ASSUME IInv, NEW e \in Ends, HandleReply(e)
  PROVE  IInv'
<1> USE DEF IInv
<1>1. /\ Receives(e, "reply")
      /\ replies' = [replies EXCEPT ![e] = Append(@, Head(wire[e]).key)]
      /\ th' = [th EXCEPT ![e] = "poll"]
      /\ UNCHANGED <<store, appVars, conn, netVars, keep, asked>>
  BY DEF HandleReply
<1>2. /\ wire[e] # <<>> /\ Head(wire[e]).type = "reply" /\ Head(wire[e]).key \in Keys
      /\ wire' \in [Ends -> Seq(Message)]
      /\ wire'[e] = Tail(wire[e])
      /\ \A f \in Ends : f # e => wire'[f] = wire[f]
  BY <1>1, ReceiveFacts
<1>3. TypeOK'
  <2>1. replies[e] \in Seq(Keys)
    BY DEF TypeOK
  <2>2. Append(replies[e], Head(wire[e]).key) \in Seq(Keys)
    BY <1>2, <2>1
  <2>3. replies' \in [Ends -> Seq(Keys)]
    BY <1>1, <2>2 DEF TypeOK
  <2>4. th' \in [Ends -> {"none", "poll", "last", "wait", "reply", "gone"}]
    BY <1>1 DEF TypeOK
  <2> QED
    BY <1>1, <1>2, <2>3, <2>4 DEF TypeOK, appVars, netVars
<1>4. ASSUME NEW n \in Nodes PROVE Place(n)'
  BY <1>1, PlaceSame
<1>5. ASSUME NEW f \in Ends PROVE ServeInv(f)'
  <2>1. th'[f] \in {th[f], "poll"}
    BY <1>1 DEF TypeOK
  <2> QED
    BY <1>1, <2>1 DEF ServeInv
<1>6. ASSUME NEW f \in Ends PROVE RequestInv(f)'
  <2>1. /\ Peer(f) \in Ends /\ Peer(Peer(f)) = f /\ Peer(f) # f
        /\ Peer(e) \in Ends /\ Peer(Peer(e)) = e /\ Peer(e) # e
    BY PeerFacts
  <2>2. wire[f] \in Seq(Message) /\ wire[Peer(f)] \in Seq(Message)
    BY <2>1 DEF TypeOK
  <2>3. Passing(wire[Peer(f)], asked[Peer(f)], wire[f], replies[f], Awaits(f))
    BY DEF RequestInv
  <2>4. Awaits(f)' = Awaits(f) /\ asked' = asked
    BY <1>1, AwaitsKept DEF appVars
  <2>5. /\ replies'[e] = Append(replies[e], Head(wire[e]).key)
        /\ \A g \in Ends : g # e => replies'[g] = replies[g]
    BY <1>1 DEF TypeOK
  <2>6. CASE f = e
    <3>1. wire[f] # <<>> /\ Head(wire[f]).type \in Replies
      BY <1>2, <2>6 DEF Replies
    <3>2. Passing(wire[Peer(f)], asked[Peer(f)], Tail(wire[f]),
                  Append(replies[f], Head(wire[f]).key), Awaits(f))
      BY <2>2, <2>3, <3>1, PassQueue
    <3> QED
      BY <1>2, <2>1, <2>4, <2>5, <2>6, <3>2, RequestPrimed
  <2>7. CASE f = Peer(e)
    <3>1. wire[Peer(f)] # <<>> /\ Head(wire[Peer(f)]).type \notin Requests
      BY <1>2, <2>1, <2>7 DEF Requests
    <3>2. Passing(Tail(wire[Peer(f)]), asked[Peer(f)], wire[f], replies[f], Awaits(f))
      BY <2>2, <2>3, <3>1, PassTakenTo
    <3> QED
      BY <1>2, <2>1, <2>4, <2>5, <2>7, <3>2, RequestPrimed
  <2>8. CASE f # e /\ f # Peer(e)
    <3>1. Peer(f) # e
      BY <2>1, <2>8
    <3> QED
      BY <1>2, <2>1, <2>4, <2>5, <2>8, <3>1, RequestKept
  <2> QED
    BY <2>6, <2>7, <2>8
<1> QED
  BY <1>3, <1>4, <1>5, <1>6

----------------------------------------------------------------------------
(* The theorems.                                                           *)

LEMMA InitFacts == Init => IInv
<1> SUFFICES ASSUME Init PROVE IInv
  OBVIOUS
<1>1. \A i \in Nodes : /\ <<i, 0>> \in Registered => i # 0 /\ <<i, 0>> \in Streams
                      /\ 0 \in Nodes
  BY ClusterAssumption DEF Registered, Nodes, Streams
<1>2. \A n, m \in Nodes : conn[n][m] # None =>
         n # m /\ conn[n][m] \in {<<n, m>>, <<m, n>>}
  BY <1>1 DEF Init, Registered
<1>3. TypeOK
  <2>1. conn \in [Nodes -> [Nodes -> Streams \cup {None}]]
    <3>1. \A n, m \in Nodes : conn[n][m] \in Streams \cup {None}
      BY <1>2 DEF Streams
    <3> QED
      BY <3>1 DEF Init
  <2>2. todo \in [Nodes -> Seq([type : {"put", "get", "wait"}, key : Keys])]
    BY ClusterAssumption DEF Init
  <2>3. th \in [Ends -> {"none", "poll", "last", "wait", "reply", "gone"}]
    BY DEF Init
  <2>4. /\ store \in [Nodes -> SUBSET Keys]
        /\ app \in [Nodes -> {"ready", "enlist", "await"}]
        /\ cur \in [Nodes -> Ends \cup {None}]
    BY DEF Init
  <2>5. /\ backlog \in [Nodes -> Seq(Streams)]
        /\ net \in [Nodes -> {"serve", "last", "enlist", "stop", "join", "down"}]
        /\ keepNet \in [Nodes -> BOOLEAN]
        /\ busy \in [Nodes -> Streams \cup {None}]
        /\ left \in [Nodes -> SUBSET Nodes]
    BY DEF Init
  <2>6. /\ wire \in [Ends -> Seq(Message)]
        /\ keep \in [Ends -> BOOLEAN]
        /\ asked \in [Ends -> Keys \cup {None}]
        /\ replies \in [Ends -> Seq(Keys)]
    BY DEF Init
  <2> QED
    BY <2>1, <2>2, <2>3, <2>4, <2>5, <2>6 DEF TypeOK
<1>4. ASSUME NEW n \in Nodes PROVE Place(n)
  BY <1>2 DEF Place, Init
<1>5. ASSUME NEW e \in Ends PROVE ServeInv(e) /\ RequestInv(e)
  <2>1. Peer(e) \in Ends
    BY PeerFacts
  <2>2. /\ th[e] \in {"none", "poll"} /\ asked[Peer(e)] = None /\ replies[e] = <<>>
        /\ wire[e] = <<>> /\ wire[Peer(e)] = <<>>
    BY <2>1 DEF Init
  <2> QED
    BY <2>2 DEF ServeInv, RequestInv, Passing, Has, Once, About
<1> QED
  BY <1>3, <1>4, <1>5 DEF IInv

LEMMA NextFacts == IInv /\ [Next]_vars => IInv'
<1> SUFFICES ASSUME IInv, [Next]_vars PROVE IInv'
  OBVIOUS
<1>1. ASSUME NEW n \in Nodes, App(n) PROVE IInv'
  BY <1>1, LocalStep, ConnectStep, EnlistStep, SendStep, TakeReplyStep, StopNetStep DEF App
<1>2. ASSUME NEW n \in Nodes, Net(n) PROVE IInv'
  BY <1>2, AcceptStep, EnlistAcceptedStep, LeaveLoopStep, StopConnectionStep, EndStep DEF Net
<1>3. ASSUME NEW e \in Ends, Conn(e) PROVE IInv'
  BY <1>3, HandlePutStep, HandleRequestStep, ThreadStep, SendReplyStep, HandleReplyStep,
     HandleKillStep DEF Conn
<1>4. ASSUME UNCHANGED vars PROVE IInv'
  <2>1. UNCHANGED <<store, appVars, conn, netVars, wire, connVars>>
    BY <1>4 DEF vars
  <2>2. TypeOK'
    BY <2>1 DEF IInv, TypeOK, appVars, netVars, connVars
  <2>3. \A n \in Nodes : Place(n)'
    BY <2>1, PlaceSame
  <2>4. \A e \in Ends : ServeInv(e)' /\ RequestInv(e)'
    BY <2>1, RequestSame DEF IInv, ServeInv, appVars, connVars
  <2> QED
    BY <2>2, <2>3, <2>4 DEF IInv
<1> QED
  BY <1>1, <1>2, <1>3, <1>4 DEF Next, Stopped

THEOREM Invariance == Spec => []IInv
BY InitFacts, NextFacts, PTL DEF Spec

\* Every variable of the cluster stays in its range: what the threads take as a
\* Connection is one of their own node's, and every message but a KILL has a key.
THEOREM TypeCorrect == Spec => []TypeOK
<1>1. IInv => TypeOK
  BY DEF IInv
<1> QED
  BY <1>1, Invariance, PTL

\* A Reply in the queue of a Connection is the only one, it answers the request
\* the application has made, and the application awaits it there: the assertions
\* of get_from_node and process_reply_ on the size of replies hold.
THEOREM ReplyMatchesCorrect == Spec => []ReplyMatchesRequest
<1>1. IInv => ReplyMatchesRequest
  <2> SUFFICES ASSUME IInv, NEW e \in Ends, replies[e] # <<>>
               PROVE  /\ app[e[2]] = "await" /\ cur[e[2]] = e
                      /\ replies[e] = <<Cmd(e[2]).key>>
    BY DEF ReplyMatchesRequest
  <2>1. PICK k \in Awaits(e) : replies[e] = <<k>>
    BY DEF IInv, RequestInv, Passing
  <2> QED
    BY <2>1 DEF Awaits
<1> QED
  BY <1>1, Invariance, PTL

----------------------------------------------------------------------------
(* Programs whose gets find their keys.                                    *)

\* How many operations node n's application has made; it has put k.
Pos(n) == Len(Script[n]) - Len(todo[n])
DonePut(n, k) == \E q \in 1 .. Pos(n) : Script[n][q] = Put(k)

\* The controller's streams are those that registration left.
StarInv(n) ==
  /\ n # 0 => conn[n][0] = <<n, 0>> /\ conn[0][n] = <<n, 0>>
  /\ app[n] = "enlist" => n # 0 /\ Home(n) # 0
  /\ \A i \in DOMAIN backlog[n] : backlog[n][i][1] # 0 /\ backlog[n][i][2] # 0
  /\ net[n] = "enlist" => busy[n][1] # 0 /\ busy[n][2] # 0

\* Of all a node has put at home or over the controller's streams nothing is lost
\* but what its home was sent after it had exited.
Star(n, m) == IF n = 0 THEN <<m, 0>> ELSE <<n, 0>>
OnWire(e, k) == \E j \in DOMAIN wire[e] : wire[e][j] = Put(k)
Placed(n, k) ==
  \/ k \in store[k.node]
  \/ k.node # n /\ (net[k.node] = "down" \/ OnWire(<<Star(n, k.node), k.node>>, k))

\* The key is at its home; what a node that was told of d finds at its own.
Known(k)   == k \in store[k.node]
Told(n, d) == \A k \in Keys : k.node = n /\ Delivers(k, d) => k \in store[n]

\* What a node's operation on k has brought about.
Made(n, type, k) == IF type = "put" THEN k.node = n \/ 0 \in {n, k.node} => Placed(n, k)
                                    ELSE Known(k) /\ Told(n, k)

NodeInv(n) ==
  /\ Len(todo[n]) <= Len(Script[n])
  /\ \A i \in 1 .. Len(todo[n]) : todo[n][i] = Script[n][Pos(n) + i]
  /\ \A q \in 1 .. Pos(n) : Made(n, Script[n][q].type, Script[n][q].key)

\* A key in a store was put there, at the controller after those put before it.
Settled(n, d) ==
  /\ d.node = n /\ \E w \in Nodes : DonePut(w, d)
  /\ n = 0 => \A k \in Keys : k.node = 0 /\ PutBefore(k, d) => k \in store[0]
StoreInv(n) == \A d \in store[n] : Settled(n, d)

\* A message is at the right end, and what it says is so.
Fine(e, m) ==
  /\ m.type \in {"put", "get", "wait"} => m.key.node = e[2]
  /\ m.type = "put" => DonePut(Peer(e)[2], m.key)
  /\ m.type = "reply" => m.key.node = Peer(e)[2] /\ Known(m.key)

\* The message m is not received before k is in the receiver's store.
Announces(m, k) ==
  \/ m.type = "put" /\ k.node = 0 /\ PutBefore(k, m.key)
  \/ m.type = "reply" /\ Delivers(k, m.key)
  \/ m.type = "get" /\ m.key = k
Ahead(e, i, k) == k \in store[e[2]] \/ \E j \in 1 .. i - 1 : wire[e][j] = Put(k)

WireInv(e) ==
  /\ e[1][1] = 0 => wire[e] = <<>>
  /\ \A i \in DOMAIN wire[e] : Fine(e, wire[e][i])
  /\ \A i \in DOMAIN wire[e] : \A k \in Keys :
       k.node = e[2] /\ Announces(wire[e][i], k) => Ahead(e, i, k)

\* So is what an end's thread and its queue of Replies hold.
HeldInv(e) ==
  /\ asked[e] # None => e[1][1] # 0 /\ asked[e].node = e[2]
  /\ th[e] = "reply" => Known(asked[e])
  /\ \A i \in DOMAIN replies[e] : Known(replies[e][i]) /\ Told(e[2], replies[e][i])

CInv == /\ \A n \in Nodes : StarInv(n) /\ NodeInv(n) /\ StoreInv(n)
        /\ \A e \in Ends : WireInv(e) /\ HeldInv(e)

\* What no step undoes: a key stays in its store, an operation stays done, a node
\* stays down, and a put stays on its wire until its key is in the store.
Grows ==
  /\ \A n \in Nodes : store[n] \subseteq store'[n]
  /\ \A n \in Nodes : Pos(n) \in Int /\ Pos(n)' \in Int /\ Pos(n) <= Pos(n)'
  /\ \A n \in Nodes : net[n] = "down" => net'[n] = "down"
  /\ \A e \in Ends : \A k \in Keys : OnWire(e, k) => k \in store'[e[2]] \/ OnWire(e, k)'

LEMMA KeyFacts == \A k \in Keys : k.node \in Nodes
BY ClusterAssumption

\* An operation of a script.
LEMMA ScriptFacts ==
  ASSUME NEW n \in Nodes, NEW q \in DOMAIN Script[n]
  PROVE  /\ Script[n][q].type \in {"put", "get", "wait"} /\ Script[n][q].key \in Keys
         /\ Script[n][q].type = "put" <=> Script[n][q] = Put(Script[n][q].key)
<1> DEFINE C == [type : {"put", "get", "wait"}, key : Keys]
<1>1. Script[n] \in Seq(C)
  BY ClusterAssumption
<1> HIDE DEF C
<1>2. Script[n][q] \in C
  BY <1>1
<1> QED
  BY <1>2 DEF Put, C

\* What is known stays known,
LEMMA KnownKept ==
  ASSUME Grows
  PROVE  /\ \A k \in Keys : Known(k) => Known(k)'
         /\ \A n \in Nodes : \A d : Told(n, d) => Told(n, d)'
         /\ \A n \in Nodes : \A k : DonePut(n, k) => DonePut(n, k)'
<1>1. ASSUME NEW k \in Keys, Known(k) PROVE Known(k)'
  BY <1>1, KeyFacts DEF Known, Grows
<1>2. ASSUME NEW n \in Nodes, NEW d, Told(n, d) PROVE Told(n, d)'
  BY <1>2 DEF Told, Grows
<1>3. ASSUME NEW n \in Nodes, NEW k, DonePut(n, k) PROVE DonePut(n, k)'
  <2>1. PICK q \in 1 .. Pos(n) : Script[n][q] = Put(k)
    BY <1>3 DEF DonePut
  <2>2. Pos(n) \in Int /\ Pos(n)' \in Int /\ Pos(n) <= Pos(n)'
    BY DEF Grows
  <2>3. q \in 1 .. Pos(n)'
    BY <2>1, <2>2
  <2> QED
    BY <2>1, <2>3 DEF DonePut
<1> QED
  BY <1>1, <1>2, <1>3

\* and what is said stays so.
LEMMA FineKept ==
  ASSUME Grows, NEW e \in Ends, NEW m \in Message, Fine(e, m)
  PROVE  Fine(e, m)'
<1>1. PICK p \in Nodes : p = Peer(e)[2]
  BY PeerFacts
<1>2. /\ m.type \in {"put", "get", "wait"} => m.key.node = e[2]
      /\ m.type = "put" => DonePut(p, m.key)
      /\ m.type = "reply" => m.key.node = p /\ Known(m.key)
  BY <1>1 DEF Fine
<1>3. m.type = "reply" => m.key \in Keys
  BY DEF Message
<1>4. /\ m.type = "put" => DonePut(p, m.key)'
      /\ m.type = "reply" => m.key.node = p /\ Known(m.key)'
  BY <1>2, <1>3, KnownKept
<1> QED
  BY <1>1, <1>2, <1>4 DEF Fine, Peer, Other

\* The stream of the controller between a node and a key's home.
LEMMA StarFacts ==
  ASSUME NEW n \in Nodes, NEW m \in Nodes, n # m, 0 \in {n, m}
  PROVE  /\ Star(n, m) = Star(m, n) /\ Star(n, m) \in Streams /\ Star(n, m)[1] # 0
         /\ Star(n, m) \in {<<n, m>>, <<m, n>>}
         /\ <<Star(n, m), m>> \in Ends /\ <<Star(n, m), n>> \in Ends
         /\ Peer(<<Star(n, m), n>>) = <<Star(n, m), m>>
BY DEF Star, Streams, Ends, Peer, Other

LEMMA PlacedKept ==
  ASSUME Grows, NEW n \in Nodes, NEW k \in Keys, k.node = n \/ 0 \in {n, k.node}, Placed(n, k)
  PROVE  Placed(n, k)'
<1>1. k.node \in Nodes
  BY KeyFacts
<1>2. CASE k \in store[k.node]
  BY <1>1, <1>2 DEF Placed, Grows
<1>3. CASE k.node # n /\ net[k.node] = "down"
  BY <1>1, <1>3 DEF Placed, Grows
<1>4. CASE k.node # n /\ OnWire(<<Star(n, k.node), k.node>>, k)
  <2>1. PICK e \in Ends : e = <<Star(n, k.node), k.node>> /\ e[2] = k.node
    BY <1>1, <1>4, StarFacts
  <2>2. k \in store'[k.node] \/ OnWire(e, k)'
    BY <1>4, <2>1 DEF Grows
  <2> QED
    BY <1>4, <2>1, <2>2 DEF Placed, OnWire, Star
<1> QED
  BY <1>2, <1>3, <1>4 DEF Placed

LEMMA MadeKept ==
  ASSUME Grows, NEW n \in Nodes, NEW type, NEW k \in Keys, Made(n, type, k)
  PROVE  Made(n, type, k)'
BY PlacedKept, KnownKept DEF Made

\* How many operations are done.
LEMMA PosFacts ==
  ASSUME TypeOK, NEW n \in Nodes
  PROVE  /\ Pos(n) \in Int /\ Len(Script[n]) \in Nat /\ Len(todo[n]) \in Nat
         /\ Len(todo[n]) = Len(Script[n]) - Pos(n)
         /\ DOMAIN Script[n] = 1 .. Len(Script[n])
<1> DEFINE C == [type : {"put", "get", "wait"}, key : Keys]
<1>1. Script[n] \in Seq(C) /\ todo[n] \in Seq(C)
  BY ClusterAssumption DEF TypeOK
<1> HIDE DEF C
<1> QED
  BY <1>1 DEF Pos

\* A node that makes no operation.
LEMMA NodeKept ==
  ASSUME TypeOK, Grows, NEW n \in Nodes, NodeInv(n), todo'[n] = todo[n]
  PROVE  NodeInv(n)'
<1>1. Pos(n)' = Pos(n)
  BY DEF Pos
<1>2. /\ Pos(n) \in Int /\ Len(Script[n]) \in Nat /\ Len(todo[n]) \in Nat
      /\ Len(todo[n]) <= Len(Script[n]) /\ Len(todo[n]) = Len(Script[n]) - Pos(n)
      /\ DOMAIN Script[n] = 1 .. Len(Script[n])
  BY PosFacts DEF NodeInv
<1>3. ASSUME NEW q \in 1 .. Pos(n) PROVE Made(n, Script[n][q].type, Script[n][q].key)'
  <2>1. Script[n][q].key \in Keys
    BY <1>2, ScriptFacts
  <2>2. Made(n, Script[n][q].type, Script[n][q].key)
    BY DEF NodeInv
  <2> QED
    BY <2>1, <2>2, MadeKept
<1> QED
  BY <1>1, <1>3 DEF NodeInv

\* A node makes the next operation of its script.
LEMMA NextOperation ==
  ASSUME TypeOK, NEW n \in Nodes, NodeInv(n), ~Finished(n)
  PROVE  /\ Pos(n) \in Nat /\ Pos(n) + 1 \in DOMAIN Script[n]
         /\ Script[n][Pos(n) + 1] = Cmd(n)
<1> DEFINE C == [type : {"put", "get", "wait"}, key : Keys]
<1>1. /\ Pos(n) \in Int /\ Len(Script[n]) \in Nat /\ Len(todo[n]) \in Nat
      /\ Len(todo[n]) <= Len(Script[n]) /\ Len(todo[n]) = Len(Script[n]) - Pos(n)
      /\ DOMAIN Script[n] = 1 .. Len(Script[n])
  BY PosFacts DEF NodeInv
<1>2. todo[n] \in Seq(C) /\ todo[n] # <<>>
  BY DEF TypeOK, Finished
<1> HIDE DEF C
<1>3. Len(todo[n]) # 0 /\ Head(todo[n]) = todo[n][1]
  BY <1>2
<1>4. 1 \in 1 .. Len(todo[n])
  BY <1>1, <1>3
<1>5. todo[n][1] = Script[n][Pos(n) + 1]
  BY <1>4 DEF NodeInv
<1> QED
  BY <1>1, <1>3, <1>5 DEF Cmd

LEMMA NodeMoves ==
  ASSUME TypeOK, NEW n \in Nodes, NodeInv(n), ~Finished(n), todo'[n] = Tail(todo[n])
  PROVE  Pos(n)' = Pos(n) + 1
<1> DEFINE C == [type : {"put", "get", "wait"}, key : Keys]
<1>1. todo[n] \in Seq(C) /\ todo[n] # <<>> /\ Len(Script[n]) \in Nat
  BY PosFacts DEF TypeOK, Finished
<1> HIDE DEF C
<1>2. Len(Tail(todo[n])) = Len(todo[n]) - 1 /\ Len(todo[n]) \in Nat
  BY <1>1
<1>3. Len(todo'[n]) = Len(todo[n]) - 1
  BY <1>2
<1>4. Pos(n)' = Len(Script[n]) - Len(todo'[n])
  BY DEF Pos
<1>5. Pos(n) = Len(Script[n]) - Len(todo[n])
  BY DEF Pos
<1> QED
  BY <1>1, <1>2, <1>3, <1>4, <1>5

LEMMA NodeDone ==
  ASSUME TypeOK, Grows, NEW n \in Nodes, NodeInv(n), ~Finished(n), todo'[n] = Tail(todo[n]),
         NEW c, c = Cmd(n), Made(n, c.type, c.key)'
  PROVE  NodeInv(n)'
<1> DEFINE C == [type : {"put", "get", "wait"}, key : Keys]
<1>1. /\ Pos(n) \in Nat /\ Pos(n) + 1 \in DOMAIN Script[n]
      /\ Script[n][Pos(n) + 1] = Cmd(n)
      /\ Pos(n)' = Pos(n) + 1
  BY NextOperation, NodeMoves
<1>2. /\ Len(Script[n]) \in Nat /\ Len(todo[n]) \in Nat
      /\ Len(todo[n]) <= Len(Script[n]) /\ Len(todo[n]) = Len(Script[n]) - Pos(n)
      /\ DOMAIN Script[n] = 1 .. Len(Script[n])
  BY PosFacts DEF NodeInv
<1>3. todo[n] \in Seq(C) /\ todo[n] # <<>>
  BY DEF TypeOK, Finished
<1> HIDE DEF C
<1>4. /\ Len(todo'[n]) = Len(todo[n]) - 1
      /\ \A i \in 1 .. Len(todo[n]) - 1 : todo'[n][i] = todo[n][i + 1]
  BY <1>3
<1>5. ASSUME NEW i \in 1 .. Len(todo'[n]) PROVE todo'[n][i] = Script[n][Pos(n)' + i]
  <2>1. i \in 1 .. Len(todo[n]) - 1 /\ i + 1 \in 1 .. Len(todo[n])
    BY <1>2, <1>4
  <2>3. Pos(n)' + i = Pos(n) + (i + 1)
    BY <1>1, <2>1
  <2>2. todo[n][i + 1] = Script[n][Pos(n) + (i + 1)]
    BY <2>1 DEF NodeInv
  <2> QED
    BY <1>4, <2>1, <2>2, <2>3
<1>6. ASSUME NEW q \in 1 .. Pos(n)' PROVE Made(n, Script[n][q].type, Script[n][q].key)'
  <2>1. CASE q = Pos(n) + 1
    <3>1. Script[n][q] = c
      BY <1>1, <2>1
    <3> QED
      BY <3>1
  <2>2. CASE q # Pos(n) + 1
    <3>1. q \in 1 .. Pos(n) /\ q \in DOMAIN Script[n]
      BY <1>1, <1>2, <2>2
    <3>2. Script[n][q].key \in Keys
      BY <3>1, ScriptFacts
    <3>3. Made(n, Script[n][q].type, Script[n][q].key)
      BY <3>1 DEF NodeInv
    <3> QED
      BY <3>2, <3>3, MadeKept
  <2> QED
    BY <2>1, <2>2
<1> QED
  BY <1>2, <1>4, <1>5, <1>6 DEF NodeInv

\* A store that is left alone, and one that a key is added to.
LEMMA SettledKept ==
  ASSUME Grows, NEW n \in Nodes, NEW d, Settled(n, d)
  PROVE  Settled(n, d)'
<1>1. PICK w \in Nodes : DonePut(w, d)
  BY DEF Settled
<1>2. DonePut(w, d)'
  BY <1>1, KnownKept
<1>3. n = 0 => store[0] \subseteq store'[0]
  BY DEF Grows
<1> QED
  BY <1>2, <1>3 DEF Settled

LEMMA StoreKept ==
  ASSUME Grows, NEW n \in Nodes, StoreInv(n), store'[n] = store[n]
  PROVE  StoreInv(n)'
BY SettledKept DEF StoreInv

LEMMA StoreAdded ==
  ASSUME Grows, NEW n \in Nodes, StoreInv(n), NEW d, store'[n] = store[n] \cup {d}, Settled(n, d)'
  PROVE  StoreInv(n)'
BY SettledKept DEF StoreInv

----------------------------------------------------------------------------
(* What is on a wire and what an end holds.                                *)

LEMMA AppendFacts ==
  ASSUME NEW S, NEW r \in Seq(S), NEW x \in S, NEW i \in DOMAIN Append(r, x)
  PROVE  Append(r, x)[i] = x \/ (i \in DOMAIN r /\ Append(r, x)[i] = r[i])
<1>1. /\ DOMAIN r = 1 .. Len(r) /\ DOMAIN Append(r, x) = 1 .. Len(r) + 1 /\ Len(r) \in Nat
      /\ Append(r, x)[Len(r) + 1] = x /\ \A j \in 1 .. Len(r) : Append(r, x)[j] = r[j]
  OBVIOUS
<1> QED
  BY <1>1

LEMMA WireFacts ==
  ASSUME TypeOK, NEW e \in Ends
  PROVE  /\ wire[e] \in Seq(Message) /\ Len(wire[e]) \in Nat /\ DOMAIN wire[e] = 1 .. Len(wire[e])
         /\ \A i \in DOMAIN wire[e] : wire[e][i] \in Message
         /\ e[2] \in Nodes
<1>1. wire[e] \in Seq(Message)
  BY DEF TypeOK
<1> QED
  BY <1>1, PeerFacts

LEMMA WireSame ==
  ASSUME TypeOK, Grows, NEW e \in Ends, WireInv(e), wire'[e] = wire[e]
  PROVE  WireInv(e)'
<1>1. ASSUME NEW i \in DOMAIN wire[e] PROVE Fine(e, wire[e][i])'
  <2>1. PICK m \in Message : m = wire[e][i]
    BY WireFacts
  <2>2. Fine(e, m)'
    BY <2>1, FineKept DEF WireInv
  <2>3. wire'[e][i] = m
    BY <2>1
  <2> QED
    BY <2>2, <2>3 DEF Fine
<1>2. e[2] \in Nodes
  BY PeerFacts
<1>3. \A k : k \in store[e[2]] => k \in store'[e[2]]
  BY <1>2 DEF Grows
<1>4. \A i, k : Ahead(e, i, k) => Ahead(e, i, k)'
  BY <1>3 DEF Ahead
<1>5. \A i \in DOMAIN wire'[e] : wire'[e][i] = wire[e][i]
  OBVIOUS
<1>6. ASSUME NEW i \in DOMAIN wire'[e], NEW k \in Keys, k.node = e[2], Announces(wire'[e][i], k)
      PROVE  Ahead(e, i, k)'
  BY <1>4, <1>6 DEF WireInv
<1> QED
  BY <1>1, <1>6 DEF WireInv

\* A message is sent: what it announces is in the store, or on the wire before it.
LEMMA WireAppended ==
  ASSUME TypeOK, Grows, NEW e \in Ends, WireInv(e), e[1][1] # 0,
         NEW m \in Message, wire'[e] = Append(wire[e], m), Fine(e, m)',
         \A k \in Keys : k.node = e[2] /\ Announces(m, k) => k \in store[e[2]] \/ OnWire(e, k)
  PROVE  WireInv(e)'
<1> DEFINE n == Len(wire[e])
<1>1. /\ n \in Nat /\ DOMAIN wire[e] = 1 .. n /\ DOMAIN wire'[e] = 1 .. n + 1
      /\ wire'[e][n + 1] = m /\ \A i \in 1 .. n : wire'[e][i] = wire[e][i]
  <2>1. PICK w \in Seq(Message) : w = wire[e]
    BY WireFacts
  <2>2. /\ Len(w) \in Nat /\ DOMAIN w = 1 .. Len(w) /\ DOMAIN Append(w, m) = 1 .. Len(w) + 1
        /\ Append(w, m)[Len(w) + 1] = m /\ \A i \in 1 .. Len(w) : Append(w, m)[i] = w[i]
    OBVIOUS
  <2> QED
    BY <2>1, <2>2
<1>2. e[2] \in Nodes
  BY PeerFacts
<1>3. \A k : k \in store[e[2]] => k \in store'[e[2]]
  BY <1>2 DEF Grows
<1> HIDE DEF n
<1>4. ASSUME NEW i \in 1 .. n + 1 PROVE Fine(e, wire[e][i])'
  <2>1. PICK x : x = wire'[e][i]
    OBVIOUS
  <2>2. CASE i = n + 1
    <3>1. x = m
      BY <1>1, <2>1, <2>2
    <3> QED
      BY <2>1, <3>1 DEF Fine
  <2>3. CASE i # n + 1
    <3>1. i \in 1 .. n
      BY <1>1, <2>3
    <3>2. x = wire[e][i] /\ x \in Message /\ Fine(e, x)
      BY <1>1, <2>1, <3>1, WireFacts DEF WireInv
    <3>3. Fine(e, x)'
      BY <3>2, FineKept
    <3> QED
      BY <2>1, <3>3 DEF Fine
  <2> QED
    BY <2>2, <2>3
<1>5. ASSUME NEW i \in 1 .. n + 1, NEW k \in Keys, k.node = e[2], Announces(wire'[e][i], k)
      PROVE  Ahead(e, i, k)'
  <2>1. CASE i = n + 1
    <3>1. k \in store[e[2]] \/ OnWire(e, k)
      BY <1>1, <1>5, <2>1
    <3>2. ASSUME OnWire(e, k) PROVE Ahead(e, i, k)'
      <4>1. PICK j \in 1 .. n : wire[e][j] = Put(k)
        BY <1>1, <3>2 DEF OnWire
      <4>2. j \in 1 .. i - 1 /\ wire'[e][j] = Put(k)
        BY <1>1, <2>1, <4>1
      <4> QED
        BY <4>2 DEF Ahead
    <3> QED
      BY <1>3, <3>1, <3>2 DEF Ahead
  <2>2. CASE i # n + 1
    <3>1. i \in 1 .. n /\ wire'[e][i] = wire[e][i]
      BY <1>1, <2>2
    <3>2. Ahead(e, i, k)
      BY <1>1, <1>5, <3>1 DEF WireInv
    <3>3. \A j \in 1 .. i - 1 : wire'[e][j] = wire[e][j]
      <4>1. \A j \in 1 .. i - 1 : j \in 1 .. n
        BY <1>1, <3>1
      <4> QED
        BY <1>1, <4>1
    <3> QED
      BY <1>3, <3>2, <3>3 DEF Ahead
  <2> QED
    BY <2>1, <2>2
<1> QED
  BY <1>1, <1>4, <1>5 DEF WireInv

\* The message at the head is taken, and when it is a put its key is stored.
LEMMA WireTaken ==
  ASSUME TypeOK, Grows, NEW e \in Ends, WireInv(e), wire[e] # <<>>, wire'[e] = Tail(wire[e]),
         Head(wire[e]).type = "put" => Head(wire[e]).key \in store'[e[2]]
  PROVE  WireInv(e)'
<1> DEFINE n == Len(wire[e])
<1>1. /\ n \in Nat \ {0} /\ DOMAIN wire[e] = 1 .. n /\ DOMAIN wire'[e] = 1 .. n - 1
      /\ \A i \in 1 .. n - 1 : wire'[e][i] = wire[e][i + 1]
      /\ Head(wire[e]) = wire[e][1]
  <2>1. PICK w \in Seq(Message) : w = wire[e]
    BY WireFacts
  <2>2. w # <<>> => /\ Len(w) \in Nat \ {0} /\ DOMAIN w = 1 .. Len(w)
                    /\ DOMAIN Tail(w) = 1 .. Len(w) - 1 /\ Head(w) = w[1]
                    /\ \A i \in 1 .. Len(w) - 1 : Tail(w)[i] = w[i + 1]
    OBVIOUS
  <2> QED
    BY <2>1, <2>2
<1>2. e[2] \in Nodes
  BY PeerFacts
<1>3. \A k : k \in store[e[2]] => k \in store'[e[2]]
  BY <1>2 DEF Grows
<1> HIDE DEF n
<1>4. ASSUME NEW i \in 1 .. n - 1
      PROVE  /\ i + 1 \in DOMAIN wire[e] /\ wire'[e][i] = wire[e][i + 1] /\ wire[e][i + 1] \in Message
  <2>1. i + 1 \in DOMAIN wire[e]
    BY <1>1
  <2> QED
    BY <1>1, <2>1, WireFacts
<1>5. ASSUME NEW i \in 1 .. n - 1 PROVE Fine(e, wire[e][i])'
  <2>1. PICK x \in Message : x = wire'[e][i] /\ x = wire[e][i + 1]
    BY <1>4
  <2>2. Fine(e, x)
    BY <1>4, <2>1 DEF WireInv
  <2>3. Fine(e, x)'
    BY <2>2, FineKept
  <2> QED
    BY <2>1, <2>3 DEF Fine
<1>6. ASSUME NEW i \in 1 .. n - 1, NEW k \in Keys, k.node = e[2], Announces(wire'[e][i], k)
      PROVE  Ahead(e, i, k)'
  <2>1. Ahead(e, i + 1, k)
    BY <1>4, <1>6 DEF WireInv
  <2>2. CASE k \in store[e[2]]
    BY <1>3, <2>2 DEF Ahead
  <2>3. CASE \E j \in 1 .. (i + 1) - 1 : wire[e][j] = Put(k)
    <3>1. PICK j \in 1 .. i : wire[e][j] = Put(k)
      BY <2>3
    <3>2. CASE j = 1
      <4>1. Head(wire[e]) = Put(k)
        BY <1>1, <3>1, <3>2
      <4>2. k \in store'[e[2]]
        BY <4>1 DEF Put
      <4> QED
        BY <4>2 DEF Ahead
    <3>3. CASE j # 1
      <4>1. j - 1 \in 1 .. i - 1 /\ j - 1 \in 1 .. n - 1 /\ (j - 1) + 1 = j
        BY <1>1, <3>3
      <4>2. wire'[e][j - 1] = Put(k)
        BY <1>1, <3>1, <4>1
      <4> QED
        BY <4>1, <4>2 DEF Ahead
    <3> QED
      BY <3>2, <3>3
  <2> QED
    BY <2>1, <2>2, <2>3 DEF Ahead
<1>7. e[1][1] = 0 => wire'[e] = <<>>
  BY DEF WireInv
<1> QED
  BY <1>1, <1>5, <1>6, <1>7 DEF WireInv

\* What a wire keeps.
LEMMA OnWireKept ==
  ASSUME TypeOK, NEW e \in Ends, NEW k,
         \/ wire'[e] = wire[e]
         \/ \E m \in Message : wire'[e] = Append(wire[e], m)
         \/ /\ wire[e] # <<>> /\ wire'[e] = Tail(wire[e])
            /\ Head(wire[e]).type = "put" => Head(wire[e]).key \in store'[e[2]],
         OnWire(e, k)
  PROVE  k \in store'[e[2]] \/ OnWire(e, k)'
<1>1. PICK w \in Seq(Message) : w = wire[e]
  BY WireFacts
<1>2. PICK j \in DOMAIN w : w[j] = Put(k)
  BY <1>1 DEF OnWire
<1>3. j \in 1 .. Len(w) /\ Len(w) \in Nat
  BY <1>2
<1>4. CASE wire'[e] = wire[e]
  BY <1>1, <1>2, <1>4 DEF OnWire
<1>5. CASE \E m \in Message : wire'[e] = Append(wire[e], m)
  <2>1. PICK m \in Message : wire'[e] = Append(w, m)
    BY <1>1, <1>5
  <2>2. j \in DOMAIN Append(w, m) /\ Append(w, m)[j] = w[j]
    BY <1>3
  <2> QED
    BY <1>2, <2>1, <2>2 DEF OnWire
<1>6. CASE /\ wire[e] # <<>> /\ wire'[e] = Tail(wire[e])
           /\ Head(wire[e]).type = "put" => Head(wire[e]).key \in store'[e[2]]
  <2>1. CASE j = 1
    <3>1. Head(wire[e]) = Put(k)
      BY <1>1, <1>2, <1>3, <2>1
    <3> QED
      BY <1>6, <3>1 DEF Put
  <2>2. CASE j # 1
    <3>1. j - 1 \in DOMAIN Tail(w) /\ Tail(w)[j - 1] = w[j]
      BY <1>1, <1>3, <1>6, <2>2
    <3> QED
      BY <1>1, <1>2, <1>6, <3>1 DEF OnWire
  <2> QED
    BY <2>1, <2>2
<1> QED
  BY <1>4, <1>5, <1>6

\* An end that queues no Reply, and one that asks for nothing new.
LEMMA HeldChanged ==
  ASSUME TypeOK, Grows, NEW e \in Ends, HeldInv(e),
         replies'[e] = replies[e] \/ replies'[e] = <<>>,
         asked'[e] # None => e[1][1] # 0 /\ asked'[e].node = e[2],
         NEW a, a = asked'[e], th'[e] = "reply" => Known(a)'
  PROVE  HeldInv(e)'
<1>1. e[2] \in Nodes /\ replies[e] \in Seq(Keys)
  BY PeerFacts DEF TypeOK
<1>2. ASSUME NEW i \in DOMAIN replies'[e] PROVE Known(replies[e][i])' /\ Told(e[2], replies[e][i])'
  <2>1. CASE replies'[e] = replies[e]
    <3>1. PICK k \in Keys : k = replies[e][i] /\ k = replies'[e][i]
      BY <1>1, <2>1
    <3>2. Known(k)' /\ Told(e[2], k)'
      BY <1>1, <2>1, <3>1, KnownKept DEF HeldInv
    <3> QED
      BY <3>1, <3>2 DEF Known, Told
  <2>2. CASE replies'[e] = <<>>
    BY <2>2
  <2> QED
    BY <2>1, <2>2
<1> QED
  BY <1>2 DEF HeldInv, Known

LEMMA HeldKept ==
  ASSUME TypeOK, IInv, Grows, NEW e \in Ends, HeldInv(e), asked'[e] = asked[e],
         replies'[e] = replies[e] \/ replies'[e] = <<>>,
         th'[e] = "reply" => th[e] = "reply"
  PROVE  HeldInv(e)'
<1>1. asked[e] \in Keys \cup {None}
  BY DEF TypeOK
<1>2. ASSUME th'[e] = "reply" PROVE asked[e] \in Keys /\ Known(asked[e])
  BY <1>1, <1>2 DEF HeldInv, IInv, ServeInv
<1>3. PICK a : a = asked[e]
  OBVIOUS
<1>4. th'[e] = "reply" => Known(a)'
  BY <1>2, <1>3, KnownKept
<1> QED
  BY <1>3, <1>4, HeldChanged DEF HeldInv

----------------------------------------------------------------------------
(* The controller's streams.                                               *)

\* Threads that open no stream and enter none in connections_.
LEMMA StarQuiet ==
  ASSUME TypeOK, \A n \in Nodes : StarInv(n), conn' = conn, backlog' = backlog,
         \A n \in Nodes : app'[n] = "enlist" => app[n] = "enlist" /\ todo'[n] = todo[n],
         \A n \in Nodes : net'[n] = "enlist" => net[n] = "enlist" /\ busy'[n] = busy[n]
  PROVE  \A n \in Nodes : StarInv(n)'
<1> SUFFICES ASSUME NEW n \in Nodes PROVE StarInv(n)'
  OBVIOUS
<1>1. app'[n] = "enlist" => n # 0 /\ Home(n)' # 0
  BY DEF StarInv, Home, Cmd
<1>2. net'[n] = "enlist" => busy'[n][1] # 0 /\ busy'[n][2] # 0
  BY DEF StarInv
<1> QED
  BY <1>1, <1>2 DEF StarInv

LEMMA StarConnect ==
  ASSUME IInv, \A n \in Nodes : StarInv(n), NEW n \in Nodes, Connect(n)
  PROVE  \A m \in Nodes : StarInv(m)'
<1>1. PICK h, s : h = Home(n) /\ s = <<n, h>>
  OBVIOUS
<1>2. /\ ~Finished(n) /\ h # n /\ conn[n][h] = None
      /\ backlog' = [backlog EXCEPT ![h] = Append(@, s)]
      /\ app' = [app EXCEPT ![n] = "enlist"]
      /\ UNCHANGED <<todo, conn, net, busy>>
  BY <1>1 DEF Connect
<1>3. TypeOK /\ h \in Nodes /\ s \in Streams /\ s[1] = n /\ s[2] = h
  BY <1>1, <1>2, CmdFacts, StreamFacts DEF IInv
<1>4. n # 0 /\ h # 0
  <2>1. <<n, h>> # None /\ <<h, n>> # None
    <3>1. <<n, h>> \in Streams /\ <<h, n>> \in Streams
      BY <1>2, <1>3 DEF Streams
    <3> QED
      BY <3>1, ClusterAssumption
  <2> QED
    BY <1>2, <1>3, <2>1 DEF StarInv
<1>5. ASSUME NEW m \in Nodes PROVE StarInv(m)'
  <2>1. app'[m] = "enlist" => m # 0 /\ Home(m)' # 0
    <3>1. Home(m)' = Home(m)
      BY <1>2 DEF Home, Cmd
    <3>2. m # n => app'[m] = app[m]
      BY <1>2, <1>3 DEF TypeOK
    <3> QED
      BY <1>1, <1>4, <3>1, <3>2 DEF StarInv
  <2>2. \A i \in DOMAIN backlog'[m] : backlog'[m][i][1] # 0 /\ backlog'[m][i][2] # 0
    <3>1. \A i \in DOMAIN backlog[m] : backlog[m][i][1] # 0 /\ backlog[m][i][2] # 0
      BY DEF StarInv
    <3>2. CASE m = h
      <4>1. PICK b, a : b \in Seq(Streams) /\ b = backlog[m] /\ a = Append(b, s) /\ backlog'[m] = a
        BY <1>2, <1>3, <3>2 DEF TypeOK
      <4>2. \A i \in DOMAIN a : a[i] = s \/ (i \in DOMAIN b /\ a[i] = b[i])
        BY <1>3, <4>1, AppendFacts
      <4>3. ASSUME NEW i \in DOMAIN a PROVE a[i][1] # 0 /\ a[i][2] # 0
        BY <1>3, <1>4, <3>1, <4>1, <4>2
      <4> QED
        BY <4>1, <4>3
    <3>3. CASE m # h
      BY <1>2, <1>3, <3>1, <3>3 DEF TypeOK
    <3> QED
      BY <3>2, <3>3
  <2> QED
    BY <1>2, <2>1, <2>2 DEF StarInv
<1> QED
  BY <1>5

LEMMA StarEnlist ==
  ASSUME IInv, \A n \in Nodes : StarInv(n), NEW n \in Nodes, Enlist(n)
  PROVE  \A m \in Nodes : StarInv(m)'
<1>1. PICK h : h = Home(n)
  OBVIOUS
<1>2. /\ app[n] = "enlist"
      /\ conn' = [conn EXCEPT ![n][h] = <<n, h>>]
      /\ app' = [app EXCEPT ![n] = "ready"]
      /\ UNCHANGED <<todo, backlog, net, busy>>
  BY <1>1 DEF Enlist, netVars
<1>3. TypeOK /\ ~Finished(n) /\ n # 0 /\ h # 0
  BY <1>1, <1>2 DEF IInv, Place, StarInv
<1>4. h \in Nodes /\ 0 \in Nodes
  BY <1>1, <1>3, CmdFacts, ClusterAssumption DEF Nodes
<1>5. ASSUME NEW m \in Nodes PROVE StarInv(m)'
  <2>1. conn'[m][0] = conn[m][0] /\ conn'[0][m] = conn[0][m]
    BY <1>2, <1>3, <1>4 DEF TypeOK
  <2>2. app'[m] = "enlist" => m # 0 /\ Home(m)' # 0
    <3>1. Home(m)' = Home(m)
      BY <1>2 DEF Home, Cmd
    <3>2. app'[m] = "enlist" => app[m] = "enlist"
      BY <1>2, <1>3 DEF TypeOK
    <3> QED
      BY <3>1, <3>2 DEF StarInv
  <2> QED
    BY <1>2, <2>1, <2>2 DEF StarInv
<1> QED
  BY <1>5

LEMMA StarAccept ==
  ASSUME IInv, \A n \in Nodes : StarInv(n), NEW n \in Nodes, Accept(n)
  PROVE  \A m \in Nodes : StarInv(m)'
<1>1. PICK s : s = Head(backlog[n])
  OBVIOUS
<1>2. /\ backlog[n] # <<>>
      /\ backlog' = [backlog EXCEPT ![n] = Tail(@)]
      /\ busy' = [busy EXCEPT ![n] = s]
      /\ net' = [net EXCEPT ![n] = "enlist"]
      /\ UNCHANGED <<todo, app, conn>>
  BY <1>1 DEF Accept, appVars
<1>3. TypeOK
  BY DEF IInv
<1>4. PICK b \in Seq(Streams) : b = backlog[n] /\ b # <<>>
  BY <1>2, <1>3 DEF TypeOK
<1>5. /\ s = b[1] /\ 1 \in DOMAIN b
      /\ \A i \in DOMAIN Tail(b) : i + 1 \in DOMAIN b /\ Tail(b)[i] = b[i + 1]
  BY <1>1, <1>4
<1>6. \A i \in DOMAIN b : b[i][1] # 0 /\ b[i][2] # 0
  BY <1>4 DEF StarInv
<1>7. s[1] # 0 /\ s[2] # 0 /\ \A i \in DOMAIN Tail(b) : Tail(b)[i][1] # 0 /\ Tail(b)[i][2] # 0
  BY <1>5, <1>6
<1>8. ASSUME NEW m \in Nodes PROVE StarInv(m)'
  <2>1. app'[m] = "enlist" => m # 0 /\ Home(m)' # 0
    BY <1>2 DEF StarInv, Home, Cmd
  <2>2. CASE m = n
    <3>1. busy'[m] = s /\ backlog'[m] = Tail(b)
      BY <1>2, <1>3, <1>4, <2>2 DEF TypeOK
    <3> QED
      BY <1>2, <1>7, <2>1, <3>1 DEF StarInv
  <2>3. CASE m # n
    <3>1. busy'[m] = busy[m] /\ backlog'[m] = backlog[m] /\ net'[m] = net[m] /\ conn' = conn
      BY <1>2, <1>3, <2>3 DEF TypeOK
    <3>2. /\ \A i \in DOMAIN backlog'[m] : backlog'[m][i][1] # 0 /\ backlog'[m][i][2] # 0
          /\ net'[m] = "enlist" => busy'[m][1] # 0 /\ busy'[m][2] # 0
          /\ m # 0 => conn'[m][0] = <<m, 0>> /\ conn'[0][m] = <<m, 0>>
      BY <3>1 DEF StarInv
    <3> QED
      BY <2>1, <3>2 DEF StarInv
  <2> QED
    BY <2>2, <2>3
<1> QED
  BY <1>8

LEMMA StarEnlistAccepted ==
  ASSUME IInv, \A n \in Nodes : StarInv(n), NEW n \in Nodes, EnlistAccepted(n)
  PROVE  \A m \in Nodes : StarInv(m)'
<1>1. PICK s, h : s = busy[n] /\ h = Other(s, n)
  OBVIOUS
<1>2. /\ net[n] = "enlist"
      /\ conn' = [conn EXCEPT ![n][h] = s]
      /\ busy' = [busy EXCEPT ![n] = None]
      /\ net' = [net EXCEPT ![n] = "serve"]
      /\ UNCHANGED <<todo, app, backlog>>
  BY <1>1 DEF EnlistAccepted, appVars
<1>3. TypeOK /\ s \in Streams /\ n \in {s[1], s[2]} /\ s[1] # 0 /\ s[2] # 0
  <2>1. s # None /\ n \in {s[1], s[2]}
    BY <1>1, <1>2 DEF IInv, Place
  <2>2. TypeOK /\ busy[n] \in Streams \cup {None}
    BY DEF IInv, TypeOK
  <2>3. s[1] # 0 /\ s[2] # 0
    BY <1>1, <1>2 DEF StarInv
  <2> QED
    BY <1>1, <2>1, <2>2, <2>3
<1>4. h \in Nodes /\ n # 0 /\ h # 0 /\ 0 \in Nodes
  <2>1. h \in Nodes /\ h \in {s[1], s[2]}
    BY <1>1, <1>3, EndFacts DEF Other
  <2> QED
    BY <1>3, <2>1, ClusterAssumption DEF Nodes
<1>5. ASSUME NEW m \in Nodes PROVE StarInv(m)'
  <2>1. conn'[m][0] = conn[m][0] /\ conn'[0][m] = conn[0][m]
    BY <1>2, <1>3, <1>4 DEF TypeOK
  <2>2. app'[m] = "enlist" => m # 0 /\ Home(m)' # 0
    BY <1>2 DEF StarInv, Home, Cmd
  <2>3. net'[m] = "enlist" => net[m] = "enlist" /\ busy'[m] = busy[m]
    BY <1>2, <1>3 DEF TypeOK
  <2> QED
    BY <1>2, <2>1, <2>2, <2>3 DEF StarInv
<1> QED
  BY <1>5

LEMMA StarNext ==
  ASSUME IInv, \A n \in Nodes : StarInv(n), [Next]_vars
  PROVE  \A n \in Nodes : StarInv(n)'
<1>1. TypeOK
  BY DEF IInv
<1>2. CASE UNCHANGED vars
  BY <1>1, <1>2, StarQuiet DEF vars, appVars, netVars
<1>3. ASSUME NEW n \in Nodes, App(n) PROVE \A m \in Nodes : StarInv(m)'
  <2>1. CASE Local(n)
    BY <1>1, <2>1, StarQuiet DEF Local, netVars, TypeOK
  <2>2. CASE Send(n)
    <3>1. conn' = conn /\ backlog' = backlog /\ net' = net /\ busy' = busy
      BY <2>2 DEF Send, netVars
    <3>2. app[n] = "ready" /\ \/ app' = app /\ todo' = [todo EXCEPT ![n] = Tail(@)]
                              \/ app' = [app EXCEPT ![n] = "await"] /\ todo' = todo
      BY <2>2 DEF Send
    <3>3. \A m \in Nodes : app'[m] = "enlist" => app[m] = "enlist" /\ todo'[m] = todo[m]
      BY <1>1, <3>2 DEF TypeOK
    <3> QED
      BY <1>1, <3>1, <3>3, StarQuiet
  <2>3. CASE TakeReply(n)
    <3>1. conn' = conn /\ backlog' = backlog /\ net' = net /\ busy' = busy
      BY <2>3 DEF TakeReply, netVars
    <3>2. app' = [app EXCEPT ![n] = "ready"] /\ todo' = [todo EXCEPT ![n] = Tail(@)]
      BY <2>3 DEF TakeReply
    <3>3. \A m \in Nodes : app'[m] = "enlist" => app[m] = "enlist" /\ todo'[m] = todo[m]
      BY <1>1, <3>2 DEF TypeOK
    <3> QED
      BY <1>1, <3>1, <3>3, StarQuiet
  <2>4. CASE StopNet(n)
    BY <1>1, <2>4, StarQuiet DEF StopNet, appVars, TypeOK
  <2> QED
    BY <1>3, <2>1, <2>2, <2>3, <2>4, StarConnect, StarEnlist DEF App
<1>4. ASSUME NEW n \in Nodes, Net(n) PROVE \A m \in Nodes : StarInv(m)'
  <2>1. ASSUME conn' = conn, backlog' = backlog, UNCHANGED appVars,
               \/ busy' = busy /\ (net' = [net EXCEPT ![n] = "stop"] \/ net' = [net EXCEPT ![n] = "down"])
               \/ /\ \E s : busy' = [busy EXCEPT ![n] = s]
                  /\ net' = [net EXCEPT ![n] = "stop"] \/ net' = [net EXCEPT ![n] = "join"]
        PROVE  \A m \in Nodes : StarInv(m)'
    <3>1. \A m \in Nodes : net'[m] = "enlist" => net[m] = "enlist" /\ busy'[m] = busy[m]
      BY <1>1, <2>1 DEF TypeOK
    <3> QED
      BY <1>1, <2>1, <3>1, StarQuiet DEF appVars
  <2>2. CASE LeaveLoop(n)
    BY <2>1, <2>2 DEF LeaveLoop
  <2>3. CASE StopConnection(n)
    BY <2>1, <2>3 DEF StopConnection
  <2>4. CASE JoinConnection(n)
    BY <2>1, <2>4 DEF JoinConnection
  <2>5. CASE Exit(n)
    BY <2>1, <2>5 DEF Exit
  <2> QED
    BY <1>4, <2>2, <2>3, <2>4, <2>5, StarAccept, StarEnlistAccepted DEF Net
<1>5. ASSUME NEW e \in Ends, Conn(e) PROVE \A m \in Nodes : StarInv(m)'
  <2>1. UNCHANGED <<todo, app, conn, backlog, net, busy>>
    BY <1>5 DEF Conn, HandlePut, HandleGet, HandleWait, WaitOver, SendReply, HandleReply, HandleKill,
                EndThread, appVars, netVars
  <2> QED
    BY <1>1, <2>1, StarQuiet
<1> QED
  BY <1>2, <1>3, <1>4, <1>5 DEF Next, Stopped

----------------------------------------------------------------------------
(* Every step keeps what is said of the nodes and the ends.                *)

Rest == /\ \A n \in Nodes : NodeInv(n) /\ StoreInv(n)
        /\ \A e \in Ends : WireInv(e) /\ HeldInv(e)

LEMMA PosSame ==
  ASSUME TypeOK, NEW n \in Nodes, todo'[n] = todo[n]
  PROVE  Pos(n) \in Int /\ Pos(n)' \in Int /\ Pos(n) <= Pos(n)'
<1>1. Pos(n)' = Pos(n)
  BY DEF Pos
<1> QED
  BY <1>1, PosFacts

\* One node makes an operation.
LEMMA PosGrows ==
  ASSUME TypeOK, NEW n \in Nodes, NodeInv(n), ~Finished(n), todo' = [todo EXCEPT ![n] = Tail(@)]
  PROVE  \A m \in Nodes : Pos(m) \in Int /\ Pos(m)' \in Int /\ Pos(m) <= Pos(m)'
<1> SUFFICES ASSUME NEW m \in Nodes PROVE Pos(m) \in Int /\ Pos(m)' \in Int /\ Pos(m) <= Pos(m)'
  OBVIOUS
<1>1. CASE m = n
  <2>1. todo'[n] = Tail(todo[n])
    BY DEF TypeOK
  <2>2. Pos(n)' = Pos(n) + 1 /\ Pos(n) \in Int
    BY <2>1, NodeMoves, PosFacts
  <2>3. Pos(n) + 1 \in Int /\ Pos(n) <= Pos(n) + 1
    BY <2>2
  <2> QED
    BY <1>1, <2>2, <2>3
<1>2. CASE m # n
  <2>1. todo'[m] = todo[m]
    BY <1>2 DEF TypeOK
  <2> QED
    BY <2>1, PosSame
<1> QED
  BY <1>1, <1>2

\* Steps that move no key, operation or message.
LEMMA Quiet ==
  ASSUME IInv, Rest, UNCHANGED <<store, todo, wire, asked, replies>>,
         \A e \in Ends : th'[e] = "reply" => th[e] = "reply",
         \A n \in Nodes : net[n] = "down" => net'[n] = "down"
  PROVE  Rest'
<1>1. TypeOK
  BY DEF IInv
<1>2. Grows
  <2>1. \A n \in Nodes : Pos(n) \in Int /\ Pos(n)' \in Int /\ Pos(n) <= Pos(n)'
    BY <1>1, PosSame
  <2>2. \A e \in Ends : \A k \in Keys : OnWire(e, k) => OnWire(e, k)'
    BY DEF OnWire
  <2> QED
    BY <2>1, <2>2 DEF Grows
<1>3. ASSUME NEW n \in Nodes PROVE NodeInv(n)' /\ StoreInv(n)'
  BY <1>1, <1>2, NodeKept, StoreKept DEF Rest
<1>4. ASSUME NEW e \in Ends PROVE WireInv(e)' /\ HeldInv(e)'
  BY <1>1, <1>2, WireSame, HeldKept DEF Rest
<1> QED
  BY <1>3, <1>4 DEF Rest

\* What an application has put before it puts d.
LEMMA PutFirst ==
  ASSUME TypeOK, NEW n \in Nodes, NodeInv(n), NEW q \in DOMAIN Script[n], q <= Pos(n) + 1,
         NEW k \in Keys, NEW d, Script[n][q] = Put(d), PutBefore(k, d)
  PROVE  DonePut(n, k) /\ Made(n, "put", k)
<1>1. PICK p \in 1 .. q - 1 : Script[n][p] = Put(k)
  BY DEF PutBefore
<1>2. Pos(n) \in Int /\ DOMAIN Script[n] = 1 .. Len(Script[n]) /\ Len(Script[n]) \in Nat
  BY PosFacts
<1>3. p \in 1 .. Pos(n)
  BY <1>1, <1>2
<1>4. Script[n][p].type = "put" /\ Script[n][p].key = k
  BY <1>1 DEF Put
<1>5. Made(n, Script[n][p].type, Script[n][p].key)
  BY <1>3 DEF NodeInv
<1> QED
  BY <1>1, <1>3, <1>4, <1>5 DEF DonePut

\* The message that is received next.
LEMMA HeadFacts ==
  ASSUME TypeOK, NEW e \in Ends, WireInv(e), wire[e] # <<>>
  PROVE  /\ Fine(e, Head(wire[e])) /\ e[1][1] # 0
         /\ \A k \in Keys : k.node = e[2] /\ Announces(Head(wire[e]), k) => k \in store[e[2]]
<1>1. 1 \in DOMAIN wire[e] /\ Head(wire[e]) = wire[e][1]
  <2>1. PICK w \in Seq(Message) : w = wire[e]
    BY WireFacts
  <2>2. w # <<>> => 1 \in DOMAIN w /\ Head(w) = w[1]
    OBVIOUS
  <2> QED
    BY <2>1, <2>2
<1>2. ASSUME NEW k \in Keys, k.node = e[2], Announces(wire[e][1], k) PROVE k \in store[e[2]]
  <2>1. Ahead(e, 1, k)
    BY <1>1, <1>2 DEF WireInv
  <2>2. \A j \in 1 .. 1 - 1 : FALSE
    OBVIOUS
  <2> QED
    BY <2>1, <2>2 DEF Ahead
<1> QED
  BY <1>1, <1>2 DEF WireInv

LEMMA LocalRest ==
  ASSUME IInv, Rest, NEW n \in Nodes, Local(n)
  PROVE  Rest'
<1>1. PICK c, k : c = Cmd(n) /\ k = c.key
  OBVIOUS
<1>2. /\ ~Finished(n) /\ k.node = n
      /\ \/ c.type = "put" /\ store' = [store EXCEPT ![n] = @ \cup {k}]
         \/ c.type # "put" /\ k \in store[n] /\ store' = store
      /\ todo' = [todo EXCEPT ![n] = Tail(@)]
      /\ UNCHANGED <<net, wire, th, asked, replies>>
  BY <1>1 DEF Local, Home, netVars, connVars
<1>3. TypeOK /\ k \in Keys /\ NodeInv(n) /\ store \in [Nodes -> SUBSET Keys]
  BY <1>1, <1>2, CmdFacts DEF IInv, Rest, TypeOK
<1>4. todo'[n] = Tail(todo[n]) /\ \A m \in Nodes : m # n => todo'[m] = todo[m] /\ store'[m] = store[m]
  BY <1>2, <1>3 DEF TypeOK
<1>5. k \in store'[n] /\ \A m \in Nodes : store[m] \subseteq store'[m]
  BY <1>2, <1>3
<1>6. Grows
  <2>1. \A m \in Nodes : Pos(m) \in Int /\ Pos(m)' \in Int /\ Pos(m) <= Pos(m)'
    BY <1>2, <1>3, PosGrows
  <2>2. \A e \in Ends : \A x \in Keys : OnWire(e, x) => OnWire(e, x)'
    BY <1>2 DEF OnWire
  <2> QED
    BY <1>2, <1>5, <2>1, <2>2 DEF Grows
<1>7. ASSUME NEW m \in Nodes PROVE NodeInv(m)'
  <2>1. Made(n, c.type, c.key)'
    <3>1. Placed(n, k)' /\ Known(k)'
      BY <1>2, <1>5 DEF Placed, Known
    <3>2. Told(n, k)'
      BY <1>2 DEF Told, Delivers
    <3> QED
      BY <1>1, <3>1, <3>2 DEF Made
  <2> QED
    BY <1>1, <1>2, <1>3, <1>4, <1>6, <2>1, NodeDone, NodeKept DEF Rest
<1>8. ASSUME NEW m \in Nodes PROVE StoreInv(m)'
  <2>1. CASE m # n \/ c.type # "put"
    BY <1>2, <1>4, <1>6, <2>1, StoreKept DEF Rest
  <2>2. CASE m = n /\ c.type = "put"
    <3>1. /\ Pos(n) \in Nat /\ Pos(n) + 1 \in DOMAIN Script[n] /\ Pos(n)' = Pos(n) + 1
          /\ Script[n][Pos(n) + 1] = Put(k)
      BY <1>1, <1>2, <1>3, <1>4, <2>2, NextOperation, NodeMoves, ScriptFacts
    <3>2. DonePut(n, k)'
      <4>1. Pos(n) + 1 \in 1 .. Pos(n)'
        BY <3>1
      <4> QED
        BY <3>1, <4>1 DEF DonePut
    <3>3. ASSUME n = 0, NEW x \in Keys, x.node = 0, PutBefore(x, k) PROVE x \in store'[0]
      <4>1. Pos(n) + 1 <= Pos(n) + 1
        BY <3>1
      <4>2. Made(n, "put", x)
        BY <1>3, <3>1, <3>3, <4>1, PutFirst
      <4> QED
        BY <1>5, <3>3, <4>2 DEF Made, Placed
    <3>4. Settled(n, k)'
      BY <1>2, <3>2, <3>3 DEF Settled
    <3>5. store'[n] = store[n] \cup {k}
      BY <1>2, <1>3, <2>2
    <3> QED
      BY <1>6, <2>2, <3>4, <3>5, StoreAdded DEF Rest
  <2> QED
    BY <2>1, <2>2
<1>9. ASSUME NEW e \in Ends PROVE WireInv(e)' /\ HeldInv(e)'
  BY <1>2, <1>3, <1>6, WireSame, HeldKept DEF Rest
<1> QED
  BY <1>7, <1>8, <1>9 DEF Rest

\* A message is sent to the other end: it is lost if that node has exited.
LEMMA SentTo ==
  ASSUME TypeOK, NEW e \in Ends, NEW m \in Message, wire' = Sent(wire, e, m)
  PROVE  /\ net[Peer(e)[2]] = "down" => wire' = wire
         /\ net[Peer(e)[2]] # "down" => wire'[Peer(e)] = Append(wire[Peer(e)], m)
         /\ \A f \in Ends : f # Peer(e) => wire'[f] = wire[f]
         /\ \A f \in Ends : \A k : OnWire(f, k) => OnWire(f, k)'
<1>1. Peer(e) \in Ends /\ wire \in [Ends -> Seq(Message)]
  BY PeerFacts DEF TypeOK
<1>2. /\ net[Peer(e)[2]] = "down" => wire' = wire
      /\ net[Peer(e)[2]] # "down" => wire' = [wire EXCEPT ![Peer(e)] = Append(@, m)]
  BY DEF Sent
<1>3. \A f \in Ends : f # Peer(e) => wire'[f] = wire[f]
  BY <1>1, <1>2
<1>4. ASSUME NEW f \in Ends, NEW k, OnWire(f, k) PROVE OnWire(f, k)'
  <2>1. CASE wire'[f] = wire[f]
    BY <1>4, <2>1 DEF OnWire
  <2>2. CASE wire'[f] = Append(wire[f], m)
    <3>1. PICK w \in Seq(Message), j \in DOMAIN wire[f] : w = wire[f] /\ w[j] = Put(k)
      BY <1>1, <1>4 DEF OnWire
    <3>2. j \in DOMAIN Append(w, m) /\ Append(w, m)[j] = w[j]
      BY <3>1
    <3> QED
      BY <2>2, <3>1, <3>2 DEF OnWire
  <2> QED
    BY <1>1, <1>2, <1>3, <2>1, <2>2
<1> QED
  BY <1>1, <1>2, <1>3, <1>4

\* The application's stream to another node.
LEMMA SendFacts ==
  ASSUME IInv, \A m \in Nodes : StarInv(m), NEW n \in Nodes, Send(n),
         NEW h, h = Home(n), NEW e, e = <<conn[n][h], n>>
  PROVE  /\ h \in Nodes /\ h # n /\ ~Finished(n)
         /\ e \in Ends /\ e[2] = n /\ e[1][1] # 0 /\ Peer(e) = <<e[1], h>>
         /\ 0 \in {n, h} => Peer(e) = <<Star(n, h), h>>
<1>1. ~Finished(n) /\ h # n /\ conn[n][h] # None /\ TypeOK
  BY DEF Send, IInv
<1>2. h \in Nodes
  BY <1>1, CmdFacts
<1>3. conn[n][h] \in {<<n, h>>, <<h, n>>}
  BY <1>1, <1>2 DEF IInv, Place
<1>4. e \in Ends /\ e[1] = conn[n][h] /\ e[2] = n /\ Other(e[1], n) = h
  <2>1. PICK s : s = conn[n][h]
    OBVIOUS
  <2>2. s \in {<<n, h>>, <<h, n>>}
    BY <1>3, <2>1
  <2>3. /\ Other(s, n) = h /\ <<s, n>> \in Ends /\ <<s, n>>[1] = s /\ <<s, n>>[2] = n
    <3>1. CASE s = <<n, h>>
      BY <1>1, <1>2, <3>1 DEF Other, Ends, Streams
    <3>2. CASE s = <<h, n>>
      BY <1>1, <1>2, <3>2 DEF Other, Ends, Streams
    <3> QED
      BY <2>2, <3>1, <3>2
  <2> QED
    BY <2>1, <2>3
<1>5. 0 \in {n, h} => e[1] = Star(n, h)
  BY <1>1, <1>2, <1>4 DEF StarInv, Star
<1>6. e[1][1] # 0
  BY <1>1, <1>3, <1>4, <1>5 DEF Star
<1> QED
  BY <1>1, <1>2, <1>4, <1>5, <1>6 DEF Peer

\* A key that a node has put where the controller is on either side is found by
\* what the node sends after it.
LEMMA PlacedFirst ==
  ASSUME NEW n \in Nodes, NEW k \in Keys, k.node # n, 0 \in {n, k.node}, Made(n, "put", k),
         NEW p, p = <<Star(n, k.node), k.node>>, net[k.node] # "down"
  PROVE  k \in store[k.node] \/ OnWire(p, k)
BY DEF Made, Placed

LEMMA SendWire ==
  ASSUME Causal, IInv, CInv, NEW n \in Nodes, Send(n), Grows,
         NEW e, e = <<conn[n][Home(n)], n>>,
         NEW c, c = Cmd(n), wire' = Sent(wire, e, c), DonePut(n, c.key)' \/ c.type # "put"
  PROVE  \A f \in Ends : WireInv(f)'
<1>1. PICK h, k, p : h = Home(n) /\ k = c.key /\ p = Peer(e)
  OBVIOUS
<1>2. TypeOK /\ \A m \in Nodes : StarInv(m) /\ NodeInv(m) /\ StoreInv(m)
  BY DEF IInv, CInv
<1>3. /\ h \in Nodes /\ h # n /\ ~Finished(n) /\ k.node = h
      /\ e \in Ends /\ e[2] = n /\ e[1][1] # 0 /\ p = <<e[1], h>>
      /\ 0 \in {n, h} => p = <<Star(n, h), h>>
  BY <1>1, <1>2, SendFacts DEF Home
<1>4. p \in Ends /\ Peer(p) = e /\ p[1] = e[1] /\ p[2] = h
  BY <1>1, <1>3, PeerFacts
<1>5. c \in Message /\ k \in Keys /\ c.type \in {"put", "get", "wait"}
  BY <1>1, <1>2, <1>3, CmdFacts
<1>6. /\ net[h] = "down" => wire' = wire
      /\ net[h] # "down" => wire'[p] = Append(wire[p], c)
      /\ \A f \in Ends : f # p => wire'[f] = wire[f]
  BY <1>1, <1>2, <1>3, <1>4, <1>5, SentTo
<1>7. Fine(p, c)'
  <2>1. Peer(p)[2] = n
    BY <1>3, <1>4
  <2> QED
    BY <1>1, <1>3, <1>4, <1>5, <2>1 DEF Fine, Peer, Other
<1>8. ASSUME NEW x \in Keys, x.node = h, Announces(c, x), net[h] # "down"
      PROVE  x \in store[h] \/ OnWire(p, x)
  <2>1. /\ Pos(n) \in Nat /\ Pos(n) + 1 \in DOMAIN Script[n] /\ Script[n][Pos(n) + 1] = c
        /\ Pos(n) + 1 <= Pos(n) + 1
    BY <1>2, <1>3, NextOperation
  <2>2. ASSUME 0 \in {n, h}, Made(n, "put", x) PROVE x \in store[h] \/ OnWire(p, x)
    BY <1>3, <1>8, <2>2, PlacedFirst
  <2>3. CASE c.type = "put"
    <3>1. x.node = 0 /\ PutBefore(x, k) /\ Script[n][Pos(n) + 1] = Put(k)
      BY <1>1, <1>8, <2>1, <2>3, ScriptFacts DEF Announces
    <3>2. Made(n, "put", x)
      BY <1>2, <2>1, <3>1, PutFirst
    <3> QED
      BY <1>8, <2>2, <3>1, <3>2
  <2>4. CASE c.type = "get"
    <3>1. x = k
      BY <1>1, <1>8, <2>4 DEF Announces
    <3>2. PICK j \in 1 .. (Pos(n) + 1) - 1 :
            \/ /\ Script[n][j] = Put(k)
               /\ k.node = n \/ 0 \in {n, k.node}
            \/ /\ Script[n][j].type # "put"
               /\ LET d == Script[n][j].key IN
                    \/ k.node = 0 /\ d.node = 0 /\ PutBefore(k, d)
                    \/ k.node = n /\ Delivers(k, d)
      BY <1>1, <2>1, <2>4 DEF Causal
    <3>3. j \in 1 .. Pos(n)
      BY <2>1, <3>2
    <3>4. PICK d : d = Script[n][j].key
      OBVIOUS
    <3>5. Made(n, Script[n][j].type, d)
      BY <1>2, <3>3, <3>4 DEF NodeInv
    <3>6. CASE Script[n][j] = Put(k)
      <4>1. 0 \in {n, h} /\ Script[n][j].type = "put" /\ d = k
        BY <1>3, <3>2, <3>4, <3>6 DEF Put
      <4> QED
        BY <2>2, <3>1, <3>5, <4>1
    <3>7. CASE Script[n][j].type # "put" /\ k.node = 0 /\ d.node = 0 /\ PutBefore(k, d)
      <4>1. d \in store[0] /\ h = 0
        BY <1>3, <3>5, <3>7 DEF Made, Known
      <4>2. Settled(0, d)
        BY <1>2, <1>3, <4>1 DEF StoreInv
      <4> QED
        BY <1>3, <1>5, <3>1, <3>7, <4>1, <4>2 DEF Settled
    <3> QED
      BY <1>3, <3>2, <3>4, <3>6, <3>7 DEF Put
  <2> QED
    BY <1>5, <1>8, <2>3, <2>4 DEF Announces
<1>9. ASSUME NEW f \in Ends PROVE WireInv(f)'
  <2>1. CASE f = p /\ net[h] # "down"
    BY <1>2, <1>3, <1>4, <1>5, <1>6, <1>7, <1>8, <2>1, WireAppended DEF CInv
  <2>2. CASE ~(f = p /\ net[h] # "down")
    BY <1>2, <1>6, <2>2, WireSame DEF CInv
  <2> QED
    BY <2>1, <2>2
<1> QED
  BY <1>9

LEMMA SendRest ==
  ASSUME Causal, IInv, CInv, NEW n \in Nodes, Send(n)
  PROVE  Rest'
<1>1. PICK h, c, e, p : h = Home(n) /\ c = Cmd(n) /\ e = <<conn[n][h], n>> /\ p = Peer(e)
  OBVIOUS
<1>2. /\ wire' = Sent(wire, e, c)
      /\ \/ c.type = "put" /\ todo' = [todo EXCEPT ![n] = Tail(@)]
         \/ c.type # "put" /\ todo' = todo
      /\ UNCHANGED <<store, net, th, asked, replies>>
  BY <1>1 DEF Send, netVars, connVars
<1>3. TypeOK /\ Rest /\ \A m \in Nodes : StarInv(m) /\ NodeInv(m)
  BY DEF IInv, CInv, Rest
<1>4. /\ h \in Nodes /\ h # n /\ ~Finished(n) /\ c.key.node = h
      /\ e \in Ends /\ e[2] = n /\ p = <<e[1], h>>
      /\ 0 \in {n, h} => p = <<Star(n, h), h>>
  BY <1>1, <1>3, SendFacts DEF Home
<1>5. c \in Message /\ c.key \in Keys /\ p \in Ends /\ p[2] = h
  BY <1>1, <1>3, <1>4, CmdFacts, PeerFacts
<1>6. /\ net[h] # "down" => wire'[p] = Append(wire[p], c)
      /\ \A f \in Ends : \A k : OnWire(f, k) => OnWire(f, k)'
  BY <1>1, <1>2, <1>3, <1>4, <1>5, SentTo
<1>7. Grows
  <2>1. \A m \in Nodes : Pos(m) \in Int /\ Pos(m)' \in Int /\ Pos(m) <= Pos(m)'
    BY <1>2, <1>3, <1>4, PosGrows, PosSame
  <2> QED
    BY <1>2, <1>6, <2>1 DEF Grows
<1>8. CASE c.type = "put"
  <2>1. c = Put(c.key) /\ todo'[n] = Tail(todo[n]) /\ \A m \in Nodes : m # n => todo'[m] = todo[m]
    <3>1. Script[n][Pos(n) + 1] = c /\ Pos(n) + 1 \in DOMAIN Script[n]
      BY <1>1, <1>3, <1>4, NextOperation
    <3> QED
      BY <1>2, <1>3, <1>8, <3>1, ScriptFacts DEF TypeOK
  <2>2. DonePut(n, c.key)'
    <3>1. /\ Script[n][Pos(n) + 1] = c /\ Pos(n) \in Nat /\ Pos(n)' = Pos(n) + 1
      BY <1>1, <1>3, <1>4, <2>1, NextOperation, NodeMoves
    <3>2. Pos(n) + 1 \in 1 .. Pos(n)'
      BY <3>1
    <3> QED
      BY <2>1, <3>1, <3>2 DEF DonePut
  <2>3. Made(n, c.type, c.key)'
    <3>1. ASSUME 0 \in {n, h}, net[h] # "down" PROVE OnWire(p, c.key)'
      <4>1. PICK w \in Seq(Message) : w = wire[p]
        BY <1>3, <1>5, WireFacts
      <4>2. Len(w) + 1 \in DOMAIN Append(w, c) /\ Append(w, c)[Len(w) + 1] = c
        BY <1>5
      <4> QED
        BY <1>6, <2>1, <3>1, <4>1, <4>2 DEF OnWire
    <3>2. ASSUME 0 \in {n, h} PROVE Placed(n, c.key)'
      BY <1>2, <1>4, <3>1, <3>2 DEF Placed, OnWire, Star
    <3> QED
      BY <1>4, <1>8, <3>2 DEF Made
  <2> QED
    <3>1. \A m \in Nodes : NodeInv(m)'
      BY <1>1, <1>3, <1>4, <1>7, <2>1, <2>3, NodeDone, NodeKept
    <3>2. \A m \in Nodes : StoreInv(m)'
      BY <1>2, <1>3, <1>7, StoreKept DEF Rest
    <3>3. \A f \in Ends : WireInv(f)'
      BY <1>1, <1>2, <1>7, <2>2, SendWire
    <3>4. \A f \in Ends : HeldInv(f)'
      BY <1>2, <1>3, <1>7, HeldKept DEF Rest
    <3> QED
      BY <3>1, <3>2, <3>3, <3>4 DEF Rest
<1>9. CASE c.type # "put"
  <2>1. \A m \in Nodes : NodeInv(m)' /\ StoreInv(m)'
    BY <1>2, <1>3, <1>7, <1>9, NodeKept, StoreKept DEF Rest
  <2>2. \A f \in Ends : WireInv(f)'
    BY <1>1, <1>2, <1>7, <1>9, SendWire
  <2>3. \A f \in Ends : HeldInv(f)'
    BY <1>2, <1>3, <1>7, HeldKept DEF Rest
  <2> QED
    BY <2>1, <2>2, <2>3 DEF Rest
<1> QED
  BY <1>8, <1>9

LEMMA TakeReplyRest ==
  ASSUME IInv, Rest, NEW n \in Nodes, TakeReply(n)
  PROVE  Rest'
<1>1. PICK c, e : c = Cmd(n) /\ e = cur[n]
  OBVIOUS
<1>2. /\ app[n] = "await" /\ replies[e] # <<>>
      /\ replies' = [replies EXCEPT ![e] = Tail(@)]
      /\ todo' = [todo EXCEPT ![n] = Tail(@)]
      /\ UNCHANGED <<store, net, wire, th, asked>>
  BY <1>1 DEF TakeReply, netVars
<1>3. TypeOK /\ ~Finished(n) /\ e \in Ends /\ e[2] = n
  <2>1. TypeOK /\ Place(n)
    BY DEF IInv
  <2>2. ~Finished(n) /\ e # None /\ e[2] = n
    BY <1>1, <1>2, <2>1 DEF Place
  <2>3. cur[n] \in Ends \cup {None}
    BY <2>1 DEF TypeOK
  <2> QED
    BY <1>1, <2>1, <2>2, <2>3
<1>4. c.key \in Keys /\ replies[e] = <<c.key>>
  <2>1. Awaits(e) = {c.key}
    BY <1>1, <1>2, <1>3 DEF Awaits
  <2>2. \E k \in Awaits(e) : replies[e] = <<k>>
    BY <1>2, <1>3 DEF IInv, RequestInv, Passing
  <2> QED
    BY <1>1, <1>3, <2>1, <2>2, CmdFacts
<1>5. Known(c.key) /\ Told(n, c.key)
  <2>1. 1 \in DOMAIN replies[e] /\ replies[e][1] = c.key
    BY <1>4
  <2> QED
    BY <1>3, <2>1 DEF Rest, HeldInv
<1>6. todo'[n] = Tail(todo[n]) /\ \A m \in Nodes : m # n => todo'[m] = todo[m]
  BY <1>2, <1>3 DEF TypeOK
<1>7. \A f \in Ends : replies'[f] = replies[f] \/ replies'[f] = <<>>
  <2>1. Tail(replies[e]) = <<>>
    BY <1>4
  <2> QED
    BY <1>2, <1>3, <2>1 DEF TypeOK
<1>8. Grows
  <2>1. \A m \in Nodes : Pos(m) \in Int /\ Pos(m)' \in Int /\ Pos(m) <= Pos(m)'
    BY <1>2, <1>3, PosGrows DEF Rest
  <2>2. \A f \in Ends : \A x \in Keys : OnWire(f, x) => OnWire(f, x)'
    BY <1>2 DEF OnWire
  <2> QED
    BY <1>2, <2>1, <2>2 DEF Grows
<1>9. ASSUME NEW m \in Nodes PROVE NodeInv(m)' /\ StoreInv(m)'
  <2>1. Made(n, c.type, c.key)'
    <3>1. Known(c.key)' /\ Told(n, c.key)'
      BY <1>4, <1>5, <1>8, KnownKept
    <3> QED
      BY <3>1 DEF Made, Known, Placed
  <2> QED
    BY <1>1, <1>2, <1>3, <1>6, <1>8, <2>1, NodeDone, NodeKept, StoreKept DEF Rest
<1>10. ASSUME NEW f \in Ends PROVE WireInv(f)' /\ HeldInv(f)'
  BY <1>2, <1>3, <1>7, <1>8, WireSame, HeldKept DEF Rest
<1> QED
  BY <1>9, <1>10 DEF Rest

\* Steps of the Connection threads, and of the NetworkIfc thread that sends KILLs.
LEMMA GrowsOnWires ==
  ASSUME TypeOK, todo' = todo, net' = net \/ \E n \in Nodes : net[n] # "down" /\ \A m \in Nodes : m # n => net'[m] = net[m],
         \A n \in Nodes : store[n] \subseteq store'[n],
         \A e \in Ends :
           \/ wire'[e] = wire[e]
           \/ \E m \in Message : wire'[e] = Append(wire[e], m)
           \/ /\ wire[e] # <<>> /\ wire'[e] = Tail(wire[e])
              /\ Head(wire[e]).type = "put" => Head(wire[e]).key \in store'[e[2]]
  PROVE  Grows
<1>1. \A n \in Nodes : Pos(n) \in Int /\ Pos(n)' \in Int /\ Pos(n) <= Pos(n)'
  BY PosSame
<1>2. \A e \in Ends : \A k \in Keys : OnWire(e, k) => k \in store'[e[2]] \/ OnWire(e, k)'
  BY OnWireKept
<1>3. \A n \in Nodes : net[n] = "down" => net'[n] = "down"
  OBVIOUS
<1> QED
  BY <1>1, <1>2, <1>3 DEF Grows

LEMMA LeaveLoopRest ==
  ASSUME IInv, CInv, NEW n \in Nodes, LeaveLoop(n)
  PROVE  Rest'
<1>1. PICK k : k = [type |-> "kill", key |-> None]
  OBVIOUS
<1>2. /\ n # 0 => wire' = wire
      /\ n = 0 => wire' = [e \in Ends |->
                             IF /\ e[2] \in Peers(0) /\ conn[0][e[2]] = e[1]
                                /\ net[e[2]] # "down"
                             THEN Append(wire[e], k) ELSE wire[e]]
      /\ net[n] # "down" /\ net' = [net EXCEPT ![n] = "stop"]
      /\ UNCHANGED <<store, todo, th, asked, replies>>
  BY <1>1 DEF LeaveLoop, appVars, connVars
<1>3. TypeOK /\ Rest /\ k \in Message
  BY <1>1 DEF IInv, CInv, Rest, Message
<1>4. \A m \in Nodes : m # n => net'[m] = net[m]
  BY <1>2, <1>3 DEF TypeOK
<1>5. \A e \in Ends : wire'[e] = wire[e] \/ (n = 0 /\ e[2] \in Peers(0) /\ conn[0][e[2]] = e[1]
                                             /\ wire'[e] = Append(wire[e], k))
  BY <1>2
<1>6. Grows
  BY <1>2, <1>3, <1>4, <1>5, GrowsOnWires
<1>7. ASSUME NEW e \in Ends, e[2] \in Peers(0), conn[0][e[2]] = e[1], wire'[e] = Append(wire[e], k), n = 0
      PROVE  WireInv(e)'
  <2>1. e[1][1] # 0
    <3>1. e[2] \in Nodes /\ e[2] # 0
      BY <1>7 DEF IInv, Place, Peers
    <3>2. StarInv(e[2])
      BY <3>1 DEF CInv
    <3>3. e[1] = <<e[2], 0>>
      BY <1>7, <3>1, <3>2 DEF StarInv
    <3> QED
      BY <3>1, <3>3
  <2>2. Fine(e, k)' /\ \A x \in Keys : ~Announces(k, x)
    BY <1>1 DEF Fine, Announces
  <2> QED
    BY <1>3, <1>6, <1>7, <2>1, <2>2, WireAppended DEF Rest
<1>8. ASSUME NEW e \in Ends PROVE WireInv(e)' /\ HeldInv(e)'
  BY <1>2, <1>3, <1>5, <1>6, <1>7, WireSame, HeldKept DEF Rest
<1>9. ASSUME NEW m \in Nodes PROVE NodeInv(m)' /\ StoreInv(m)'
  BY <1>2, <1>3, <1>6, NodeKept, StoreKept DEF Rest
<1> QED
  BY <1>8, <1>9 DEF Rest

\* A message is taken from the wire of end e.
LEMMA TakenFacts ==
  ASSUME IInv, Rest, NEW e \in Ends, NEW t, Receives(e, t), NEW m, m = Head(wire[e]),
         todo' = todo, net' = net, \A n \in Nodes : store[n] \subseteq store'[n],
         t = "put" => m.key \in store'[e[2]]
  PROVE  /\ TypeOK /\ e[2] \in Nodes /\ e[1][1] # 0
         /\ m.type = t /\ Fine(e, m) /\ (t # "kill" => m.key \in Keys)
         /\ \A k \in Keys : k.node = e[2] /\ Announces(m, k) => k \in store[e[2]]
         /\ Grows
         /\ \A n \in Nodes : NodeInv(n)' /\ (store'[n] = store[n] => StoreInv(n)')
         /\ \A f \in Ends : WireInv(f)'
<1>1. TypeOK /\ e[2] \in Nodes
  BY PeerFacts DEF IInv
<1>2. /\ wire[e] # <<>> /\ m.type = t /\ (t # "kill" => m.key \in Keys)
      /\ wire'[e] = Tail(wire[e])
      /\ \A f \in Ends : f # e => wire'[f] = wire[f]
  BY <1>1, ReceiveFacts
<1>3. /\ Fine(e, m) /\ e[1][1] # 0
      /\ \A k \in Keys : k.node = e[2] /\ Announces(m, k) => k \in store[e[2]]
  BY <1>1, <1>2, HeadFacts DEF Rest
<1>4. Grows
  <2>1. \A f \in Ends :
          \/ wire'[f] = wire[f]
          \/ /\ wire[f] # <<>> /\ wire'[f] = Tail(wire[f])
             /\ Head(wire[f]).type = "put" => Head(wire[f]).key \in store'[f[2]]
    BY <1>2
  <2> QED
    BY <1>1, <2>1, GrowsOnWires
<1>5. \A n \in Nodes : NodeInv(n)' /\ (store'[n] = store[n] => StoreInv(n)')
  BY <1>1, <1>4, NodeKept, StoreKept DEF Rest
<1>6. ASSUME NEW f \in Ends PROVE WireInv(f)'
  <2>1. CASE f = e
    BY <1>1, <1>2, <1>4, <2>1, WireTaken DEF Rest
  <2>2. CASE f # e
    BY <1>1, <1>2, <1>4, <2>2, WireSame DEF Rest
  <2> QED
    BY <2>1, <2>2
<1> QED
  BY <1>1, <1>2, <1>3, <1>4, <1>5, <1>6

LEMMA HandlePutRest ==
  ASSUME IInv, Rest, NEW e \in Ends, HandlePut(e)
  PROVE  Rest'
<1>1. PICK m, n, k : m = Head(wire[e]) /\ n = e[2] /\ k = m.key
  OBVIOUS
<1>2. /\ Receives(e, "put")
      /\ store' = [store EXCEPT ![n] = @ \cup {k}]
      /\ th' = [th EXCEPT ![e] = "poll"]
      /\ UNCHANGED <<todo, net, asked, replies>>
  BY <1>1 DEF HandlePut, appVars, netVars
<1>3. store \in [Nodes -> SUBSET Keys] /\ th \in [Ends -> {"none", "poll", "last", "wait", "reply", "gone"}]
  BY DEF IInv, TypeOK
<1>4. n \in Nodes
  BY <1>1, PeerFacts
<1>5. /\ store'[n] = store[n] \cup {k} /\ \A w \in Nodes : w # n => store'[w] = store[w]
      /\ \A w \in Nodes : store[w] \subseteq store'[w]
  BY <1>2, <1>3, <1>4
<1>6. /\ TypeOK /\ m.type = "put" /\ Fine(e, m) /\ k \in Keys
      /\ \A x \in Keys : x.node = n /\ Announces(m, x) => x \in store[n]
      /\ Grows
      /\ \A w \in Nodes : NodeInv(w)' /\ (store'[w] = store[w] => StoreInv(w)')
      /\ \A f \in Ends : WireInv(f)'
  <2>1. /\ TypeOK /\ m.type = "put" /\ Fine(e, m) /\ m.key \in Keys
        /\ \A x \in Keys : x.node = e[2] /\ Announces(m, x) => x \in store[e[2]]
        /\ Grows
        /\ \A w \in Nodes : NodeInv(w)' /\ (store'[w] = store[w] => StoreInv(w)')
        /\ \A f \in Ends : WireInv(f)'
    <3>1. /\ Receives(e, "put") /\ m = Head(wire[e]) /\ todo' = todo /\ net' = net
          /\ \A w \in Nodes : store[w] \subseteq store'[w]
          /\ m.key \in store'[e[2]]
      BY <1>1, <1>2, <1>5
    <3> QED
      BY <3>1, TakenFacts
  <2> QED
    BY <1>1, <2>1
<1>7. StoreInv(n)'
  <2>1. PICK w \in Nodes : DonePut(w, k)
    BY <1>1, <1>6, PeerFacts DEF Fine
  <2>2. DonePut(w, k)'
    BY <1>6, <2>1, KnownKept
  <2>3. k.node = n
    BY <1>1, <1>6 DEF Fine
  <2>4. ASSUME n = 0, NEW x \in Keys, x.node = 0, PutBefore(x, k) PROVE x \in store'[0]
    BY <1>1, <1>5, <1>6, <2>4 DEF Announces
  <2>5. Settled(n, k)'
    BY <2>2, <2>3, <2>4 DEF Settled
  <2> QED
    BY <1>4, <1>5, <1>6, <2>5, StoreAdded DEF Rest
<1>8. ASSUME NEW f \in Ends PROVE HeldInv(f)'
  <2>1. th'[f] = "reply" => th[f] = "reply"
    BY <1>2, <1>3
  <2> QED
    BY <1>2, <1>6, <2>1, HeldKept DEF Rest
<1> QED
  BY <1>5, <1>6, <1>7, <1>8 DEF Rest

\* A request is taken; that for a get is answered next.
LEMMA HandleRequestRest ==
  ASSUME IInv, Rest, NEW e \in Ends, HandleGet(e) \/ HandleWait(e)
  PROVE  Rest'
<1>1. PICK m, k : m = Head(wire[e]) /\ k = m.key
  OBVIOUS
<1>2. PICK t \in {"get", "wait"} :
        /\ Receives(e, t)
        /\ asked' = [asked EXCEPT ![e] = k]
        /\ \/ k \in store[e[2]] /\ th' = [th EXCEPT ![e] = "reply"]
           \/ th' = [th EXCEPT ![e] = "wait"]
        /\ UNCHANGED <<store, todo, net, replies>>
  BY <1>1 DEF HandleGet, HandleWait, appVars, netVars
<1>3. /\ th \in [Ends -> {"none", "poll", "last", "wait", "reply", "gone"}]
      /\ asked \in [Ends -> Keys \cup {None}]
  BY DEF IInv, TypeOK
<1>4. /\ TypeOK /\ e[2] \in Nodes /\ e[1][1] # 0 /\ m.type = t /\ Fine(e, m) /\ k \in Keys
      /\ Grows
      /\ \A w \in Nodes : NodeInv(w)' /\ StoreInv(w)'
      /\ \A f \in Ends : WireInv(f)'
  BY <1>1, <1>2, TakenFacts
<1>5. ASSUME NEW f \in Ends PROVE HeldInv(f)'
  <2>1. CASE f = e
    <3>1. asked'[e] = k /\ k.node = e[2]
      BY <1>1, <1>2, <1>3, <1>4 DEF Fine
    <3>2. th'[e] = "reply" => k \in store[e[2]]
      BY <1>2, <1>3
    <3>3. th'[e] = "reply" => Known(k)'
      BY <1>2, <3>1, <3>2 DEF Known
    <3> QED
      BY <1>2, <1>4, <2>1, <3>1, <3>3, HeldChanged DEF Rest
  <2>2. CASE f # e
    <3>1. th'[f] = th[f] /\ asked'[f] = asked[f]
      BY <1>2, <1>3, <2>2
    <3> QED
      BY <1>2, <1>4, <3>1, HeldKept DEF Rest
  <2> QED
    BY <2>1, <2>2
<1> QED
  BY <1>4, <1>5 DEF Rest

LEMMA HandleKillRest ==
  ASSUME IInv, Rest, NEW e \in Ends, HandleKill(e)
  PROVE  Rest'
<1>1. PICK m : m = Head(wire[e])
  OBVIOUS
<1>2. /\ Receives(e, "kill")
      /\ th' = [th EXCEPT ![e] = "poll"]
      /\ UNCHANGED <<store, todo, net, asked, replies>>
  BY DEF HandleKill, appVars, netVars
<1>3. /\ TypeOK /\ Grows
      /\ \A w \in Nodes : NodeInv(w)' /\ StoreInv(w)'
      /\ \A f \in Ends : WireInv(f)'
  BY <1>1, <1>2, TakenFacts
<1>4. \A f \in Ends : th'[f] = "reply" => th[f] = "reply"
  BY <1>2, <1>3 DEF TypeOK
<1> QED
  BY <1>2, <1>3, <1>4, HeldKept DEF Rest

LEMMA HandleReplyRest ==
  ASSUME IInv, Rest, NEW e \in Ends, HandleReply(e)
  PROVE  Rest'
<1>1. PICK m, k : m = Head(wire[e]) /\ k = m.key
  OBVIOUS
<1>2. /\ Receives(e, "reply")
      /\ replies' = [replies EXCEPT ![e] = Append(@, k)]
      /\ th' = [th EXCEPT ![e] = "poll"]
      /\ UNCHANGED <<store, todo, net, asked>>
  BY <1>1 DEF HandleReply, appVars, netVars
<1>3. /\ TypeOK /\ e[2] \in Nodes /\ m.type = "reply" /\ Fine(e, m) /\ k \in Keys
      /\ \A x \in Keys : x.node = e[2] /\ Announces(m, x) => x \in store[e[2]]
      /\ Grows
      /\ \A w \in Nodes : NodeInv(w)' /\ StoreInv(w)'
      /\ \A f \in Ends : WireInv(f)'
  BY <1>1, <1>2, TakenFacts
<1>4. \A f \in Ends : th'[f] = "reply" => th[f] = "reply"
  BY <1>2, <1>3 DEF TypeOK
<1>5. Known(k) /\ Told(e[2], k)
  BY <1>1, <1>3 DEF Fine, Told, Announces
<1>6. HeldInv(e)'
  <2>1. PICK r, s : r \in Seq(Keys) /\ r = replies[e] /\ s = Append(r, k) /\ s = replies'[e]
    BY <1>2, <1>3 DEF TypeOK
  <2>2. \A i \in DOMAIN s : s[i] = k \/ (i \in DOMAIN r /\ s[i] = r[i] /\ r[i] \in Keys)
    <3>1. \A i \in DOMAIN s : s[i] = k \/ (i \in DOMAIN r /\ s[i] = r[i])
      <4>1. k \in Keys /\ r \in Seq(Keys) /\ s = Append(r, k)
        BY <1>3, <2>1
      <4> QED
        BY <4>1, AppendFacts
    <3> QED
      BY <2>1, <3>1
  <2>3. ASSUME NEW i \in DOMAIN s PROVE Known(s[i])' /\ Told(e[2], s[i])'
    <3>1. PICK x \in Keys : x = s[i] /\ Known(x) /\ Told(e[2], x)
      BY <1>3, <1>5, <2>1, <2>2 DEF Rest, HeldInv
    <3>2. Known(x)' /\ Told(e[2], x)'
      BY <1>3, <3>1, KnownKept
    <3> QED
      BY <3>1, <3>2 DEF Known, Told
  <2>4. asked'[e] # None => e[1][1] # 0 /\ asked'[e].node = e[2]
    BY <1>2 DEF Rest, HeldInv
  <2>5. th'[e] # "reply"
    BY <1>2, <1>3 DEF TypeOK
  <2> QED
    BY <2>1, <2>3, <2>4, <2>5 DEF HeldInv, Known, Told
<1>7. ASSUME NEW f \in Ends, f # e PROVE HeldInv(f)'
  <2>1. replies'[f] = replies[f]
    BY <1>2, <1>3, <1>7 DEF TypeOK
  <2> QED
    BY <1>2, <1>3, <1>4, <2>1, HeldKept DEF Rest
<1> QED
  BY <1>3, <1>6, <1>7 DEF Rest

LEMMA WaitOverRest ==
  ASSUME IInv, Rest, NEW e \in Ends, WaitOver(e)
  PROVE  Rest'
<1>1. /\ th[e] = "wait" /\ asked[e] \in store[e[2]]
      /\ th' = [th EXCEPT ![e] = "reply"]
      /\ UNCHANGED <<store, todo, net, wire, asked, replies>>
  BY DEF WaitOver, appVars, netVars
<1>2. TypeOK
  BY DEF IInv
<1>3. Grows
  BY <1>1, <1>2, GrowsOnWires
<1>4. ASSUME NEW f \in Ends PROVE HeldInv(f)'
  <2>1. CASE f = e
    <3>1. PICK k : k = asked[e]
      OBVIOUS
    <3>2. k # None /\ k.node = e[2] /\ e[1][1] # 0
      BY <1>1, <3>1 DEF IInv, ServeInv, Rest, HeldInv
    <3>3. Known(k)'
      BY <1>1, <3>1, <3>2 DEF Known
    <3> QED
      BY <1>1, <1>2, <1>3, <2>1, <3>1, <3>2, <3>3, HeldChanged DEF Rest
  <2>2. CASE f # e
    <3>1. th'[f] = th[f]
      BY <1>1, <1>2, <2>2 DEF TypeOK
    <3> QED
      BY <1>1, <1>2, <1>3, <3>1, HeldKept DEF Rest
  <2> QED
    BY <2>1, <2>2
<1>5. \A n \in Nodes : NodeInv(n)' /\ StoreInv(n)'
  BY <1>1, <1>2, <1>3, NodeKept, StoreKept DEF Rest
<1>6. \A f \in Ends : WireInv(f)'
  BY <1>1, <1>2, <1>3, WireSame DEF Rest
<1> QED
  BY <1>4, <1>5, <1>6 DEF Rest

\* The controller replies about a descriptor once what it delivers is on the way.
LEMMA SendReplyRest ==
  ASSUME IInv, CInv, NEW e \in Ends, SendReply(e)
  PROVE  Rest'
<1>1. PICK k, m, p, n, h : /\ k = asked[e] /\ m = [type |-> "reply", key |-> k]
                           /\ p = Peer(e) /\ n = e[2] /\ h = p[2]
  OBVIOUS
<1>2. /\ th[e] = "reply" /\ wire' = Sent(wire, e, m)
      /\ asked' = [asked EXCEPT ![e] = None]
      /\ th' = [th EXCEPT ![e] = "poll"]
      /\ UNCHANGED <<store, todo, net, replies>>
  BY <1>1 DEF SendReply, appVars, netVars
<1>3. TypeOK /\ Rest
  BY DEF IInv, CInv, Rest
<1>4. /\ p \in Ends /\ Peer(p) = e /\ p[1] = e[1] /\ h \in Nodes /\ n \in Nodes /\ h # n
      /\ e[1] \in {<<n, h>>, <<h, n>>} /\ p = <<e[1], h>>
  BY <1>1 DEF Peer, Other, Ends, Streams
<1>5. k # None /\ k.node = n /\ e[1][1] # 0 /\ Known(k)
  BY <1>1, <1>2, <1>3 DEF IInv, ServeInv, Rest, HeldInv
<1>6. k \in Keys /\ m \in Message /\ m.type = "reply" /\ m.key = k
  <2>1. k \in Keys
    BY <1>1, <1>3, <1>5 DEF TypeOK
  <2> QED
    BY <1>1, <2>1 DEF Message
<1>7. /\ net[h] = "down" => wire' = wire
      /\ net[h] # "down" => wire'[p] = Append(wire[p], m)
      /\ \A f \in Ends : f # p => wire'[f] = wire[f]
      /\ \A f \in Ends : \A x : OnWire(f, x) => OnWire(f, x)'
  BY <1>1, <1>2, <1>3, <1>6, SentTo
<1>8. Grows
  <2>1. \A w \in Nodes : Pos(w) \in Int /\ Pos(w)' \in Int /\ Pos(w) <= Pos(w)'
    BY <1>2, <1>3, PosSame
  <2> QED
    BY <1>2, <1>7, <2>1 DEF Grows
<1>9. Fine(p, m)'
  <2>1. Known(k)'
    BY <1>5, <1>6, <1>8, KnownKept
  <2>2. Peer(p)[2] = n
    BY <1>1, <1>4
  <2> QED
    BY <1>5, <1>6, <2>1, <2>2 DEF Fine, Peer, Other, Known
<1>10. ASSUME NEW x \in Keys, x.node = h, Announces(m, x), net[h] # "down"
       PROVE  x \in store[h] \/ OnWire(p, x)
  <2>1. Delivers(x, k) /\ h # 0 /\ n = 0 /\ PutBefore(x, k)
    BY <1>5, <1>6, <1>10 DEF Announces, Delivers
  <2>2. k \in store[0]
    BY <1>5, <2>1 DEF Known
  <2>3. PICK w \in Nodes : DonePut(w, k)
    BY <1>3, <1>4, <2>1, <2>2 DEF Rest, StoreInv, Settled
  <2>4. PICK q \in 1 .. Pos(w) : Script[w][q] = Put(k)
    BY <2>3 DEF DonePut
  <2>5. q \in DOMAIN Script[w] /\ q <= Pos(w) + 1
    <3>1. /\ Pos(w) \in Int /\ DOMAIN Script[w] = 1 .. Len(Script[w]) /\ Len(Script[w]) \in Nat
          /\ Len(todo[w]) \in Nat /\ Len(todo[w]) = Len(Script[w]) - Pos(w)
      BY <1>3, PosFacts
    <3> QED
      BY <2>4, <3>1
  <2>6. w = 0
    BY <2>1, <2>4, <2>5 DEF Delivers
  <2>7. Made(0, "put", x)
    BY <1>3, <2>1, <2>4, <2>5, <2>6, PutFirst DEF Rest
  <2>8. p = <<Star(0, h), h>>
    BY <1>4, <1>5, <2>1 DEF Star
  <2> QED
    BY <1>10, <2>1, <2>6, <2>7, <2>8, PlacedFirst
<1>11. ASSUME NEW f \in Ends PROVE WireInv(f)'
  <2>1. CASE f = p /\ net[h] # "down"
    BY <1>1, <1>3, <1>4, <1>5, <1>6, <1>7, <1>8, <1>9, <1>10, <2>1, WireAppended DEF Rest
  <2>2. CASE ~(f = p /\ net[h] # "down")
    BY <1>3, <1>7, <1>8, <2>2, WireSame DEF Rest
  <2> QED
    BY <2>1, <2>2
<1>12. ASSUME NEW f \in Ends PROVE HeldInv(f)'
  <2>1. CASE f = e
    <3>1. asked'[e] = None /\ th'[e] = "poll"
      BY <1>2, <1>3 DEF TypeOK
    <3> QED
      BY <1>2, <1>3, <1>8, <2>1, <3>1, HeldChanged DEF Rest
  <2>2. CASE f # e
    <3>1. th'[f] = th[f] /\ asked'[f] = asked[f]
      BY <1>2, <1>3, <2>2 DEF TypeOK
    <3> QED
      BY <1>2, <1>3, <1>8, <3>1, HeldKept DEF Rest
  <2> QED
    BY <2>1, <2>2
<1>13. \A w \in Nodes : NodeInv(w)' /\ StoreInv(w)'
  BY <1>2, <1>3, <1>8, NodeKept, StoreKept DEF Rest
<1> QED
  BY <1>11, <1>12, <1>13 DEF Rest

----------------------------------------------------------------------------
LEMMA CInit == Init => CInv
<1> SUFFICES ASSUME Init PROVE CInv
  OBVIOUS
<1>1. TypeOK
  BY InitFacts DEF IInv
<1>2. ASSUME NEW n \in Nodes PROVE StarInv(n)
  <2>1. 0 \in Nodes
    BY ClusterAssumption DEF Nodes
  <2>2. n # 0 => conn[n][0] = <<n, 0>> /\ conn[0][n] = <<n, 0>>
    BY <2>1 DEF Init, Registered
  <2>3. app[n] = "ready" /\ net[n] = "serve" /\ backlog[n] = <<>>
    BY DEF Init
  <2> QED
    BY <2>2, <2>3 DEF StarInv
<1>3. ASSUME NEW n \in Nodes PROVE NodeInv(n) /\ StoreInv(n)
  <2>1. todo[n] = Script[n] /\ store[n] = {}
    BY DEF Init
  <2>2. Pos(n) = 0 /\ Len(Script[n]) \in Nat
    <3>1. /\ Pos(n) \in Int /\ Len(Script[n]) \in Nat
          /\ Len(todo[n]) = Len(Script[n]) - Pos(n)
      BY <1>1, PosFacts
    <3> QED
      BY <2>1, <3>1
  <2>3. \A q \in 1 .. 0 : FALSE
    OBVIOUS
  <2>4. \A i \in 1 .. Len(Script[n]) : 0 + i = i
    BY <2>2
  <2> QED
    BY <2>1, <2>2, <2>3, <2>4 DEF NodeInv, StoreInv
<1>4. ASSUME NEW e \in Ends PROVE WireInv(e) /\ HeldInv(e)
  <2>1. wire[e] = <<>> /\ asked[e] = None /\ replies[e] = <<>> /\ th[e] # "reply"
    BY DEF Init
  <2> QED
    BY <2>1 DEF WireInv, HeldInv
<1> QED
  BY <1>2, <1>3, <1>4 DEF CInv

LEMMA CNext ==
  ASSUME Causal, IInv, CInv, [Next]_vars
  PROVE  CInv'
<1>1. TypeOK /\ Rest /\ \A n \in Nodes : StarInv(n)
  BY DEF IInv, CInv, Rest
<1>2. \A n \in Nodes : StarInv(n)'
  BY <1>1, StarNext
<1>3. ASSUME UNCHANGED vars PROVE Rest'
  BY <1>1, <1>3, Quiet DEF vars, appVars, netVars, connVars
<1>4. ASSUME NEW n \in Nodes, App(n) PROVE Rest'
  <2>1. ASSUME NEW x, x \in {"poll"}, NEW y, UNCHANGED <<store, todo, wire, asked, replies, net>>,
               th' = th \/ th' = [th EXCEPT ![y] = x]
        PROVE  Rest'
    <3>1. \A e \in Ends : th'[e] = "reply" => th[e] = "reply"
      BY <1>1, <2>1 DEF TypeOK
    <3> QED
      BY <1>1, <2>1, <3>1, Quiet
  <2>2. CASE Connect(n)
    BY <2>1, <2>2 DEF Connect
  <2>3. CASE Enlist(n)
    BY <2>1, <2>3 DEF Enlist, netVars, connVars
  <2>4. CASE StopNet(n)
    <3>1. /\ UNCHANGED <<store, todo, wire, th, asked, replies>>
          /\ net' = [net EXCEPT ![n] = IF @ = "serve" THEN "last" ELSE @]
      BY <2>4 DEF StopNet, appVars, connVars
    <3>2. \A m \in Nodes : net[m] = "down" => net'[m] = "down"
      BY <1>1, <3>1 DEF TypeOK
    <3> QED
      BY <1>1, <3>1, <3>2, Quiet
  <2> QED
    BY <1>1, <1>4, <2>2, <2>3, <2>4, LocalRest, SendRest, TakeReplyRest DEF App
<1>5. ASSUME NEW n \in Nodes, Net(n) PROVE Rest'
  <2>1. ASSUME UNCHANGED <<store, todo, wire, asked, replies>>,
               NEW x, x \in {"poll", "last"}, NEW y,
               \/ th' = th
               \/ th' = [th EXCEPT ![y] = x]
               \/ th' = [th EXCEPT ![y] = IF @ = "poll" THEN x ELSE @],
               NEW z, net' = [net EXCEPT ![n] = z], net[n] # "down" \/ z = "down"
        PROVE  Rest'
    <3>1. \A e \in Ends : th'[e] = "reply" => th[e] = "reply"
      BY <1>1, <2>1 DEF TypeOK
    <3>2. \A m \in Nodes : net[m] = "down" => net'[m] = "down"
      BY <1>1, <2>1 DEF TypeOK
    <3> QED
      BY <1>1, <2>1, <3>1, <3>2, Quiet
  <2>2. CASE Accept(n)
    <3>1. PICK y : th' = [th EXCEPT ![y] = "poll"]
      BY <2>2 DEF Accept
    <3> QED
      BY <2>1, <2>2, <3>1 DEF Accept, appVars
  <2>3. CASE EnlistAccepted(n)
    BY <2>1, <2>3 DEF EnlistAccepted, appVars, connVars
  <2>4. CASE StopConnection(n)
    <3>1. PICK y : th' = [th EXCEPT ![y] = IF @ = "poll" THEN "last" ELSE @]
      BY <2>4 DEF StopConnection
    <3> QED
      BY <2>1, <2>4, <3>1 DEF StopConnection, appVars
  <2>5. CASE JoinConnection(n)
    BY <2>1, <2>5 DEF JoinConnection, appVars, connVars
  <2>6. CASE Exit(n)
    BY <2>1, <2>6 DEF Exit, appVars, connVars
  <2> QED
    BY <1>1, <1>5, <2>2, <2>3, <2>4, <2>5, <2>6, LeaveLoopRest DEF Net
<1>6. ASSUME NEW e \in Ends, Conn(e) PROVE Rest'
  <2>1. CASE EndThread(e)
    <3>1. /\ UNCHANGED <<store, todo, net, wire, asked, replies>>
          /\ th' = [th EXCEPT ![e] = "gone"]
      BY <2>1 DEF EndThread, appVars, netVars
    <3>2. \A f \in Ends : th'[f] = "reply" => th[f] = "reply"
      BY <1>1, <3>1 DEF TypeOK
    <3> QED
      BY <1>1, <3>1, <3>2, Quiet
  <2> QED
    BY <1>1, <1>6, <2>1, HandlePutRest, HandleRequestRest, WaitOverRest, SendReplyRest,
       HandleReplyRest, HandleKillRest DEF Conn
<1>7. Rest'
  BY <1>3, <1>4, <1>5, <1>6 DEF Next, Stopped
<1> QED
  BY <1>2, <1>7 DEF CInv, Rest

\* A get finds its key.
LEMMA CFinds ==
  ASSUME Causal, IInv, CInv
  PROVE  GetFindsKey
<1>1. TypeOK /\ \A n \in Nodes : NodeInv(n) /\ StoreInv(n)
  BY DEF IInv, CInv
<1>2. ASSUME NEW n \in Nodes, ~Finished(n), Home(n) = n, Cmd(n).type = "get"
      PROVE  Cmd(n).key \in store[n]
  <2>1. PICK k : k = Cmd(n).key
    OBVIOUS
  <2>2. k.node = n /\ k \in Keys
    BY <1>1, <1>2, <2>1, CmdFacts DEF Home
  <2>3. /\ Pos(n) \in Nat /\ Pos(n) + 1 \in DOMAIN Script[n] /\ Script[n][Pos(n) + 1] = Cmd(n)
    BY <1>1, <1>2, NextOperation
  <2>4. PICK j \in 1 .. (Pos(n) + 1) - 1 :
          \/ /\ Script[n][j] = Put(k)
             /\ k.node = n \/ 0 \in {n, k.node}
          \/ /\ Script[n][j].type # "put"
             /\ LET d == Script[n][j].key IN
                  \/ k.node = 0 /\ d.node = 0 /\ PutBefore(k, d)
                  \/ k.node = n /\ Delivers(k, d)
    BY <1>2, <2>1, <2>3 DEF Causal
  <2>5. j \in 1 .. Pos(n)
    BY <2>3, <2>4
  <2>6. PICK d : d = Script[n][j].key
    OBVIOUS
  <2>7. Made(n, Script[n][j].type, d)
    BY <1>1, <2>5, <2>6 DEF NodeInv
  <2>8. CASE Script[n][j] = Put(k)
    <3>1. Script[n][j].type = "put" /\ d = k
      BY <2>6, <2>8 DEF Put
    <3> QED
      BY <2>1, <2>2, <2>7, <3>1 DEF Made, Placed
  <2>9. CASE Script[n][j].type # "put" /\ k.node = 0 /\ d.node = 0 /\ PutBefore(k, d)
    <3>1. d \in store[n] /\ n = 0
      BY <2>2, <2>7, <2>9 DEF Made, Known
    <3> QED
      BY <1>1, <2>1, <2>2, <2>9, <3>1 DEF StoreInv, Settled
  <2>10. CASE Script[n][j].type # "put" /\ Delivers(k, d)
    BY <2>1, <2>2, <2>7, <2>10 DEF Made, Told
  <2> QED
    BY <2>4, <2>6, <2>8, <2>9, <2>10
<1>3. ASSUME NEW e \in Ends, wire[e] # <<>>, Head(wire[e]).type = "get"
      PROVE  Head(wire[e]).key \in store[e[2]]
  <2>1. PICK m, k : m = Head(wire[e]) /\ k = m.key
    OBVIOUS
  <2>2. Fine(e, m) /\ \A x \in Keys : x.node = e[2] /\ Announces(m, x) => x \in store[e[2]]
    BY <1>1, <1>3, <2>1, HeadFacts DEF CInv
  <2>3. k \in Keys
    BY <1>1, <1>3, <2>1, MessageFacts
  <2> QED
    BY <1>3, <2>1, <2>2, <2>3 DEF Fine, Announces
<1> QED
  BY <1>2, <1>3 DEF GetFindsKey

\* In a program that is Causal every get finds its key: whoever learned that a key
\* exists finds its value at its home, the assertion of KVStore::get never fails.
THEOREM GetFindsKeyCorrect ==
  ASSUME Causal
  PROVE  Spec => []GetFindsKey
<1>1. Init => CInv
  BY CInit
<1>2. IInv /\ CInv /\ [Next]_vars => CInv'
  BY CNext
<1>3. IInv /\ CInv => GetFindsKey
  BY CFinds
<1> QED
  BY <1>1, <1>2, <1>3, Invariance, PTL DEF Spec
=============================================================================
