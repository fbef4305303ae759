------------------------- MODULE RegistrationProofs -------------------------
(***************************************************************************)
(* Theorems about Registration.tla, for any number of nodes and any length *)
(* of the listening sockets' queues.                                       *)
(***************************************************************************)
EXTENDS Registration, FiniteSetTheorems, TLAPS

Connected(n)  == net[n] \notin {"off", "bind", "connect"}
Through(n)    == net[n] \in {"finish", "serve"}
Waiting(n)    == \E i \in DOMAIN backlog[0] : backlog[0][i] = <<n, 0>>
Registered(n) == conn[0][n] # None
Complete      == net[0] \in {"broadcast", "finish", "serve"}
Announced(n)  == Complete /\ n \notin left      \* its DIRECTORY is sent

\* Who can be where; a node listens when it is past bind, and the controller
\* listens before any client is launched.
PlaceInv ==
  /\ net[0] \notin {"connect", "register", "directory", "aborted"}
  /\ \A n \in Clients : net[n] \notin {"accept", "recv", "broadcast", "aborted"}
  /\ \A n \in Nodes : /\ n \in bound <=> net[n] \notin {"off", "bind"}
                      /\ keep[n] <=> n \in bound
                      /\ done[n] <=> net[n] = "serve"
  /\ \A n \in Clients : net[n] # "off" => 0 \in bound

\* A client that has connected waits in the backlog, is being registered, or is
\* registered: one of the three.
QueueInv ==
  /\ \A i \in DOMAIN backlog[0] : backlog[0][i][2] = 0
  /\ \A i, j \in DOMAIN backlog[0] : backlog[0][i] = backlog[0][j] => i = j
  /\ cur # None => cur[2] = 0
  /\ \A n \in Clients :
       /\ Connected(n) <=> Waiting(n) \/ cur = <<n, 0>> \/ Registered(n)
       /\ ~(Waiting(n) /\ cur = <<n, 0>>)
       /\ Registered(n) => ~Waiting(n) /\ cur # <<n, 0>>

\* The controller's addresses are those of the registered clients; it goes on when
\* it has all of them.
ControllerInv ==
  /\ peers[0] = {0} \cup {n \in Clients : Registered(n)}
  /\ \A n \in Nodes : Registered(n) => n \in Clients /\ conn[0][n] = <<n, 0>>
  /\ net[0] \in {"accept", "recv"} => peers[0] # Nodes
  /\ Complete => peers[0] = Nodes
  /\ net[0] \in {"finish", "serve"} => \A n \in Clients : <<<<n, 0>>, 0>> \in started
  /\ net[0] # "broadcast" => left = {}

\* What a client has when it is where it is.
ClientInv ==
  \A n \in Clients :
    /\ conn[n][0] = IF Connected(n) THEN <<n, 0>> ELSE None
    /\ \A m \in Clients : conn[n][m] = None
    /\ Through(n) => Announced(n) /\ peers[n] = Nodes /\ <<<<n, 0>>, n>> \in started

\* What is on a client's stream to the controller until its first message has
\* been read, at either end: nothing, or what the reader expects.
WireInv ==
  \A n \in Clients :
    /\ Registered(n) => net[n] \in {"directory", "finish", "serve"}
    /\ ~Registered(n) =>
         wire[<<n, 0>>][0] = IF net[n] = "directory" THEN <<REGISTER(n)>> ELSE <<>>
    /\ ~Announced(n) => wire[<<n, 0>>][n] = <<>>
    /\ Announced(n) /\ net[n] = "directory" =>
         wire[<<n, 0>>][n] # <<>> /\ Head(wire[<<n, 0>>][n]) = DIRECTORY(Nodes)

IInv == TypeOK /\ PlaceInv /\ QueueInv /\ ControllerInv /\ ClientInv /\ WireInv

-----------------------------------------------------------------------------

LEMMA NodeFacts ==
  /\ 0 \in Nodes /\ Nodes = {0} \cup Clients /\ 0 \notin Clients
  /\ \A n \in Clients : <<n, 0>> \in Streams /\ n \in Nodes /\ n # 0 /\ <<n, 0>> # None
  /\ None \notin Streams
BY RegistrationAssumption DEF Nodes, Clients, Streams

\* To have N addresses is to have everyone's.
LEMMA CountNodes ==
  /\ Cardinality(Nodes) = N
  /\ \A S \in SUBSET Nodes : Cardinality(S) = N <=> S = Nodes
  /\ \A S \in SUBSET Nodes : Cardinality(S) < N <=> S # Nodes
<1>1. IsFiniteSet(Nodes) /\ Cardinality(Nodes) = N
  <2>1. 0 \in Int /\ N - 1 \in Int
    BY RegistrationAssumption
  <2>2. IsFiniteSet(0 .. N - 1) /\ Cardinality(0 .. N - 1) = IF 0 > N - 1 THEN 0 ELSE (N - 1) - 0 + 1
    BY <2>1, FS_Interval
  <2>3. QED
    BY <2>2, RegistrationAssumption DEF Nodes
<1>2. ASSUME NEW S \in SUBSET Nodes
      PROVE  /\ Cardinality(S) = N <=> S = Nodes
             /\ Cardinality(S) < N <=> S # Nodes
  <2>1. IsFiniteSet(S) /\ Cardinality(S) <= Cardinality(Nodes)
        /\ (Cardinality(S) = Cardinality(Nodes) => S = Nodes)
    BY <1>1, FS_Subset
  <2>2. Cardinality(S) \in Nat
    BY <2>1, FS_CardinalityType
  <2>3. QED
    BY <1>1, <2>1, <2>2, RegistrationAssumption
<1>3. QED
  BY <1>1, <1>2

\* When the controller has everyone's address, everyone has connected and listens.
LEMMA CompleteAll ==
  ASSUME IInv, Complete
  PROVE  /\ bound = Nodes
         /\ \A n \in Clients : Registered(n) /\ net[n] \in {"directory", "finish", "serve"}
<1>1. \A n \in Clients : Registered(n)
  BY NodeFacts DEF IInv, ControllerInv
<1>2. \A n \in Clients : net[n] \in {"directory", "finish", "serve"}
  BY <1>1 DEF IInv, WireInv
<1>3. \A n \in Clients : n \in bound
  BY <1>2, NodeFacts DEF IInv, PlaceInv
<1>4. 0 \in bound
  BY NodeFacts DEF IInv, PlaceInv, Complete
<1>5. bound \subseteq Nodes
  BY DEF IInv, TypeOK
<1>6. bound = Nodes
  BY <1>3, <1>4, <1>5, NodeFacts
<1>7. QED
  BY <1>1, <1>2, <1>6

LEMMA InvInit == Init => IInv
<1> SUFFICES ASSUME Init PROVE IInv
  OBVIOUS
<1> USE NodeFacts DEF Init
<1>1. TypeOK
  BY RegistrationAssumption DEF TypeOK, Clients
<1>2. PlaceInv
  BY DEF PlaceInv
<1>3. QueueInv
  BY DEF QueueInv, Connected, Waiting, Registered
<1>4. ControllerInv
  BY DEF ControllerInv, Registered, Complete
<1>5. ClientInv
  BY DEF ClientInv, Connected, Through
<1>6. WireInv
  BY DEF WireInv, Registered, Announced, Complete
<1>7. QED
  BY <1>1, <1>2, <1>3, <1>4, <1>5, <1>6 DEF IInv

\* The properties are parts of the invariant.
LEMMA InvHolds == IInv => NoAssertFails /\ HandsOver
<1> SUFFICES ASSUME IInv PROVE NoAssertFails /\ HandsOver
  OBVIOUS
<1> USE NodeFacts
<1>1. NoAssertFails
  BY DEF IInv, PlaceInv, NoAssertFails
<1>2. ASSUME NEW n \in Nodes, done[n]
      PROVE  /\ peers[n] = Nodes /\ bound = Nodes
             /\ \A m \in Nodes :
                  conn[n][m] = (CASE n # m /\ m = 0 -> <<n, 0>> [] n = 0 /\ m # 0 -> <<m, 0>>
                                  [] OTHER -> None)
             /\ \A m \in Nodes : conn[n][m] # None => <<conn[n][m], n>> \in started
  <2>1. net[n] = "serve"
    BY <1>2 DEF IInv, PlaceInv
  <2>2. CASE n = 0
    <3>1. Complete
      BY <2>1, <2>2 DEF Complete
    <3>2. bound = Nodes /\ \A m \in Clients : Registered(m)
      BY <3>1, CompleteAll
    <3>3. \A m \in Clients : conn[0][m] = <<m, 0>> /\ <<conn[0][m], 0>> \in started
      BY <2>1, <2>2, <3>2 DEF IInv, ControllerInv
    <3>4. conn[0][0] = None /\ peers[0] = Nodes
      BY <3>1 DEF IInv, ControllerInv, Registered
    <3>5. QED
      BY <2>2, <3>2, <3>3, <3>4
  <2>3. CASE n \in Clients
    <3>1. Through(n) /\ Connected(n)
      BY <2>1 DEF Through, Connected
    <3>2. Announced(n) /\ peers[n] = Nodes /\ <<<<n, 0>>, n>> \in started
          /\ conn[n][0] = <<n, 0>> /\ \A m \in Clients : conn[n][m] = None
      BY <2>3, <3>1 DEF IInv, ClientInv
    <3>3. bound = Nodes
      BY <3>2, CompleteAll DEF Announced
    <3>4. QED
      BY <2>3, <3>2, <3>3
  <2>4. QED
    BY <2>2, <2>3
<1>3. QED
  BY <1>1, <1>2 DEF HandsOver

-----------------------------------------------------------------------------

LEMMA MessageFacts ==
  /\ \A n \in Nodes : REGISTER(n) \in Message
  /\ \A S \in SUBSET Nodes : DIRECTORY(S) \in Message
  /\ REQUEST \in Message
BY DEF Message, REGISTER, DIRECTORY, REQUEST

\* Nothing on the wires changes but what is on stream s towards n.
OthersKept(s, n) ==
  \A t \in Streams, k \in Nodes : t # s \/ k # n => wire'[t][k] = wire[t][k]

\* What sending and reading a message, and connecting, change.
LEMMA PutFacts ==
  ASSUME TypeOK, NEW s \in Streams, NEW n \in Nodes, NEW m \in Message, Put(s, n, m)
  PROVE  /\ wire' \in [Streams -> [Nodes -> Seq(Message)]]
         /\ wire'[s][n] = Append(wire[s][n], m)
         /\ wire[s][n] # <<>> => wire'[s][n] # <<>> /\ Head(wire'[s][n]) = Head(wire[s][n])
         /\ wire[s][n] = <<>> => wire'[s][n] = <<m>>
         /\ OthersKept(s, n)
<1>1. wire[s][n] \in Seq(Message)
  BY DEF TypeOK
<1> DEFINE q == Append(wire[s][n], m)
<1>2. q \in Seq(Message)
  BY <1>1
<1>3. wire' = [wire EXCEPT ![s][n] = q]
  BY DEF Put
<1>4. /\ wire[s][n] # <<>> => q # <<>> /\ Head(q) = Head(wire[s][n])
      /\ wire[s][n] = <<>> => q = <<m>>
  <2>1. wire[s][n] # <<>> => q # <<>> /\ Head(q) = Head(wire[s][n])
    BY <1>1
  <2>2. Append(<<>>, m) = <<m>>
    OBVIOUS
  <2>3. QED
    BY <2>1, <2>2
<1> HIDE DEF q
<1>5. /\ wire' \in [Streams -> [Nodes -> Seq(Message)]]
      /\ wire'[s][n] = q
      /\ OthersKept(s, n)
  BY <1>2, <1>3 DEF TypeOK, OthersKept
<1>6. QED
  BY <1>4, <1>5 DEF q

LEMMA TakeFacts ==
  ASSUME TypeOK, NEW s \in Streams, NEW n \in Nodes, wire[s][n] # <<>>,
         wire' = [wire EXCEPT ![s][n] = Tail(@)]
  PROVE  /\ wire' \in [Streams -> [Nodes -> Seq(Message)]]
         /\ wire'[s][n] = Tail(wire[s][n])
         /\ Head(wire[s][n]) \in Message
         /\ OthersKept(s, n)
<1>1. wire[s][n] \in Seq(Message)
  BY DEF TypeOK
<1> DEFINE q == Tail(wire[s][n])
<1>2. q \in Seq(Message) /\ Head(wire[s][n]) \in Message
  BY <1>1
<1>3. wire' = [wire EXCEPT ![s][n] = q]
  OBVIOUS
<1> HIDE DEF q
<1>4. /\ wire' \in [Streams -> [Nodes -> Seq(Message)]]
      /\ wire'[s][n] = q
      /\ OthersKept(s, n)
  BY <1>2, <1>3 DEF TypeOK, OthersKept
<1>5. QED
  BY <1>2, <1>4 DEF q

LEMMA ConnectFacts ==
  ASSUME TypeOK, NEW n \in Nodes, NEW m \in Nodes \ {n}, Connect(n, m)
  PROVE  /\ backlog' \in [Nodes -> Seq(Streams)]
         /\ \A k \in Nodes : Len(backlog'[k]) <= Backlog
         /\ backlog'[m] = Append(backlog[m], <<n, m>>)
         /\ \A k \in Nodes : k # m => backlog'[k] = backlog[k]
<1>1. <<n, m>> \in Streams
  BY DEF Streams
<1> DEFINE q == Append(backlog[m], <<n, m>>)
<1>2. backlog[m] \in Seq(Streams) /\ Len(backlog[m]) < Backlog
  BY DEF TypeOK, Connect
<1>3. q \in Seq(Streams) /\ Len(q) <= Backlog
  <2>1. Len(q) = Len(backlog[m]) + 1 /\ Len(backlog[m]) \in Nat
    BY <1>1, <1>2
  <2>2. QED
    BY <1>1, <1>2, <2>1, RegistrationAssumption
<1>4. backlog' = [backlog EXCEPT ![m] = q]
  BY DEF Connect
<1> HIDE DEF q
<1>5. QED
  BY <1>3, <1>4 DEF TypeOK, q

-----------------------------------------------------------------------------

LEMMA LaunchKeeps ==
  ASSUME IInv, NEW n \in Nodes, Launch(n)
  PROVE  IInv'
<1> USE NodeFacts DEF IInv, Launch, Goto, TypeOK
<1>1. TypeOK'
  OBVIOUS
<1>2. PlaceInv'
  BY DEF PlaceInv
<1>3. QueueInv'
  BY DEF QueueInv, Connected, Waiting, Registered
<1>4. ControllerInv'
  BY DEF ControllerInv, Registered, Complete
<1>5. ClientInv'
  BY DEF ClientInv, Connected, Through, Announced, Complete
<1>6. WireInv'
  BY DEF WireInv, Registered, Announced, Complete
<1>7. QED
  BY <1>1, <1>2, <1>3, <1>4, <1>5, <1>6

\* Alone, the controller is ready at once; else nobody is registered when it
\* starts to listen, because nobody has been launched.
LEMMA BindKeeps ==
  ASSUME IInv, NEW n \in Nodes, Bind(n)
  PROVE  IInv'
<1> USE NodeFacts DEF IInv
<1>0. net[n] = "bind" /\ DOMAIN net = Nodes
  BY DEF Bind, TypeOK
<1>1. TypeOK'
  BY DEF Bind, Goto, TypeOK
<1>2. PlaceInv'
  BY DEF Bind, Goto, TypeOK, PlaceInv
<1>3. CASE n \in Clients
  <2>1. N # 1
    BY <1>3, RegistrationAssumption DEF Clients, Nodes
  <2>2. net' = [net EXCEPT ![n] = "connect"]
    BY <1>3, <2>1 DEF Bind, Goto
  <2>3. \A k \in Nodes : /\ Connected(k)' <=> Connected(k)
                         /\ Through(k)' <=> Through(k)
                         /\ net'[k] = "directory" <=> net[k] = "directory"
                         /\ k # n => net'[k] = net[k]
    BY <1>0, <2>2 DEF Connected, Through
  <2>4. net'[0] = net[0]
    BY <1>3, <2>3
  <2>5. /\ backlog' = backlog /\ cur' = cur /\ wire' = wire /\ peers' = peers /\ conn' = conn
        /\ started' = started /\ left' = left /\ done' = done
    BY DEF Bind
  <2>6. QueueInv'
    BY <2>3, <2>5 DEF QueueInv, Waiting, Registered
  <2>7. ControllerInv'
    BY <2>4, <2>5 DEF ControllerInv, Registered, Complete
  <2>8. ClientInv'
    BY <2>3, <2>4, <2>5 DEF ClientInv, Announced, Complete
  <2>9. ~Registered(n)
    BY <1>0, <1>3 DEF WireInv
  <2>10. WireInv'
    BY <2>3, <2>4, <2>5, <2>9 DEF WireInv, Registered, Announced, Complete
  <2>11. QED
    BY <1>1, <1>2, <2>6, <2>7, <2>8, <2>10
<1>4. CASE n = 0
  <2>1. \A k \in Clients : net[k] = "off" /\ net'[k] = "off"
    BY <1>0, <1>4 DEF Bind, Goto, PlaceInv
  <2>2. /\ backlog' = backlog /\ cur' = cur /\ wire' = wire /\ peers' = peers /\ conn' = conn
        /\ started' = started /\ left' = left /\ done' = done
    BY DEF Bind
  <2>3. \A k \in Clients : ~Registered(k)
    BY <2>1 DEF WireInv
  <2>4. peers[0] = {0} /\ left = {}
    BY <1>0, <1>4, <2>3 DEF ControllerInv
  <2>5. QueueInv'
    BY <2>1, <2>2 DEF QueueInv, Connected, Waiting, Registered
  <2>6. ClientInv'
    BY <2>1, <2>2 DEF ClientInv, Connected, Through
  <2>7. \A k \in Clients : wire[<<k, 0>>][k] = <<>> /\ wire[<<k, 0>>][0] = <<>>
    BY <1>0, <1>4, <2>1, <2>3 DEF WireInv, Announced, Complete
  <2>8. WireInv'
    BY <2>1, <2>2, <2>3, <2>7 DEF WireInv, Registered
  <2>9. CASE N = 1
    <3>1. Clients = {} /\ net'[0] = "finish"
      BY <1>0, <1>4, <2>9 DEF Bind, Goto, Clients, Nodes
    <3>2. ControllerInv'
      BY <1>4, <2>2, <2>3, <2>4, <3>1 DEF ControllerInv, Registered, Complete
    <3>3. QED
      BY <1>1, <1>2, <2>5, <2>6, <2>8, <3>2
  <2>10. CASE N # 1
    <3>1. 1 \in Clients /\ net'[0] = "accept"
      BY <1>0, <1>4, <2>10, RegistrationAssumption DEF Bind, Goto, Clients, Nodes
    <3>2. peers'[0] # Nodes
      BY <2>2, <2>4, <3>1
    <3>3. ControllerInv'
      BY <1>0, <1>4, <2>2, <2>4, <3>1, <3>2 DEF ControllerInv, Registered, Complete
    <3>4. QED
      BY <1>1, <1>2, <2>5, <2>6, <2>8, <3>3
  <2>11. QED
    BY <2>9, <2>10
<1>5. QED
  BY <1>3, <1>4

\* The controller listens, and the client queues up behind the others.
LEMMA ConnectKeeps ==
  ASSUME IInv, NEW n \in Clients, ConnectToController(n)
  PROVE  IInv'
<1> USE NodeFacts DEF IInv
<1>1. net[n] = "connect" /\ 0 \in bound /\ Connect(n, 0)
  BY DEF ConnectToController, PlaceInv
<1>2. /\ net' = [net EXCEPT ![n] = "register"]
      /\ conn' = [conn EXCEPT ![n][0] = <<n, 0>>]
  BY <1>1 DEF ConnectToController, Goto
<1>3. /\ keep' = keep /\ bound' = bound /\ cur' = cur /\ wire' = wire /\ peers' = peers
      /\ started' = started /\ left' = left /\ done' = done /\ todo' = todo
  BY DEF ConnectToController
<1>4. /\ net'[n] = "register"
      /\ \A k \in Nodes \ {n} : net'[k] = net[k]
      /\ conn'[n][0] = <<n, 0>> /\ conn'[0] = conn[0]
      /\ \A k \in Nodes, m \in Nodes : k # n \/ m # 0 => conn'[k][m] = conn[k][m]
  BY <1>2 DEF TypeOK
<1>5. /\ backlog' \in [Nodes -> Seq(Streams)]
      /\ \A k \in Nodes : Len(backlog'[k]) <= Backlog
      /\ backlog'[0] = Append(backlog[0], <<n, 0>>)
  BY <1>1, ConnectFacts
<1>6. ~Waiting(n) /\ cur # <<n, 0>> /\ ~Registered(n)
  BY <1>1 DEF QueueInv, Connected
<1>7. TypeOK'
  <2>1. net' \in [Nodes -> {"off", "bind", "connect", "register", "directory", "accept",
                            "recv", "broadcast", "finish", "serve", "aborted"}]
        /\ conn' \in [Nodes -> [Nodes -> Streams \cup {None}]]
    BY <1>2 DEF TypeOK
  <2>2. net'[0] = net[0]
    BY <1>4
  <2>3. QED
    BY <1>3, <1>5, <2>1, <2>2 DEF TypeOK
<1>8. PlaceInv'
  <2>1. net'[0] = net[0]
    BY <1>4
  <2>2. \A k \in Nodes : /\ net'[k] \in {"off", "bind"} <=> net[k] \in {"off", "bind"}
                         /\ net'[k] = "serve" <=> net[k] = "serve"
    BY <1>1, <1>4
  <2>3. \A k \in Clients : net'[k] \notin {"accept", "recv", "broadcast", "aborted"}
    BY <1>4 DEF PlaceInv
  <2>4. QED
    BY <1>1, <1>3, <2>1, <2>2, <2>3 DEF PlaceInv
<1>9. QueueInv'
  <2> DEFINE q == backlog[0]
  <2>1. q \in Seq(Streams)
    BY DEF TypeOK
  <2>2. \A i \in DOMAIN q : q[i] # <<n, 0>>
    BY <1>6 DEF Waiting
  <2>3. /\ DOMAIN backlog'[0] = DOMAIN q \cup {Len(q) + 1} /\ Len(q) + 1 \notin DOMAIN q
        /\ \A i \in DOMAIN q : backlog'[0][i] = q[i]
        /\ backlog'[0][Len(q) + 1] = <<n, 0>>
    BY <1>5, <2>1
  <2> HIDE DEF q
  <2>4. \A i \in DOMAIN backlog'[0] : backlog'[0][i][2] = 0
    BY <2>3 DEF QueueInv, q
  <2>5. \A i, j \in DOMAIN backlog'[0] : backlog'[0][i] = backlog'[0][j] => i = j
    <3>1. \A i, j \in DOMAIN q : q[i] = q[j] => i = j
      BY DEF QueueInv, q
    <3>2. QED
      BY <2>2, <2>3, <3>1
  <2>6. \A k \in Clients : Waiting(k)' <=> Waiting(k) \/ k = n
    BY <2>3 DEF Waiting, q
  <2>7. \A k \in Clients : Registered(k)' <=> Registered(k)
    BY <1>4 DEF Registered
  <2>8. \A k \in Clients : Connected(k)' <=> Connected(k) \/ k = n
    BY <1>1, <1>4 DEF Connected
  <2>9. QED
    BY <1>3, <1>6, <2>4, <2>5, <2>6, <2>7, <2>8 DEF QueueInv
<1>10. ControllerInv'
  BY <1>3, <1>4 DEF ControllerInv, Registered, Complete
<1>11. ClientInv'
  <2>1. \A k \in Clients : Connected(k)' <=> Connected(k) \/ k = n
    BY <1>1, <1>4 DEF Connected
  <2>2. \A k \in Clients : Through(k)' => Through(k)
    BY <1>1, <1>4 DEF Through
  <2>3. \A k \in Clients : Announced(k)' <=> Announced(k)
    BY <1>3, <1>4 DEF Announced, Complete
  <2>4. ASSUME NEW k \in Clients
        PROVE  /\ conn'[k][0] = IF Connected(k)' THEN <<k, 0>> ELSE None
               /\ \A m \in Clients : conn'[k][m] = None
               /\ Through(k)' => Announced(k)' /\ peers'[k] = Nodes /\ <<<<k, 0>>, k>> \in started'
    <3>1. conn'[k][0] = IF Connected(k)' THEN <<k, 0>> ELSE None
      <4>1. conn[k][0] = IF Connected(k) THEN <<k, 0>> ELSE None
        BY DEF ClientInv
      <4>2. CASE k = n
        BY <1>4, <2>1, <4>2
      <4>3. CASE k # n
        BY <1>4, <2>1, <4>1, <4>3
      <4>4. QED
        BY <4>2, <4>3
    <3>2. ASSUME NEW m \in Clients
          PROVE  conn'[k][m] = None
      <4>1. conn[k][m] = None
        BY DEF ClientInv
      <4>2. k \in Nodes /\ m \in Nodes /\ m # 0
        OBVIOUS
      <4>3. QED
        BY <1>4, <4>1, <4>2
    <3>3. QED
      BY <1>3, <2>2, <2>3, <3>1, <3>2 DEF ClientInv
  <2>5. QED
    BY <2>4 DEF ClientInv
<1>12. WireInv'
  <2>1. \A k \in Clients : /\ Registered(k)' <=> Registered(k)
                           /\ Announced(k)' <=> Announced(k)
                           /\ net'[k] = "directory" <=> net[k] = "directory"
                           /\ k # n => net'[k] = net[k]
    BY <1>1, <1>3, <1>4 DEF Registered, Announced, Complete
  <2>2. QED
    BY <1>3, <1>6, <2>1 DEF WireInv
<1>13. QED
  BY <1>7, <1>8, <1>9, <1>10, <1>11, <1>12

\* The first message to the controller is the REGISTER, whenever it is read.
LEMMA SendRegisterKeeps ==
  ASSUME IInv, NEW n \in Clients, SendRegister(n)
  PROVE  IInv'
<1> USE NodeFacts DEF IInv
<1>1. net[n] = "register" /\ net' = [net EXCEPT ![n] = "directory"]
  BY DEF SendRegister, Goto
<1>2. /\ keep' = keep /\ bound' = bound /\ backlog' = backlog /\ cur' = cur /\ peers' = peers
      /\ conn' = conn /\ started' = started /\ left' = left /\ done' = done /\ todo' = todo
  BY DEF SendRegister
<1>3. net'[n] = "directory" /\ \A k \in Nodes \ {n} : net'[k] = net[k]
  BY <1>1 DEF TypeOK
<1>4. ~Registered(n) /\ ~Announced(n)
  <2>1. ~Registered(n)
    BY <1>1 DEF WireInv
  <2>2. ~Complete
    BY <2>1, CompleteAll
  <2>3. QED
    BY <2>1, <2>2 DEF Announced
<1>5. wire[<<n, 0>>][0] = <<>>
  BY <1>1, <1>4 DEF WireInv
<1>6. Put(<<n, 0>>, 0, REGISTER(n)) /\ <<n, 0>> \in Streams /\ REGISTER(n) \in Message
  BY MessageFacts DEF SendRegister
<1>7. /\ wire' \in [Streams -> [Nodes -> Seq(Message)]]
      /\ wire'[<<n, 0>>][0] = <<REGISTER(n)>>
      /\ \A t \in Streams, k \in Nodes : t # <<n, 0>> \/ k # 0 => wire'[t][k] = wire[t][k]
  <2> DEFINE s == <<n, 0>>
             m == REGISTER(n)
  <2>1. s \in Streams /\ m \in Message /\ 0 \in Nodes /\ Put(s, 0, m) /\ wire[s][0] = <<>>
    BY <1>5, <1>6
  <2> HIDE DEF s, m
  <2>2. /\ wire' \in [Streams -> [Nodes -> Seq(Message)]]
        /\ wire'[s][0] = <<m>>
        /\ OthersKept(s, 0)
    BY <2>1, PutFacts
  <2>3. QED
    BY <2>2 DEF s, m, OthersKept
<1>8. TypeOK'
  BY <1>1, <1>2, <1>3, <1>7 DEF TypeOK
<1>9. PlaceInv'
  BY <1>1, <1>2, <1>3 DEF PlaceInv
<1>10. QueueInv'
  BY <1>1, <1>2, <1>3 DEF QueueInv, Connected, Waiting, Registered
<1>11. ControllerInv'
  BY <1>2, <1>3 DEF ControllerInv, Registered, Complete
<1>12. ClientInv'
  BY <1>1, <1>2, <1>3 DEF ClientInv, Connected, Through, Announced, Complete
<1>13. WireInv'
  <2>1. ASSUME NEW k \in Clients
        PROVE  /\ Registered(k)' <=> Registered(k)
               /\ Announced(k)' <=> Announced(k)
    BY <1>2, <1>3 DEF Registered, Announced, Complete
  <2>2. ASSUME NEW k \in Clients
        PROVE  /\ wire'[<<k, 0>>][k] = wire[<<k, 0>>][k]
               /\ k # n => wire'[<<k, 0>>][0] = wire[<<k, 0>>][0]
    BY <1>7
  <2>3. QED
    BY <1>3, <1>4, <1>7, <2>1, <2>2 DEF WireInv
<1>14. QED
  BY <1>8, <1>9, <1>10, <1>11, <1>12, <1>13

\* What a client awaiting it finds on its stream is the DIRECTORY of all nodes.
LEMMA HandleDirectoryKeeps ==
  ASSUME IInv, NEW n \in Clients, HandleDirectory(n)
  PROVE  IInv'
<1> USE NodeFacts DEF IInv
<1>1. net[n] = "directory" /\ wire[<<n, 0>>][n] # <<>>
  BY DEF HandleDirectory
<1>2. Announced(n) /\ Head(wire[<<n, 0>>][n]) = DIRECTORY(Nodes)
  BY <1>1 DEF WireInv
<1>3. Head(wire[<<n, 0>>][n]).type = "DIRECTORY" /\ Head(wire[<<n, 0>>][n]).nodes = Nodes
      /\ Cardinality(Nodes) = N
  BY <1>2, CountNodes DEF DIRECTORY
<1>4. /\ wire' = [wire EXCEPT ![<<n, 0>>][n] = Tail(@)]
      /\ peers' = [peers EXCEPT ![n] = @ \cup Nodes]
      /\ started' = started \cup {<<<<n, 0>>, n>>}
      /\ net' = [net EXCEPT ![n] = "finish"]
  BY <1>3 DEF HandleDirectory, Goto
<1>5. /\ keep' = keep /\ bound' = bound /\ backlog' = backlog /\ cur' = cur
      /\ conn' = conn /\ left' = left /\ done' = done /\ todo' = todo
  BY DEF HandleDirectory
<1>6. /\ net'[n] = "finish" /\ \A k \in Nodes \ {n} : net'[k] = net[k]
      /\ peers'[n] = Nodes /\ \A k \in Nodes \ {n} : peers'[k] = peers[k]
  BY <1>4 DEF TypeOK
<1>7. /\ wire' \in [Streams -> [Nodes -> Seq(Message)]]
      /\ \A t \in Streams, k \in Nodes : t # <<n, 0>> \/ k # n => wire'[t][k] = wire[t][k]
  <2> DEFINE s == <<n, 0>>
  <2>1. s \in Streams /\ n \in Nodes /\ wire[s][n] # <<>>
        /\ wire' = [wire EXCEPT ![s][n] = Tail(@)]
    BY <1>1, <1>4
  <2> HIDE DEF s
  <2>2. /\ wire' \in [Streams -> [Nodes -> Seq(Message)]]
        /\ OthersKept(s, n)
    BY <2>1, TakeFacts
  <2>3. QED
    BY <2>2 DEF s, OthersKept
<1>8. TypeOK'
  <2>1. net' \in [Nodes -> {"off", "bind", "connect", "register", "directory", "accept",
                            "recv", "broadcast", "finish", "serve", "aborted"}]
        /\ peers' \in [Nodes -> SUBSET Nodes]
    BY <1>4 DEF TypeOK
  <2>2. started' \subseteq Streams \X Nodes /\ net'[0] = net[0]
    <3>1. started \subseteq Streams \X Nodes
      BY DEF TypeOK
    <3>2. <<<<n, 0>>, n>> \in Streams \X Nodes
      OBVIOUS
    <3>3. started' \subseteq Streams \X Nodes
      BY <1>4, <3>1, <3>2
    <3>4. net'[0] = net[0]
      BY <1>6
    <3>5. QED
      BY <3>3, <3>4
  <2>3. QED
    BY <1>5, <1>7, <2>1, <2>2 DEF TypeOK
<1>9. PlaceInv'
  BY <1>1, <1>5, <1>6 DEF PlaceInv
<1>10. QueueInv'
  BY <1>1, <1>5, <1>6 DEF QueueInv, Connected, Waiting, Registered
<1>11. ControllerInv'
  BY <1>4, <1>5, <1>6 DEF ControllerInv, Registered, Complete
<1>12. \A k \in Clients : /\ Registered(k)' <=> Registered(k)
                          /\ Announced(k)' <=> Announced(k)
                          /\ Connected(k)' <=> Connected(k)
                          /\ Through(k)' <=> Through(k) \/ k = n
  BY <1>1, <1>5, <1>6 DEF Registered, Announced, Complete, Connected, Through
<1>13. ClientInv'
  <2>1. ASSUME NEW k \in Clients
        PROVE  Through(k)' => Announced(k)' /\ peers'[k] = Nodes /\ <<<<k, 0>>, k>> \in started'
    <3>1. CASE k = n
      BY <1>2, <1>4, <1>6, <1>12, <3>1
    <3>2. CASE k # n
      <4>1. Through(k) => Announced(k) /\ peers[k] = Nodes /\ <<<<k, 0>>, k>> \in started
        BY DEF ClientInv
      <4>2. peers'[k] = peers[k] /\ started \subseteq started'
        BY <1>4, <1>6, <3>2
      <4>3. QED
        BY <1>12, <3>2, <4>1, <4>2
    <3>3. QED
      BY <3>1, <3>2
  <2>2. QED
    BY <1>5, <1>12, <2>1 DEF ClientInv
<1>14. WireInv'
  <2>1. Registered(n)
    BY <1>2, CompleteAll DEF Announced
  <2>2. ASSUME NEW k \in Clients
        PROVE  /\ k # n => wire'[<<k, 0>>][k] = wire[<<k, 0>>][k]
               /\ wire'[<<k, 0>>][0] = wire[<<k, 0>>][0]
    BY <1>7
  <2>3. QED
    BY <1>2, <1>6, <1>12, <2>1, <2>2 DEF WireInv
<1>15. QED
  BY <1>8, <1>9, <1>10, <1>11, <1>13, <1>14

\* The stream at the head of the backlog is the one being registered.
LEMMA AcceptKeeps ==
  ASSUME IInv, AcceptClient
  PROVE  IInv'
<1> USE NodeFacts DEF IInv
<1> DEFINE q == backlog[0]
<1>1. net[0] = "accept" /\ q # <<>> /\ cur' = Head(q) /\ backlog'[0] = Tail(q)
      /\ backlog' = [backlog EXCEPT ![0] = Tail(q)]
      /\ net' = [net EXCEPT ![0] = "recv"]
  BY DEF AcceptClient, Goto, TypeOK
<1>2. /\ keep' = keep /\ bound' = bound /\ wire' = wire /\ peers' = peers /\ conn' = conn
      /\ started' = started /\ left' = left /\ done' = done /\ todo' = todo
  BY DEF AcceptClient
<1>3. net'[0] = "recv" /\ \A k \in Clients : net'[k] = net[k]
  BY <1>1 DEF TypeOK
<1>4. q \in Seq(Streams) /\ Len(q) <= Backlog /\ Len(q) \in Nat \ {0} /\ Backlog \in Nat
      /\ DOMAIN q = 1 .. Len(q)
  BY <1>1, RegistrationAssumption DEF TypeOK
<1>5. /\ Head(q) = q[1] /\ q[1] \in Streams /\ Tail(q) \in Seq(Streams) /\ 1 \in DOMAIN q
      /\ DOMAIN Tail(q) = 1 .. Len(q) - 1 /\ Len(Tail(q)) = Len(q) - 1
      /\ \A i \in 1 .. Len(q) - 1 : Tail(q)[i] = q[i + 1] /\ i + 1 \in DOMAIN q /\ i + 1 # 1
  BY <1>1, <1>4
<1>6. cur = None
  BY <1>1 DEF TypeOK
<1>7. q[1][2] = 0 /\ q[1] # None
  BY <1>5 DEF QueueInv
<1>8. \A i, j \in DOMAIN q : q[i] = q[j] => i = j
  BY DEF QueueInv
<1>9. TypeOK'
  <2>1. Len(Tail(q)) <= Backlog
    BY <1>4, <1>5
  <2>2. backlog' \in [Nodes -> Seq(Streams)] /\ \A n \in Nodes : Len(backlog'[n]) <= Backlog
    BY <1>1, <1>5, <2>1 DEF TypeOK
  <2>3. net' \in [Nodes -> {"off", "bind", "connect", "register", "directory", "accept",
                            "recv", "broadcast", "finish", "serve", "aborted"}]
    BY <1>1 DEF TypeOK
  <2>4. cur' \in Streams \cup {None} /\ (cur' # None <=> net'[0] = "recv")
    BY <1>1, <1>3, <1>5, <1>7
  <2>5. QED
    BY <1>2, <2>2, <2>3, <2>4 DEF TypeOK
<1>10. PlaceInv'
  BY <1>1, <1>2, <1>3 DEF PlaceInv
<1>11. QueueInv'
  <2>1. ASSUME NEW k \in Clients
        PROVE  /\ Waiting(k) <=> Waiting(k)' \/ cur' = <<k, 0>>
               /\ ~(Waiting(k)' /\ cur' = <<k, 0>>)
    <3>1. Waiting(k) <=> \E i \in 1 .. Len(q) : q[i] = <<k, 0>>
      BY <1>4 DEF Waiting
    <3>2. Waiting(k)' <=> \E i \in 1 .. Len(q) - 1 : q[i + 1] = <<k, 0>>
      BY <1>1, <1>5 DEF Waiting
    <3>3. (\E i \in 1 .. Len(q) : q[i] = <<k, 0>>)
            <=> q[1] = <<k, 0>> \/ \E i \in 1 .. Len(q) - 1 : q[i + 1] = <<k, 0>>
      <4>1. \A i \in 1 .. Len(q) : i = 1 \/ (i - 1 \in 1 .. Len(q) - 1 /\ (i - 1) + 1 = i)
        BY <1>4
      <4>2. QED
        BY <1>4, <1>5, <4>1
    <3>4. ~(q[1] = <<k, 0>> /\ \E i \in 1 .. Len(q) - 1 : q[i + 1] = <<k, 0>>)
      BY <1>5, <1>8
    <3>5. QED
      BY <1>1, <1>5, <3>1, <3>2, <3>3, <3>4
  <2>2. \A k \in Clients : (Connected(k)' <=> Connected(k)) /\ (Registered(k)' <=> Registered(k))
    BY <1>2, <1>3 DEF Connected, Registered
  <2>3. \A i \in DOMAIN Tail(q) : Tail(q)[i][2] = 0
    BY <1>5 DEF QueueInv
  <2>4. \A i, j \in DOMAIN Tail(q) : Tail(q)[i] = Tail(q)[j] => i = j
    <3>1. ASSUME NEW i \in 1 .. Len(q) - 1, NEW j \in 1 .. Len(q) - 1, Tail(q)[i] = Tail(q)[j]
          PROVE  i = j
      <4>1. i + 1 = j + 1
        BY <1>5, <1>8, <3>1
      <4>2. QED
        BY <4>1
    <3>2. QED
      BY <1>5, <3>1
  <2>5. ASSUME NEW k \in Clients
        PROVE  /\ Connected(k)' <=> Waiting(k)' \/ cur' = <<k, 0>> \/ Registered(k)'
               /\ ~(Waiting(k)' /\ cur' = <<k, 0>>)
               /\ Registered(k)' => ~Waiting(k)' /\ cur' # <<k, 0>>
    <3>1. /\ Connected(k) <=> Waiting(k) \/ Registered(k)
          /\ Registered(k) => ~Waiting(k)
      BY <1>6 DEF QueueInv
    <3>2. QED
      BY <2>1, <2>2, <3>1
  <2>6. cur'[2] = 0
    BY <1>1, <1>5, <1>7
  <2>7. QED
    BY <1>1, <2>3, <2>4, <2>5, <2>6 DEF QueueInv
<1>12. ControllerInv'
  BY <1>1, <1>2, <1>3 DEF ControllerInv, Registered, Complete
<1>13. ClientInv'
  BY <1>1, <1>2, <1>3 DEF ClientInv, Connected, Through, Announced, Complete
<1>14. WireInv'
  BY <1>1, <1>2, <1>3 DEF WireInv, Registered, Announced, Complete
<1>15. QED
  BY <1>9, <1>10, <1>11, <1>12, <1>13, <1>14

\* What the controller finds on the stream it accepted is its client's REGISTER;
\* the last one completes the addresses.
LEMMA HandleRegisterKeeps ==
  ASSUME IInv, HandleRegister
  PROVE  IInv'
<1> USE NodeFacts DEF IInv
<1>1. net[0] = "recv" /\ cur \in Streams /\ wire[cur][0] # <<>>
  BY DEF HandleRegister, Register, TypeOK
<1>2. PICK n \in Clients : cur = <<n, 0>>
  <2>1. cur[2] = 0 /\ cur \in Nodes \X Nodes /\ cur[1] # cur[2]
    BY <1>1 DEF QueueInv, Streams
  <2>2. cur = <<cur[1], 0>> /\ cur[1] \in Clients
    BY <2>1 DEF Clients
  <2>3. QED
    BY <2>2
<1>3. Connected(n) /\ ~Waiting(n) /\ ~Registered(n)
  BY <1>2 DEF QueueInv
<1>4. net[n] = "directory" /\ wire[<<n, 0>>][0] = <<REGISTER(n)>>
  BY <1>1, <1>2, <1>3 DEF WireInv
<1>5. Head(wire[cur][0]).type = "REGISTER" /\ Head(wire[cur][0]).nodes = {n}
  BY <1>2, <1>4 DEF REGISTER
<1> DEFINE ps == peers[0] \cup {n}
           cs == [conn[0] EXCEPT ![n] = <<n, 0>>]
<1>6. /\ wire' = [wire EXCEPT ![<<n, 0>>][0] = Tail(@)]
      /\ cur' = None
      /\ peers' = [peers EXCEPT ![0] = ps]
      /\ conn' = [conn EXCEPT ![0] = cs]
      /\ IF Cardinality(peers'[0]) < N
         THEN Goto(0, "accept") /\ UNCHANGED left
         ELSE Goto(0, "broadcast") /\ left' = Linked(conn'[0])
  BY <1>2, <1>5 DEF HandleRegister, Register, Enter
<1>7. /\ keep' = keep /\ bound' = bound /\ backlog' = backlog /\ started' = started
      /\ done' = done /\ todo' = todo
  BY DEF HandleRegister, Register
<1>8. peers[0] \in SUBSET Nodes /\ ps \in SUBSET Nodes /\ cs \in [Nodes -> Streams \cup {None}]
  BY DEF TypeOK
<1>9. /\ peers'[0] = ps /\ \A k \in Clients : peers'[k] = peers[k]
      /\ peers' \in [Nodes -> SUBSET Nodes]
  BY <1>6, <1>8 DEF TypeOK
<1>10. /\ conn'[0] = cs /\ \A k \in Clients : conn'[k] = conn[k]
       /\ conn' \in [Nodes -> [Nodes -> Streams \cup {None}]]
  BY <1>6, <1>8 DEF TypeOK
<1>11. cs[n] = <<n, 0>> /\ \A k \in Nodes \ {n} : cs[k] = conn[0][k]
  BY DEF TypeOK
<1> HIDE DEF ps, cs
<1>12. \A k \in Clients : /\ Registered(k)' <=> Registered(k) \/ k = n
                          /\ Registered(k)' => conn'[0][k] = <<k, 0>>
  <2>1. ASSUME NEW k \in Clients
        PROVE  /\ Registered(k)' <=> Registered(k) \/ k = n
               /\ Registered(k)' => conn'[0][k] = <<k, 0>>
    <3>1. CASE k = n
      BY <1>10, <1>11, <3>1 DEF Registered
    <3>2. CASE k # n
      <4>1. conn'[0][k] = conn[0][k]
        BY <1>10, <1>11, <3>2
      <4>2. conn[0][k] # None => conn[0][k] = <<k, 0>>
        BY DEF ControllerInv, Registered
      <4>3. QED
        BY <3>2, <4>1, <4>2 DEF Registered
    <3>3. QED
      BY <3>1, <3>2
  <2>2. QED
    BY <2>1
<1>13. /\ wire' \in [Streams -> [Nodes -> Seq(Message)]]
       /\ \A t \in Streams, k \in Nodes : t # <<n, 0>> \/ k # 0 => wire'[t][k] = wire[t][k]
  <2> DEFINE s == <<n, 0>>
  <2>1. s \in Streams /\ 0 \in Nodes /\ wire[s][0] # <<>>
        /\ wire' = [wire EXCEPT ![s][0] = Tail(@)]
    BY <1>1, <1>2, <1>6
  <2> HIDE DEF s
  <2>2. wire' \in [Streams -> [Nodes -> Seq(Message)]] /\ OthersKept(s, 0)
    BY <2>1, TakeFacts
  <2>3. QED
    BY <2>2 DEF s, OthersKept
<1>14. \A k \in Clients : ~Announced(k)
  BY <1>1 DEF Announced, Complete
<1>15. /\ net' \in [Nodes -> {"off", "bind", "connect", "register", "directory", "accept",
                             "recv", "broadcast", "finish", "serve", "aborted"}]
       /\ \A k \in Clients : net'[k] = net[k]
       /\ \/ net'[0] = "accept" /\ peers'[0] # Nodes /\ left' = left
          \/ net'[0] = "broadcast" /\ peers'[0] = Nodes /\ left' = Linked(cs)
  <2>1. Cardinality(peers'[0]) < N <=> peers'[0] # Nodes
    BY <1>8, <1>9, CountNodes
  <2>2. net \in [Nodes -> {"off", "bind", "connect", "register", "directory", "accept",
                           "recv", "broadcast", "finish", "serve", "aborted"}]
    BY DEF TypeOK
  <2>3. CASE peers'[0] # Nodes
    <3>1. net' = [net EXCEPT ![0] = "accept"] /\ left' = left
      BY <1>6, <2>1, <2>3 DEF Goto
    <3>2. QED
      BY <2>2, <2>3, <3>1
  <2>4. CASE peers'[0] = Nodes
    <3>1. net' = [net EXCEPT ![0] = "broadcast"] /\ left' = Linked(cs)
      BY <1>6, <1>10, <2>1, <2>4 DEF Goto
    <3>2. QED
      BY <2>2, <2>4, <3>1
  <2>5. QED
    BY <2>3, <2>4
<1>16. left = {} /\ Linked(cs) = {k \in Clients : Registered(k)'}
  <2>1. left = {}
    BY <1>1 DEF ControllerInv
  <2>2. cs[0] = None
    BY <1>11 DEF ControllerInv, Registered
  <2>3. QED
    BY <1>10, <2>1, <2>2 DEF Linked, Registered
<1>17. TypeOK'
  <2>1. left' \subseteq Clients
    BY <1>15, <1>16
  <2>2. cur' \in Streams \cup {None} /\ (cur' # None <=> net'[0] = "recv")
    BY <1>6, <1>15
  <2>3. QED
    BY <1>7, <1>9, <1>10, <1>13, <1>15, <2>1, <2>2 DEF TypeOK
<1>18. PlaceInv'
  BY <1>1, <1>7, <1>15 DEF PlaceInv
<1>19. \A k \in Clients : /\ Connected(k)' <=> Connected(k)
                          /\ Waiting(k)' <=> Waiting(k)
                          /\ Through(k)' <=> Through(k)
  BY <1>7, <1>15 DEF Connected, Waiting, Through
<1>20. QueueInv'
  <2>1. ASSUME NEW k \in Clients
        PROVE  /\ Connected(k)' <=> Waiting(k)' \/ cur' = <<k, 0>> \/ Registered(k)'
               /\ ~(Waiting(k)' /\ cur' = <<k, 0>>)
               /\ Registered(k)' => ~Waiting(k)' /\ cur' # <<k, 0>>
    <3>1. cur' = None /\ (cur = <<k, 0>> <=> k = n)
      BY <1>2, <1>6
    <3>2. QED
      BY <1>12, <1>19, <3>1 DEF QueueInv
  <2>2. QED
    BY <1>6, <1>7, <2>1 DEF QueueInv
<1>21. peers'[0] = {0} \cup {k \in Clients : Registered(k)'}
  BY <1>9, <1>12 DEF ControllerInv, ps
<1>22. ControllerInv'
  <2>1. \A k \in Nodes : Registered(k)' => k \in Clients /\ conn'[0][k] = <<k, 0>>
    <3>1. ~Registered(0)'
      BY <1>10, <1>11 DEF Registered, ControllerInv
    <3>2. QED
      BY <1>12, <3>1
  <2>2. net'[0] # "broadcast" => left' = {}
    BY <1>15, <1>16
  <2>3. Complete' => peers'[0] = Nodes
    BY <1>15 DEF Complete
  <2>4. net'[0] \in {"accept", "recv"} => peers'[0] # Nodes
    BY <1>15
  <2>5. net'[0] \notin {"finish", "serve"}
    BY <1>15
  <2>6. QED
    BY <1>21, <2>1, <2>2, <2>3, <2>4, <2>5 DEF ControllerInv
<1>23. ClientInv'
  <2>1. \A k \in Clients : ~Through(k)
    BY <1>14 DEF ClientInv
  <2>2. ASSUME NEW k \in Clients
        PROVE  /\ conn'[k][0] = IF Connected(k)' THEN <<k, 0>> ELSE None
               /\ \A m \in Clients : conn'[k][m] = None
               /\ ~Through(k)'
    <3>1. conn'[k] = conn[k] /\ (Connected(k)' <=> Connected(k)) /\ ~Through(k)'
      BY <1>10, <1>19, <2>1
    <3>2. /\ conn[k][0] = IF Connected(k) THEN <<k, 0>> ELSE None
          /\ \A m \in Clients : conn[k][m] = None
      BY DEF ClientInv
    <3>3. QED
      BY <3>1, <3>2
  <2>3. QED
    BY <2>2 DEF ClientInv
<1>24. \A k \in Clients : ~Announced(k)'
  <2>1. CASE net'[0] = "accept"
    BY <2>1 DEF Announced, Complete
  <2>2. CASE peers'[0] = Nodes /\ left' = Linked(cs)
    BY <1>16, <1>21, <2>2 DEF Announced
  <2>3. QED
    BY <1>15, <2>1, <2>2
<1>25. WireInv'
  <2>1. ASSUME NEW k \in Clients
        PROVE  /\ wire'[<<k, 0>>][k] = wire[<<k, 0>>][k]
               /\ k # n => wire'[<<k, 0>>][0] = wire[<<k, 0>>][0]
    BY <1>13
  <2>2. QED
    BY <1>4, <1>12, <1>14, <1>15, <1>24, <2>1 DEF WireInv
<1>26. QED
  BY <1>17, <1>18, <1>20, <1>22, <1>23, <1>25

\* A client's first message from the controller is the DIRECTORY.
LEMMA SendDirectoryKeeps ==
  ASSUME IInv, NEW i \in left, SendDirectory(i)
  PROVE  IInv'
<1> USE NodeFacts DEF IInv
<1>1. net[0] = "broadcast" /\ i \in Clients /\ Complete
  BY DEF SendDirectory, TypeOK, Complete
<1>2. /\ net' = net /\ keep' = keep /\ bound' = bound /\ backlog' = backlog /\ cur' = cur
      /\ peers' = peers /\ conn' = conn /\ started' = started /\ done' = done /\ todo' = todo
      /\ left' = left \ {i}
  BY DEF SendDirectory
<1>3. peers[0] = Nodes /\ conn[0][i] = <<i, 0>>
  BY <1>1, CompleteAll DEF ControllerInv
<1>4. Put(<<i, 0>>, i, DIRECTORY(Nodes)) /\ DIRECTORY(Nodes) \in Message
  BY <1>3, MessageFacts DEF SendDirectory
<1>5. wire[<<i, 0>>][i] = <<>>
  BY <1>1 DEF WireInv, Announced
<1>6. /\ wire' \in [Streams -> [Nodes -> Seq(Message)]]
      /\ wire'[<<i, 0>>][i] = <<DIRECTORY(Nodes)>>
      /\ \A t \in Streams, k \in Nodes : t # <<i, 0>> \/ k # i => wire'[t][k] = wire[t][k]
  <2> DEFINE s == <<i, 0>>
             m == DIRECTORY(Nodes)
  <2>1. s \in Streams /\ m \in Message /\ i \in Nodes /\ Put(s, i, m) /\ wire[s][i] = <<>>
    BY <1>1, <1>4, <1>5
  <2> HIDE DEF s, m
  <2>2. /\ wire' \in [Streams -> [Nodes -> Seq(Message)]]
        /\ wire'[s][i] = <<m>>
        /\ OthersKept(s, i)
    BY <2>1, PutFacts
  <2>3. QED
    BY <2>2 DEF s, m, OthersKept
<1>7. TypeOK'
  BY <1>2, <1>6 DEF TypeOK
<1>8. PlaceInv'
  BY <1>2 DEF PlaceInv
<1>9. QueueInv'
  BY <1>2 DEF QueueInv, Connected, Waiting, Registered
<1>10. ControllerInv'
  BY <1>1, <1>2 DEF ControllerInv, Registered, Complete
<1>11. \A k \in Clients : Announced(k)' <=> Announced(k) \/ k = i
  BY <1>1, <1>2 DEF Announced, Complete
<1>12. ClientInv'
  BY <1>2, <1>11 DEF ClientInv, Connected, Through
<1>13. WireInv'
  <2>1. ASSUME NEW k \in Clients
        PROVE  /\ k # i => wire'[<<k, 0>>][k] = wire[<<k, 0>>][k]
               /\ wire'[<<k, 0>>][0] = wire[<<k, 0>>][0]
    BY <1>1, <1>6
  <2>2. <<DIRECTORY(Nodes)>> # <<>> /\ Head(<<DIRECTORY(Nodes)>>) = DIRECTORY(Nodes)
    OBVIOUS
  <2>3. QED
    BY <1>2, <1>6, <1>11, <2>1, <2>2 DEF WireInv, Registered
<1>14. QED
  BY <1>7, <1>8, <1>9, <1>10, <1>12, <1>13

LEMMA StartKeeps ==
  ASSUME IInv, StartConnections
  PROVE  IInv'
<1> USE NodeFacts DEF IInv
<1>1. net[0] = "broadcast" /\ left = {} /\ Complete
  BY DEF StartConnections, Complete
<1>2. /\ keep' = keep /\ bound' = bound /\ backlog' = backlog /\ cur' = cur /\ wire' = wire
      /\ peers' = peers /\ conn' = conn /\ left' = left /\ done' = done /\ todo' = todo
      /\ net' = [net EXCEPT ![0] = "finish"]
      /\ started' = started \cup {<<conn[0][k], 0>> : k \in Linked(conn[0])}
  BY DEF StartConnections, Goto
<1>3. net'[0] = "finish" /\ \A k \in Clients : net'[k] = net[k]
  BY <1>2 DEF TypeOK
<1>4. \A k \in Clients : conn[0][k] = <<k, 0>>
  BY <1>1, CompleteAll DEF ControllerInv
<1>5. conn[0][0] = None
  BY DEF ControllerInv, Registered
<1>6. Linked(conn[0]) = Clients
  BY <1>4, <1>5 DEF Linked
<1>7. started' = started \cup {<<<<k, 0>>, 0>> : k \in Clients}
  BY <1>2, <1>4, <1>6
<1>8. TypeOK'
  <2>1. started' \subseteq Streams \X Nodes
    BY <1>7 DEF TypeOK
  <2>2. net' \in [Nodes -> {"off", "bind", "connect", "register", "directory", "accept",
                            "recv", "broadcast", "finish", "serve", "aborted"}]
    BY <1>2 DEF TypeOK
  <2>3. QED
    BY <1>1, <1>2, <1>3, <2>1, <2>2 DEF TypeOK
<1>9. PlaceInv'
  BY <1>1, <1>2, <1>3 DEF PlaceInv
<1>10. QueueInv'
  BY <1>2, <1>3 DEF QueueInv, Connected, Waiting, Registered
<1>11. ControllerInv'
  BY <1>1, <1>2, <1>3, <1>7 DEF ControllerInv, Registered, Complete
<1>12. \A k \in Clients : Announced(k)' <=> Announced(k)
  BY <1>1, <1>2, <1>3 DEF Announced, Complete
<1>13. ClientInv'
  BY <1>2, <1>3, <1>7, <1>12 DEF ClientInv, Connected, Through
<1>14. WireInv'
  BY <1>2, <1>3, <1>12 DEF WireInv, Registered
<1>15. QED
  BY <1>8, <1>9, <1>10, <1>11, <1>13, <1>14

\* A node that comes to it has every address.
LEMMA FinishKeeps ==
  ASSUME IInv, NEW n \in Nodes, Finish(n)
  PROVE  IInv'
<1> USE NodeFacts DEF IInv
<1>1. net[n] = "finish" /\ peers[n] = Nodes
  BY DEF Finish, ClientInv, ControllerInv, Through, Complete
<1>2. Cardinality(peers[n]) = N
  BY <1>1, CountNodes
<1>3. /\ done' = [done EXCEPT ![n] = TRUE]
      /\ net' = [net EXCEPT ![n] = "serve"]
  BY <1>2 DEF Finish, Goto
<1>4. /\ keep' = keep /\ bound' = bound /\ backlog' = backlog /\ cur' = cur /\ wire' = wire
      /\ peers' = peers /\ conn' = conn /\ started' = started /\ left' = left /\ todo' = todo
  BY DEF Finish
<1>5. /\ net'[n] = "serve" /\ \A k \in Nodes \ {n} : net'[k] = net[k]
      /\ done'[n] = TRUE /\ \A k \in Nodes \ {n} : done'[k] = done[k]
  BY <1>3 DEF TypeOK
<1>6. TypeOK'
  <2>1. /\ net' \in [Nodes -> {"off", "bind", "connect", "register", "directory", "accept",
                              "recv", "broadcast", "finish", "serve", "aborted"}]
        /\ done' \in [Nodes -> BOOLEAN]
    BY <1>3 DEF TypeOK
  <2>2. cur' # None <=> net'[0] = "recv"
    BY <1>1, <1>4, <1>5 DEF TypeOK
  <2>3. QED
    BY <1>4, <2>1, <2>2 DEF TypeOK
<1>7. PlaceInv'
  BY <1>1, <1>4, <1>5 DEF PlaceInv
<1>8. QueueInv'
  BY <1>1, <1>4, <1>5 DEF QueueInv, Connected, Waiting, Registered
<1>9. ControllerInv'
  BY <1>1, <1>4, <1>5 DEF ControllerInv, Registered, Complete
<1>10. \A k \in Clients : /\ Announced(k)' <=> Announced(k)
                          /\ Connected(k)' <=> Connected(k)
                          /\ Through(k)' <=> Through(k)
  BY <1>1, <1>4, <1>5 DEF Announced, Complete, Connected, Through
<1>11. ClientInv'
  BY <1>4, <1>10 DEF ClientInv
<1>12. WireInv'
  <2>1. \A k \in Clients : net'[k] = net[k] \/ (net[k] = "finish" /\ net'[k] = "serve")
    BY <1>1, <1>5
  <2>2. QED
    BY <1>4, <1>10, <2>1 DEF WireInv, Registered
<1>13. QED
  BY <1>6, <1>7, <1>8, <1>9, <1>11, <1>12

\* Whom an application contacts listens; it uses the stream to or from the
\* controller after the registration's messages, or opens one between clients.
LEMMA ContactKeeps ==
  ASSUME IInv, NEW n \in Nodes, NEW m \in Nodes \ {n}, Contact(n, m)
  PROVE  IInv'
<1> USE NodeFacts DEF IInv
<1>1. done[n] /\ net[n] = "serve"
  BY DEF Contact, PlaceInv
<1>2. Complete /\ peers[0] = Nodes /\ bound = Nodes
      /\ \A k \in Clients : Registered(k) /\ net[k] \in {"directory", "finish", "serve"}
                            /\ conn[0][k] = <<k, 0>>
  <2>1. Complete
    <3>1. CASE n = 0
      BY <1>1, <3>1 DEF Complete
    <3>2. CASE n \in Clients
      BY <1>1, <3>2 DEF ClientInv, Through, Announced
    <3>3. QED
      BY <3>1, <3>2
  <2>2. QED
    BY <2>1, CompleteAll DEF ControllerInv
<1>3. /\ keep' = keep /\ bound' = bound /\ cur' = cur /\ peers' = peers /\ conn' = conn
      /\ started' = started /\ left' = left /\ done' = done
      /\ todo' = [todo EXCEPT ![n] = @ \ {m}]
  BY DEF Contact
<1>4. /\ net' = net /\ backlog'[0] = backlog[0]
      /\ backlog' \in [Nodes -> Seq(Streams)] /\ \A k \in Nodes : Len(backlog'[k]) <= Backlog
      /\ wire' \in [Streams -> [Nodes -> Seq(Message)]]
      /\ \A k \in Clients :
           /\ wire'[<<k, 0>>][k] = wire[<<k, 0>>][k]
              \/ /\ Announced(k)
                 /\ wire[<<k, 0>>][k] # <<>> =>
                      wire'[<<k, 0>>][k] # <<>> /\ Head(wire'[<<k, 0>>][k]) = Head(wire[<<k, 0>>][k])
  <2>1. CASE n = 0
    <3>1. m \in Clients /\ conn[n][m] = <<m, 0>> /\ <<m, 0>> \in Streams /\ <<m, 0>> # None
      BY <1>2, <2>1
    <3>2. net' = net /\ backlog' = backlog /\ Put(<<m, 0>>, m, REQUEST)
      BY <3>1 DEF Contact
    <3>3. /\ wire' \in [Streams -> [Nodes -> Seq(Message)]]
          /\ wire[<<m, 0>>][m] # <<>> =>
               wire'[<<m, 0>>][m] # <<>> /\ Head(wire'[<<m, 0>>][m]) = Head(wire[<<m, 0>>][m])
          /\ \A t \in Streams, k \in Nodes : t # <<m, 0>> \/ k # m => wire'[t][k] = wire[t][k]
      BY <3>1, <3>2, MessageFacts, PutFacts DEF OthersKept
    <3>4. Announced(m)
      BY <1>1, <1>2, <2>1, <3>1 DEF Announced, ControllerInv
    <3>5. QED
      BY <3>1, <3>2, <3>3, <3>4 DEF TypeOK
  <2>2. CASE n \in Clients /\ m = 0
    <3>1. conn[n][m] = <<n, 0>> /\ <<n, 0>> \in Streams /\ <<n, 0>> # None
      BY <1>1, <2>2 DEF ClientInv, Connected
    <3>2. net' = net /\ backlog' = backlog /\ Put(<<n, 0>>, 0, REQUEST)
      BY <2>2, <3>1 DEF Contact
    <3>3. /\ wire' \in [Streams -> [Nodes -> Seq(Message)]]
          /\ \A t \in Streams, k \in Nodes : t # <<n, 0>> \/ k # 0 => wire'[t][k] = wire[t][k]
      BY <3>1, <3>2, MessageFacts, PutFacts DEF OthersKept
    <3>4. QED
      BY <3>2, <3>3 DEF TypeOK
  <2>3. CASE n \in Clients /\ m \in Clients
    <3>1. conn[n][m] = None /\ m \in peers[n] /\ m \in bound
      BY <1>1, <1>2, <2>3 DEF ClientInv, Through
    <3>2. net' = net /\ Connect(n, m) /\ Put(<<n, m>>, m, REQUEST)
      BY <3>1 DEF Contact
    <3>3. <<n, m>> \in Streams /\ \A k \in Clients : <<k, 0>> # <<n, m>>
      BY <2>3 DEF Streams
    <3>4. /\ wire' \in [Streams -> [Nodes -> Seq(Message)]]
          /\ \A t \in Streams, k \in Nodes : t # <<n, m>> \/ k # m => wire'[t][k] = wire[t][k]
      <4> DEFINE s == <<n, m>>
      <4>1. s \in Streams /\ REQUEST \in Message /\ m \in Nodes /\ Put(s, m, REQUEST)
        BY <3>2, <3>3, MessageFacts
      <4> HIDE DEF s
      <4>2. /\ wire' \in [Streams -> [Nodes -> Seq(Message)]]
            /\ OthersKept(s, m)
        BY <4>1, PutFacts
      <4>3. QED
        BY <4>2 DEF s, OthersKept
    <3>5. /\ backlog' \in [Nodes -> Seq(Streams)]
          /\ \A k \in Nodes : Len(backlog'[k]) <= Backlog
          /\ \A k \in Nodes : k # m => backlog'[k] = backlog[k]
      BY <3>2, ConnectFacts
    <3>6. QED
      BY <2>3, <3>2, <3>3, <3>4, <3>5
  <2>4. QED
    BY <2>1, <2>2, <2>3
<1>5. TypeOK'
  <2>1. todo' \in [Nodes -> SUBSET Nodes]
    BY <1>3 DEF TypeOK
  <2>2. QED
    BY <1>3, <1>4, <2>1 DEF TypeOK
<1>6. PlaceInv'
  BY <1>3, <1>4 DEF PlaceInv
<1>7. QueueInv'
  BY <1>3, <1>4 DEF QueueInv, Connected, Waiting, Registered
<1>8. ControllerInv'
  BY <1>3, <1>4 DEF ControllerInv, Registered, Complete
<1>9. \A k \in Clients : Announced(k)' <=> Announced(k)
  BY <1>3, <1>4 DEF Announced, Complete
<1>10. ClientInv'
  BY <1>3, <1>4, <1>9 DEF ClientInv, Connected, Through
<1>11. WireInv'
  <2>1. ASSUME NEW k \in Clients
        PROVE  /\ Registered(k)' => net'[k] \in {"directory", "finish", "serve"}
               /\ Registered(k)'
               /\ ~Announced(k)' => wire'[<<k, 0>>][k] = <<>>
               /\ Announced(k)' /\ net'[k] = "directory" =>
                    wire'[<<k, 0>>][k] # <<>> /\ Head(wire'[<<k, 0>>][k]) = DIRECTORY(Nodes)
    BY <1>2, <1>3, <1>4, <1>9 DEF WireInv, Registered
  <2>2. QED
    BY <2>1 DEF WireInv
<1>12. QED
  BY <1>5, <1>6, <1>7, <1>8, <1>10, <1>11

-----------------------------------------------------------------------------

LEMMA InvNext == IInv /\ [Next]_vars => IInv'
<1> SUFFICES ASSUME IInv, [Next]_vars PROVE IInv'
  OBVIOUS
<1>1. ASSUME NEW n \in Nodes, Thread(n)
      PROVE  IInv'
  <2>1. CASE Launch(n) \/ Bind(n) \/ Finish(n)
    BY <2>1, LaunchKeeps, BindKeeps, FinishKeeps
  <2>2. CASE n # 0 /\ (ConnectToController(n) \/ SendRegister(n) \/ HandleDirectory(n))
    <3>1. n \in Clients
      BY <2>2 DEF Clients
    <3>2. QED
      BY <2>2, <3>1, ConnectKeeps, SendRegisterKeeps, HandleDirectoryKeeps
  <2>3. CASE Controller
    BY <2>3, AcceptKeeps, HandleRegisterKeeps, StartKeeps, SendDirectoryKeeps DEF Controller
  <2>4. QED
    BY <1>1, <2>1, <2>2, <2>3 DEF Thread
<1>2. ASSUME NEW n \in Nodes, NEW m \in Nodes \ {n}, Contact(n, m)
      PROVE  IInv'
  BY <1>2, ContactKeeps
<1>3. CASE UNCHANGED vars
  <2>1. TypeOK' /\ PlaceInv'
    BY <1>3 DEF vars, IInv, TypeOK, PlaceInv
  <2>2. QueueInv'
    BY <1>3 DEF vars, IInv, QueueInv, Connected, Waiting, Registered
  <2>3. ControllerInv'
    BY <1>3 DEF vars, IInv, ControllerInv, Registered, Complete
  <2>4. ClientInv'
    BY <1>3 DEF vars, IInv, ClientInv, Connected, Through, Announced, Complete
  <2>5. WireInv'
    BY <1>3 DEF vars, IInv, WireInv, Registered, Announced, Complete
  <2>6. QED
    BY <2>1, <2>2, <2>3, <2>4, <2>5 DEF IInv
<1>4. QED
  BY <1>1, <1>2, <1>3 DEF Next

LEMMA InvCorrect == Spec => []IInv
BY InvInit, InvNext, PTL DEF Spec

\* The state of every thread, stream and table has its type; a stream awaits its
\* REGISTER exactly while the controller is in recv_message (network_ifc.h:130-140).
THEOREM TypeCorrect == Spec => []TypeOK
<1>1. IInv => TypeOK
  BY DEF IInv
<1>2. QED
  BY <1>1, InvCorrect, PTL

\* No assert of the registration phase fails, whatever the order in which nodes
\* start, connect and begin to talk to each other (network_ifc.h:87, 156, 194-199,
\* 206, 209, 236; network.h:86).
THEOREM NoAssertFailsCorrect == Spec => []NoAssertFails
BY InvCorrect, InvHolds, PTL

\* wait_for_registration_ lets an application go on in the state Cluster starts
\* from (network_ifc.h:227-231).
THEOREM HandsOverCorrect == Spec => []HandsOver
BY InvCorrect, InvHolds, PTL

=============================================================================
