---------------------------- MODULE Registration ----------------------------
(***************************************************************************)
(* The registration phase of a cluster (network/network_ifc.h, run up to   *)
(* its loop): each NetworkIfc thread binds its listening socket; a client  *)
(* connects to the controller, sends REGISTER and awaits the DIRECTORY;    *)
(* the controller accepts the clients one by one, then sends the DIRECTORY *)
(* to all of them and starts their Connection threads.  An application may *)
(* contact another node as soon as its own node is registered, whatever    *)
(* the others have come to.  Cluster.tla starts where this module ends.    *)
(***************************************************************************)
EXTENDS Integers, Sequences, FiniteSets

CONSTANTS
  N,            \* number of nodes; node 0 is the controller
  None,         \* no stream
  Backlog       \* streams a listening socket keeps until they are accepted

ASSUME RegistrationAssumption ==
  N \in Nat \ {0} /\ Backlog \in Nat \ {0} /\ None \notin (0 .. N - 1) \X (0 .. N - 1)

Nodes   == 0 .. N - 1
Clients == Nodes \ {0}
Streams == {s \in Nodes \X Nodes : s[1] # s[2]}

REGISTER(n)   == [type |-> "REGISTER", nodes |-> {n}]
DIRECTORY(ns) == [type |-> "DIRECTORY", nodes |-> ns]
REQUEST       == [type |-> "REQUEST", nodes |-> {}]     \* a PUT, GET or WAITANDGET
Message == [type : {"REGISTER", "DIRECTORY", "REQUEST"}, nodes : SUBSET Nodes]

VARIABLES
  net,          \* net[n]: where the NetworkIfc thread is
  keep,         \* NetworkIfc::keep_processing_
  bound,        \* the nodes whose socket is bound and listening
  backlog,      \* backlog[n]: streams waiting to be accepted at n
  cur,          \* the stream whose REGISTER the controller awaits
  wire,         \* wire[s][n]: messages on stream s towards n
  peers,        \* the keys of NetworkIfc::peer_addresses_
  conn,         \* conn[n][m]: the stream in NetworkIfc::connections_
  started,      \* <<stream, node>> pairs whose Connection thread is running
  left,         \* clients the DIRECTORY has still to be sent to
  done,         \* NetworkIfc::registration_done_
  todo          \* todo[n]: the nodes n's application has still to contact

vars == <<net, keep, bound, backlog, cur, wire, peers, conn, started, left, done, todo>>

Init ==
  /\ net = [n \in Nodes |-> "off"]
  /\ keep = [n \in Nodes |-> FALSE]
  /\ bound = {}
  /\ backlog = [n \in Nodes |-> <<>>]
  /\ cur = None
  /\ wire = [s \in Streams |-> [n \in Nodes |-> <<>>]]
  /\ peers = [n \in Nodes |-> {0}]
  /\ conn = [n \in Nodes |-> [m \in Nodes |-> None]]
  /\ started = {}
  /\ left = {}
  /\ done = [n \in Nodes |-> FALSE]
  /\ todo = [n \in Nodes |-> Nodes \ {n}]

Goto(n, place) == net' = [net EXCEPT ![n] = place]
Abort(n)       == Goto(n, "aborted")        \* an assert fails
Put(s, n, m)   == wire' = [wire EXCEPT ![s][n] = Append(@, m)]

\* Mutant: a client is launched while the controller's start is still spinning.
Launch_NoWait(n) ==
  /\ net[n] = "off"
  /\ Goto(n, "bind")
  /\ UNCHANGED <<keep, bound, backlog, cur, wire, peers, conn, started, left, done, todo>>

\* NetworkIfc::start.  The controller's returns once keep_processing_ is set;
\* the clients are launched after it, in any order.
Launch(n) ==
  /\ net[n] = "off"
  /\ n # 0 => keep[0]
  /\ Goto(n, "bind")
  /\ UNCHANGED <<keep, bound, backlog, cur, wire, peers, conn, started, left, done, todo>>

Bind(n) ==
  /\ net[n] = "bind"
  /\ bound' = bound \cup {n}
  /\ keep' = [keep EXCEPT ![n] = TRUE]
  /\ Goto(n, IF N = 1 THEN "finish" ELSE IF n = 0 THEN "accept" ELSE "connect")
  /\ UNCHANGED <<backlog, cur, wire, peers, conn, started, left, done, todo>>

\* connect_to_other a listening node: it blocks while that node's backlog is full.
Connect(n, m) ==
  /\ Len(backlog[m]) < Backlog
  /\ backlog' = [backlog EXCEPT ![m] = Append(@, <<n, m>>)]

\* register_with_controller_, up to the awaited DIRECTORY.
ConnectToController(n) ==
  /\ net[n] = "connect"
  /\ IF 0 \in bound
     THEN /\ Connect(n, 0)
          /\ conn' = [conn EXCEPT ![n][0] = <<n, 0>>]
          /\ Goto(n, "register")
     ELSE Abort(n) /\ UNCHANGED <<backlog, conn>>
  /\ UNCHANGED <<keep, bound, cur, wire, peers, started, left, done, todo>>

SendRegister(n) ==
  /\ net[n] = "register"
  /\ Put(<<n, 0>>, 0, REGISTER(n))
  /\ Goto(n, "directory")
  /\ UNCHANGED <<keep, bound, backlog, cur, peers, conn, started, left, done, todo>>

\* The rest of register_with_controller_, and handle_directory_message_ with its
\* two asserts.
HandleDirectory(n) ==
  LET s == <<n, 0>> IN
  /\ net[n] = "directory" /\ wire[s][n] # <<>>
  /\ wire' = [wire EXCEPT ![s][n] = Tail(@)]
  /\ LET m == Head(wire[s][n]) IN
       IF m.type = "DIRECTORY" /\ Cardinality(m.nodes) = N
       THEN /\ peers' = [peers EXCEPT ![n] = @ \cup m.nodes]
            /\ started' = started \cup {<<s, n>>}
            /\ Goto(n, "finish")
       ELSE Abort(n) /\ UNCHANGED <<peers, started>>
  /\ UNCHANGED <<keep, bound, backlog, cur, conn, left, done, todo>>

\* process_client_registrations_: accept one client, wait for its REGISTER.
AcceptClient ==
  /\ net[0] = "accept" /\ backlog[0] # <<>>
  /\ cur' = Head(backlog[0])
  /\ backlog' = [backlog EXCEPT ![0] = Tail(@)]
  /\ Goto(0, "recv")
  /\ UNCHANGED <<keep, bound, wire, peers, conn, started, left, done, todo>>

\* handle_register_message_ and the loop's condition; entries(i) is what becomes
\* of connections_, receivers(cs) who the DIRECTORY is sent to.
Register(entries(_), receivers(_)) ==
  /\ net[0] = "recv" /\ wire[cur][0] # <<>>
  /\ wire' = [wire EXCEPT ![cur][0] = Tail(@)]
  /\ cur' = None
  /\ LET m == Head(wire[cur][0]) IN
       IF m.type # "REGISTER" THEN Abort(0) /\ UNCHANGED <<peers, conn, left>>
       ELSE \E i \in m.nodes :
              /\ peers' = [peers EXCEPT ![0] = @ \cup {i}]
              /\ conn' = [conn EXCEPT ![0] = entries(i)]
              /\ IF Cardinality(peers'[0]) < N
                 THEN Goto(0, "accept") /\ UNCHANGED left
                 ELSE Goto(0, "broadcast") /\ left' = receivers(conn'[0])
  /\ UNCHANGED <<keep, bound, backlog, started, done, todo>>

Enter(i)  == [conn[0] EXCEPT ![i] = cur]
Skip(i)   == conn[0]
Linked(c) == {i \in Nodes : c[i] # None}
All(c)    == Nodes

\* Mutants: the client's stream is not entered in connections_; the broadcast
\* goes over peer_addresses_, the controller's own included.
HandleRegister_NoEntry  == Register(Skip, Linked)
HandleRegister_AllPeers == Register(Enter, All)

HandleRegister == Register(Enter, Linked)

\* Mutant: the DIRECTORY goes to one client only.
SendDirectory_Once(i) ==
  /\ net[0] = "broadcast" /\ i \in left
  /\ Put(conn[0][i], i, DIRECTORY(peers[0]))
  /\ left' = {}
  /\ UNCHANGED <<net, keep, bound, backlog, cur, peers, conn, started, done, todo>>

\* broadcast_ of the DIRECTORY, one client after the other.
SendDirectory(i) ==
  /\ net[0] = "broadcast" /\ i \in left
  /\ Put(conn[0][i], i, DIRECTORY(peers[0]))
  /\ left' = left \ {i}
  /\ UNCHANGED <<net, keep, bound, backlog, cur, peers, conn, started, done, todo>>

StartConnections ==
  /\ net[0] = "broadcast" /\ left = {}
  /\ started' = started \cup {<<conn[0][i], 0>> : i \in Linked(conn[0])}
  /\ Goto(0, "finish")
  /\ UNCHANGED <<keep, bound, backlog, cur, wire, peers, conn, left, done, todo>>

\* Mutant: registration_done_ is set when the loop over the clients is entered.
Finish_Early(n) ==
  /\ net[n] \in {"accept", "finish"} /\ ~done[n]
  /\ done' = [done EXCEPT ![n] = TRUE]
  /\ IF net[n] = "finish" THEN Goto(n, "serve") ELSE UNCHANGED net
  /\ UNCHANGED <<keep, bound, backlog, cur, wire, peers, conn, started, left, todo>>

\* run: assert that every address is known, then registration_done_.
Finish(n) ==
  /\ net[n] = "finish"
  /\ IF Cardinality(peers[n]) = N
     THEN done' = [done EXCEPT ![n] = TRUE] /\ Goto(n, "serve")
     ELSE Abort(n) /\ UNCHANGED done
  /\ UNCHANGED <<keep, bound, backlog, cur, wire, peers, conn, started, left, todo>>

\* The application, past wait_for_registration_, sends its first message to node
\* m: on the stream in connections_, or on one it opens (whose thread and entry
\* are Cluster's matter).
Contact(n, m) ==
  /\ done[n] /\ m \in todo[n] /\ net[n] # "aborted"
  /\ IF conn[n][m] # None
     THEN Put(conn[n][m], m, REQUEST) /\ UNCHANGED <<net, backlog>>
     ELSE IF m \in peers[n] /\ m \in bound
          THEN Connect(n, m) /\ Put(<<n, m>>, m, REQUEST) /\ UNCHANGED net
          ELSE Abort(n) /\ UNCHANGED <<backlog, wire>>
  /\ todo' = [todo EXCEPT ![n] = @ \ {m}]
  /\ UNCHANGED <<keep, bound, cur, peers, conn, started, left, done>>

Controller == AcceptClient \/ HandleRegister \/ StartConnections \/ \E i \in left : SendDirectory(i)

Thread(n) ==
  \/ Launch(n) \/ Bind(n) \/ Finish(n)
  \/ n # 0 /\ (ConnectToController(n) \/ SendRegister(n) \/ HandleDirectory(n))
  \/ n = 0 /\ Controller

Next == \E n \in Nodes : Thread(n) \/ \E m \in Nodes \ {n} : Contact(n, m)

\* Every process is launched and its NetworkIfc thread runs; an application need
\* not contact anyone.
Spec == Init /\ [][Next]_vars /\ \A n \in Nodes : WF_vars(Thread(n))

-----------------------------------------------------------------------------

TypeOK ==
  /\ net \in [Nodes -> {"off", "bind", "connect", "register", "directory", "accept",
                        "recv", "broadcast", "finish", "serve", "aborted"}]
  /\ keep \in [Nodes -> BOOLEAN] /\ done \in [Nodes -> BOOLEAN]
  /\ bound \subseteq Nodes /\ left \subseteq Clients
  /\ backlog \in [Nodes -> Seq(Streams)] /\ \A n \in Nodes : Len(backlog[n]) <= Backlog
  /\ cur \in Streams \cup {None} /\ (cur # None <=> net[0] = "recv")
  /\ wire \in [Streams -> [Nodes -> Seq(Message)]]
  /\ peers \in [Nodes -> SUBSET Nodes] /\ todo \in [Nodes -> SUBSET Nodes]
  /\ conn \in [Nodes -> [Nodes -> Streams \cup {None}]]
  /\ started \subseteq Streams \X Nodes

\* No assert of the registration phase fails (network_ifc.h:95, 157, 192-194,
\* 206, 209, 239; network.h:86): a node that is contacted listens by then, the first
\* message of a stream is the one its reader expects, even though registered
\* applications already send requests, and the DIRECTORY names every node.
NoAssertFails == \A n \in Nodes : net[n] # "aborted"

\* When wait_for_registration_ lets a node's application go on, the node has an
\* address for every node, which listens, its connections_ are those Cluster
\* starts from, and the Connection threads at its end of them are running.
HandsOver ==
  \A n \in Nodes : done[n] =>
    /\ peers[n] = Nodes /\ bound = Nodes
    /\ \A m \in Nodes :
         conn[n][m] = (CASE n # m /\ m = 0 -> <<n, 0>> [] n = 0 /\ m # 0 -> <<m, 0>>
                         [] OTHER -> None)
    /\ \A m \in Nodes : conn[n][m] # None => <<conn[n][m], n>> \in started

\* Every node gets through registration, though the controller handles one
\* client at a time and a client connects when the backlog has room.
EveryoneRegisters == \A n \in Nodes : <>done[n]
=============================================================================
