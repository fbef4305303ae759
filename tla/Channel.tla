------------------------------ MODULE Channel ------------------------------
(***************************************************************************)
(* What a connection between two nodes promises to the threads that send   *)
(* and receive messages over it: in each direction a queue of whole        *)
(* messages, received in the order they were sent, each once.  Cluster.tla *)
(* builds on it; Transport.tla is shown to implement it.                   *)
(***************************************************************************)
EXTENDS Sequences

CONSTANTS Sides, Messages

VARIABLES
  queue,        \* queue[s]: the messages on their way to side s
  got           \* got[s]: the message side s received last, if any

CInit == queue = [s \in Sides |-> <<>>] /\ got = [s \in Sides |-> <<>>]

SendTo(s, m) ==
  /\ queue' = [queue EXCEPT ![s] = Append(@, m)]
  /\ UNCHANGED got

ReceiveAt(s) ==
  /\ queue[s] # <<>>
  /\ got' = [got EXCEPT ![s] = <<Head(queue[s])>>]
  /\ queue' = [queue EXCEPT ![s] = Tail(@)]

CNext == \E s \in Sides : ReceiveAt(s) \/ \E m \in Messages : SendTo(s, m)

CSpec == CInit /\ [][CNext]_<<queue, got>>
=============================================================================
