---------------------------- MODULE AtomicStore ----------------------------
(***************************************************************************)
(* What a node's KVStore promises to the threads that call it, whatever    *)
(* its lock and its condition variable do: a call takes effect at one      *)
(* instant between its invocation and its return, a put installs its       *)
(* value, a get or a waitAndGet returns the value that the key had at that *)
(* instant, and it takes effect only once there is one.  Of a key that may *)
(* be put again, a read may return garbage when the value it found was     *)
(* replaced before it returned.                                            *)
(* KVStore.tla is shown to implement it.                                   *)
(***************************************************************************)

CONSTANTS
  Threads,      \* callers
  Keys,
  Values,       \* Value objects, by identity
  NoValue,      \* stands for an absent value
  Garbage,      \* what is no value
  Once          \* keys that are put once

VARIABLES
  map,          \* the value of each key
  phase,        \* each caller's phase: "idle", "pending" or "done"
  req,          \* each caller's current (or last) request
  result,       \* what a reading request found when it took effect
  returned      \* what the caller's last completed request returned

avars == <<map, phase, req, result, returned>>

Request == [op : {"get", "wait", "put"}, key : Keys, val : Values \cup {NoValue}]

AInit ==
  /\ map = [k \in Keys |-> NoValue]
  /\ phase = [t \in Threads |-> "idle"]
  /\ req \in [Threads -> Request]
  /\ result = [t \in Threads |-> NoValue]
  /\ returned = [t \in Threads |-> NoValue]

\* A caller issues a request.
Invoke(t) ==
  /\ phase[t] = "idle"
  /\ \E r \in Request : req' = [req EXCEPT ![t] = r]
  /\ phase' = [phase EXCEPT ![t] = "pending"]
  /\ UNCHANGED <<map, result, returned>>

\* A put takes effect.
Install(t) ==
  /\ phase[t] = "pending"
  /\ req[t].op = "put"
  /\ map' = [map EXCEPT ![req[t].key] = req[t].val]
  /\ result' = [result EXCEPT ![t] = NoValue]
  /\ phase' = [phase EXCEPT ![t] = "done"]
  /\ UNCHANGED <<req, returned>>

\* A get or a waitAndGet takes effect: the key has a value.
Observe(t) ==
  /\ phase[t] = "pending"
  /\ req[t].op # "put"
  /\ map[req[t].key] # NoValue
  /\ result' = [result EXCEPT ![t] = map[req[t].key]]
  /\ phase' = [phase EXCEPT ![t] = "done"]
  /\ UNCHANGED <<map, req, returned>>

\* The value a read found is no longer that of its key.
Replaced(t) == req[t].op # "put" /\ req[t].key \notin Once /\ map[req[t].key] # result[t]

\* A request that took effect returns what it found.
Return(t) ==
  /\ phase[t] = "done"
  /\ \E r \in {result[t]} \cup (IF Replaced(t) THEN {Garbage} ELSE {}) :
       returned' = [returned EXCEPT ![t] = r]
  /\ phase' = [phase EXCEPT ![t] = "idle"]
  /\ UNCHANGED <<map, req, result>>

ANext == \E t \in Threads : Invoke(t) \/ Install(t) \/ Observe(t) \/ Return(t)

ASpec == AInit /\ [][ANext]_avars
=============================================================================
