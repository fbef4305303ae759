------------------------------ MODULE KVStore ------------------------------
(***************************************************************************)
(* The part of a key-value store that one node keeps (store/kvstore.h) as  *)
(* its threads see it: the application's thread and the Connection threads *)
(* that serve other nodes call get, waitAndGet and put on keys homed at    *)
(* this node.  The grain is that of the code's Lock (util/lock.h): taking  *)
(* the mutex, the body of the critical section, notify_all, releasing the  *)
(* mutex and, after it, cloning the value found are separate steps, and a  *)
(* thread that waits gives the mutex up atomically with falling asleep.    *)
(*                                                                         *)
(* Values are Value objects by identity, not by content: put consumes the  *)
(* object it is given and deletes the object it replaces.                  *)
(***************************************************************************)
EXTENDS Integers, FiniteSets

CONSTANTS
  Threads,      \* threads calling this node's store
  Keys,         \* keys homed at this node
  Values,       \* Value objects
  NoValue,      \* no object: an absent entry, a null pointer
  Garbage,      \* whatever cloning a deleted object yields
  NoThread,     \* the mutex is free
  Once,         \* keys that callers put once, as they do every key written by
                \* the dataframe layer; they may put to the others again
  MaxCalls,     \* bound: calls made by all the threads together
  MaxSpurious   \* bound: wake-ups of the condition variable without a notify

ASSUME KVStoreAssumption ==
  /\ NoValue \notin Values
  /\ Garbage \notin Values
  /\ Garbage # NoValue
  /\ NoThread \notin Threads
  /\ Once \subseteq Keys
  /\ MaxCalls \in Nat
  /\ MaxSpurious \in Nat

VARIABLES
  items,        \* KVStore::items_
  fresh,        \* objects no put has consumed yet
  freed,        \* objects that were deleted
  mtx,          \* the holder of Lock::mtx_
  pc,           \* where each thread is
  call,         \* each thread's current (or last) call
  ptr,          \* the local variable `result` of get and waitAndGet
  ret,          \* what the thread's last call returned
  claimed,      \* the keys some put was called with
  calls,        \* how many calls were made, up to MaxCalls
  spurious,     \* how many spurious wake-ups there were, up to MaxSpurious
  aborted       \* an assertion failed: the process has ended

vars == <<items, fresh, freed, mtx, pc, call, ptr, ret, claimed, calls, spurious, aborted>>

Call == [op : {"get", "wait", "put"}, key : Keys, val : Values \cup {NoValue}]

Locations == {"idle", "lock", "body", "asleep", "notify", "unlock", "clone"}

\* KVStore::in_
in_(k) == items[k] # NoValue

----------------------------------------------------------------------------
Init ==
  /\ items = [k \in Keys |-> NoValue]
  /\ fresh = Values
  /\ freed = {}
  /\ mtx = NoThread
  /\ pc = [t \in Threads |-> "idle"]
  /\ call \in [Threads -> {[op |-> "get", key |-> k, val |-> NoValue] : k \in Keys}]
  /\ ptr = [t \in Threads |-> NoValue]
  /\ ret = [t \in Threads |-> NoValue]
  /\ claimed = {}
  /\ calls = 0
  /\ spurious = 0
  /\ aborted = FALSE

\* A thread enters one of the three operations: its next step is l_.lock().
Enter(t, op, k, v) ==
  /\ pc[t] = "idle"
  /\ calls < MaxCalls
  /\ calls' = calls + 1
  /\ call' = [call EXCEPT ![t] = [op |-> op, key |-> k, val |-> v]]
  /\ pc' = [pc EXCEPT ![t] = "lock"]
  /\ UNCHANGED <<items, freed, mtx, ptr, ret, spurious, aborted>>

\* get(k), of any key.
CallGet(t, k) ==
  /\ Enter(t, "get", k, NoValue)
  /\ UNCHANGED <<fresh, claimed>>

\* waitAndGet(k).
CallWait(t, k) ==
  /\ Enter(t, "wait", k, NoValue)
  /\ UNCHANGED <<fresh, claimed>>

\* put(k, v) consumes the object v.
CallPut(t, k, v) ==
  /\ v \in fresh
  /\ k \in claimed => k \notin Once
  /\ Enter(t, "put", k, v)
  /\ fresh' = fresh \ {v}
  /\ claimed' = claimed \cup {k}

\* l_.lock(), on entry or, inside l_.wait(), after a wake-up.
LockMutex(t) ==
  /\ pc[t] = "lock"
  /\ mtx = NoThread
  /\ mtx' = t
  /\ pc' = [pc EXCEPT ![t] = "body"]
  /\ UNCHANGED <<items, fresh, freed, call, ptr, ret, claimed, calls, spurious, aborted>>

\* (mutant) put deletes what items_[k] yields without looking the key up.
PutBody_DeletesNull(t) ==
  LET k == call[t].key IN
  /\ pc[t] = "body"
  /\ call[t].op = "put"
  /\ freed' = freed \cup {items[k]}
  /\ items' = [items EXCEPT ![k] = call[t].val]
  /\ ptr' = [ptr EXCEPT ![t] = NoValue]
  /\ pc' = [pc EXCEPT ![t] = "notify"]
  /\ UNCHANGED <<fresh, mtx, call, ret, claimed, calls, spurious, aborted>>

\* (mutant) put forgets to delete the value it replaces.
PutBody_Leaks(t) ==
  /\ pc[t] = "body"
  /\ call[t].op = "put"
  /\ items' = [items EXCEPT ![call[t].key] = call[t].val]
  /\ ptr' = [ptr EXCEPT ![t] = NoValue]
  /\ pc' = [pc EXCEPT ![t] = "notify"]
  /\ UNCHANGED <<fresh, freed, mtx, call, ret, claimed, calls, spurious, aborted>>

\* (mutant) put stores the value and never notifies.
PutBody_Silent(t) ==
  LET k == call[t].key IN
  /\ pc[t] = "body"
  /\ call[t].op = "put"
  /\ freed' = IF in_(k) THEN freed \cup {items[k]} ELSE freed
  /\ items' = [items EXCEPT ![k] = call[t].val]
  /\ ptr' = [ptr EXCEPT ![t] = NoValue]
  /\ pc' = [pc EXCEPT ![t] = "unlock"]
  /\ UNCHANGED <<fresh, mtx, call, ret, claimed, calls, spurious, aborted>>

\* put: delete the value the key has, if any, and store the new one.
PutBody(t) ==
  LET k == call[t].key IN
  /\ pc[t] = "body"
  /\ call[t].op = "put"
  /\ freed' = IF in_(k) THEN freed \cup {items[k]} ELSE freed
  /\ items' = [items EXCEPT ![k] = call[t].val]
  /\ ptr' = [ptr EXCEPT ![t] = NoValue]
  /\ pc' = [pc EXCEPT ![t] = "notify"]
  /\ UNCHANGED <<fresh, mtx, call, ret, claimed, calls, spurious, aborted>>

\* (mutant) notify_one: one sleeper is woken.
NotifyAll_One(t) ==
  /\ pc[t] = "notify"
  /\ \/ \E u \in Threads : /\ pc[u] = "asleep"
                           /\ pc' = [pc EXCEPT ![t] = "unlock", ![u] = "lock"]
     \/ /\ \A u \in Threads : pc[u] # "asleep"
        /\ pc' = [pc EXCEPT ![t] = "unlock"]
  /\ UNCHANGED <<items, fresh, freed, mtx, call, ptr, ret, claimed, calls, spurious, aborted>>

\* (mutant) a woken thread goes on without retaking the mutex.
NotifyAll_NoRelock(t) ==
  /\ pc[t] = "notify"
  /\ pc' = [u \in Threads |-> IF u = t THEN "unlock"
                              ELSE IF pc[u] = "asleep" THEN "body" ELSE pc[u]]
  /\ UNCHANGED <<items, fresh, freed, mtx, call, ptr, ret, claimed, calls, spurious, aborted>>

\* put: l_.notify_all() wakes every thread asleep; each must retake the mutex.
NotifyAll(t) ==
  /\ pc[t] = "notify"
  /\ pc' = [u \in Threads |-> IF u = t THEN "unlock"
                              ELSE IF pc[u] = "asleep" THEN "lock" ELSE pc[u]]
  /\ UNCHANGED <<items, fresh, freed, mtx, call, ptr, ret, claimed, calls, spurious, aborted>>

\* (mutant) waitAndGet tests the key with `if`, so not again after a wake-up.
ReadBody_NoRecheck(t) ==
  /\ pc[t] = "body"
  /\ call[t].op # "put"
  /\ ptr' = [ptr EXCEPT ![t] = items[call[t].key]]
  /\ pc' = [pc EXCEPT ![t] = "unlock"]
  /\ UNCHANGED <<items, fresh, freed, mtx, call, ret, claimed, calls, spurious, aborted>>

\* get and waitAndGet: the key is there; take the pointer to its value.
ReadBody(t) ==
  /\ pc[t] = "body"
  /\ call[t].op # "put"
  /\ in_(call[t].key)
  /\ ptr' = [ptr EXCEPT ![t] = items[call[t].key]]
  /\ pc' = [pc EXCEPT ![t] = "unlock"]
  /\ UNCHANGED <<items, fresh, freed, mtx, call, ret, claimed, calls, spurious, aborted>>

\* get: the assertion that the key is there fails, with the mutex held.
GetAborts(t) ==
  /\ pc[t] = "body"
  /\ call[t].op = "get"
  /\ ~in_(call[t].key)
  /\ aborted' = TRUE
  /\ UNCHANGED <<items, fresh, freed, mtx, pc, call, ptr, ret, claimed, calls, spurious>>

\* waitAndGet: the key is not there; l_.wait() releases the mutex and sleeps.
WaitBody(t) ==
  /\ pc[t] = "body"
  /\ call[t].op = "wait"
  /\ ~in_(call[t].key)
  /\ mtx' = NoThread
  /\ pc' = [pc EXCEPT ![t] = "asleep"]
  /\ UNCHANGED <<items, fresh, freed, call, ptr, ret, claimed, calls, spurious, aborted>>

\* A condition variable may wake a thread that nobody notified.
SpuriousWake(t) ==
  /\ pc[t] = "asleep"
  /\ spurious < MaxSpurious
  /\ spurious' = spurious + 1
  /\ pc' = [pc EXCEPT ![t] = "lock"]
  /\ UNCHANGED <<items, fresh, freed, mtx, call, ptr, ret, claimed, calls, aborted>>

\* l_.unlock(): a put returns, the other two still have to clone.
UnlockMutex(t) ==
  /\ pc[t] = "unlock"
  /\ mtx' = NoThread
  /\ IF call[t].op = "put"
     THEN /\ pc' = [pc EXCEPT ![t] = "idle"]
          /\ ret' = [ret EXCEPT ![t] = NoValue]
     ELSE /\ pc' = [pc EXCEPT ![t] = "clone"]
          /\ UNCHANGED ret
  /\ UNCHANGED <<items, fresh, freed, call, ptr, claimed, calls, spurious, aborted>>

\* (mutant) the stored object itself is returned, and its caller deletes it.
Clone_None(t) ==
  /\ pc[t] = "clone"
  /\ ret' = [ret EXCEPT ![t] = ptr[t]]
  /\ freed' = freed \cup {ptr[t]}
  /\ pc' = [pc EXCEPT ![t] = "idle"]
  /\ UNCHANGED <<items, fresh, mtx, call, ptr, claimed, calls, spurious, aborted>>

\* return result->clone(), with the mutex released.  If the object was deleted
\* meanwhile the clone may still find its bytes, or anything.
Clone(t) ==
  /\ pc[t] = "clone"
  /\ \E r \in {ptr[t]} \cup (IF ptr[t] \in freed THEN {Garbage} ELSE {}) :
       ret' = [ret EXCEPT ![t] = r]
  /\ pc' = [pc EXCEPT ![t] = "idle"]
  /\ UNCHANGED <<items, fresh, freed, mtx, call, ptr, claimed, calls, spurious, aborted>>

\* A thread's own steps once it has called an operation.
Step(t) == \/ LockMutex(t) \/ PutBody(t) \/ NotifyAll(t) \/ ReadBody(t)
           \/ GetAborts(t) \/ WaitBody(t) \/ UnlockMutex(t) \/ Clone(t)

Begin(t) == \E k \in Keys : \/ CallGet(t, k)
                            \/ CallWait(t, k)
                            \/ \E v \in Values : CallPut(t, k, v)

Next == ~aborted /\ \E t \in Threads : Begin(t) \/ Step(t) \/ SpuriousWake(t)

Spec == Init /\ [][Next]_vars

\* The scheduler runs every thread that can run.  Nothing makes a thread call
\* an operation, std::mutex promises no order among its waiters, and a thread
\* asleep is only sure to run again once notified.
FairSpec == Spec /\ \A t \in Threads : WF_vars(~aborted /\ Step(t))

----------------------------------------------------------------------------
TypeOK ==
  /\ items \in [Keys -> Values \cup {NoValue}]
  /\ fresh \in SUBSET Values
  /\ freed \in SUBSET Values
  /\ mtx \in Threads \cup {NoThread}
  /\ pc \in [Threads -> Locations]
  /\ call \in [Threads -> Call]
  /\ ptr \in [Threads -> Values \cup {NoValue}]
  /\ ret \in [Threads -> Values \cup {NoValue, Garbage}]
  /\ claimed \in SUBSET Keys
  /\ calls \in Nat
  /\ spurious \in Nat
  /\ aborted \in BOOLEAN

InCritical(t) == pc[t] \in {"body", "notify", "unlock"}

\* A put that was called and has not reached the map yet.
Putting(t) == pc[t] \in {"lock", "body"} /\ call[t].op = "put"

\* No two threads are inside the critical sections of get, waitAndGet and put
\* at once: each path, the one through l_.wait() included, pairs its lock and
\* unlock calls.
MutualExclusion ==
  \A t, u \in Threads : InCritical(t) /\ InCritical(u) => t = u

\* No wake-up is lost: while a thread sleeps in waitAndGet on a key that has a
\* value, the put that stored the value has yet to call notify_all.
NoMissedNotify ==
  \A t \in Threads : pc[t] = "asleep" /\ in_(call[t].key)
    => \E u \in Threads : pc[u] = "notify"

\* The objects put consumes are owned once.  An object is the value of one key,
\* or is on its way there in one put, or was deleted, or was never consumed: in
\* two of these places it would be deleted twice, in none it would be leaked.
OneOwner ==
  /\ \A v \in Values : \/ v \in fresh \cup freed
                       \/ \E k \in Keys : items[k] = v
                       \/ \E t \in Threads : Putting(t) /\ call[t].val = v
  /\ fresh \cap freed = {}
  /\ \A k \in Keys : items[k] \notin fresh \cup freed
  /\ \A j, k \in Keys : in_(j) /\ items[j] = items[k] => j = k
  /\ \A t \in Threads : Putting(t) => /\ call[t].val \in Values \ (fresh \cup freed)
                                      /\ \A k \in Keys : call[t].val # items[k]
  /\ \A t, u \in Threads : Putting(t) /\ Putting(u) /\ call[t].val = call[u].val => t = u

\* A get or a waitAndGet clones its object after it has released the mutex.  If
\* that was deleted meanwhile, then by a put that overwrote this very key, which
\* cannot be one that callers put once: no other put, and no other reader,
\* deletes what somebody may still be cloning.
NoUseAfterFree ==
  \A t \in Threads : pc[t] = "clone" /\ ptr[t] \in freed =>
    call[t].key \notin Once /\ items[call[t].key] # ptr[t]

\* "Returns a copy of the value" (kvstore.h): what a call returned is never
\* the bytes of a deleted object.
ReturnsACopy == \A t \in Threads : ret[t] # Garbage

\* A waitAndGet whose key has, or gets, a value returns, however the threads
\* contend and whichever of them sleeps when the value is put, unless a get of
\* an absent key ends the process.
WaitersReturn ==
  \A t \in Threads :
    (pc[t] # "idle" /\ call[t].op = "wait" /\ in_(call[t].key)) ~> (pc[t] = "idle" \/ aborted)

----------------------------------------------------------------------------
(* The store implements the atomic one: a call takes effect in its body.   *)
Done(t) == pc[t] \in {"notify", "unlock", "clone"}

phaseBar == [t \in Threads |->
               IF pc[t] = "idle" THEN "idle" ELSE IF Done(t) THEN "done" ELSE "pending"]

Atomic == INSTANCE AtomicStore WITH
            map <- items, phase <- phaseBar, req <- call,
            result <- ptr, returned <- ret

\* Every call takes effect at one instant between its call and its return, and
\* returns the value its key had at that instant.  That the clone is made after
\* the mutex was released shows only in a read of a key that callers put again,
\* when its value was replaced between that instant and the return.
Linearizable == Atomic!ASpec
=============================================================================
