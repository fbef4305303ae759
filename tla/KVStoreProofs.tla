--------------------------- MODULE KVStoreProofs ---------------------------
(***************************************************************************)
(* Proofs about KVStore.tla, for any number of threads, keys, values and   *)
(* calls.                                                                  *)
(***************************************************************************)
EXTENDS KVStore, TLAPS

\* Every step keeps every variable in its range.
LEMMA TypeStep == TypeOK /\ [Next]_vars => TypeOK'
<1> SUFFICES ASSUME TypeOK, [Next]_vars PROVE TypeOK'
  OBVIOUS
<1> USE DEF TypeOK, Locations, Call
<1>1. ASSUME NEW t \in Threads, NEW k \in Keys, CallGet(t, k) PROVE TypeOK'
  BY <1>1 DEF CallGet, Enter
<1>2. ASSUME NEW t \in Threads, NEW k \in Keys, CallWait(t, k) PROVE TypeOK'
  BY <1>2 DEF CallWait, Enter
<1>3. ASSUME NEW t \in Threads, NEW k \in Keys, NEW v \in Values, CallPut(t, k, v)
      PROVE TypeOK'
  BY <1>3 DEF CallPut, Enter
<1>4. ASSUME NEW t \in Threads, LockMutex(t) PROVE TypeOK'
  BY <1>4 DEF LockMutex
<1>5. ASSUME NEW t \in Threads, PutBody(t) PROVE TypeOK'
  BY <1>5 DEF PutBody, in_
<1>6. ASSUME NEW t \in Threads, NotifyAll(t) PROVE TypeOK'
  BY <1>6 DEF NotifyAll
<1>7. ASSUME NEW t \in Threads, ReadBody(t) PROVE TypeOK'
  BY <1>7 DEF ReadBody
<1>8. ASSUME NEW t \in Threads, WaitBody(t) PROVE TypeOK'
  BY <1>8 DEF WaitBody
<1>9. ASSUME NEW t \in Threads, SpuriousWake(t) PROVE TypeOK'
  BY <1>9 DEF SpuriousWake
<1>10. ASSUME NEW t \in Threads, UnlockMutex(t) PROVE TypeOK'
  BY <1>10 DEF UnlockMutex
<1>11. ASSUME NEW t \in Threads, Clone(t) PROVE TypeOK'
  BY <1>11 DEF Clone
<1>12. ASSUME NEW t \in Threads, GetAborts(t) PROVE TypeOK'
  BY <1>12 DEF GetAborts
<1>13. CASE UNCHANGED vars
  BY <1>13 DEF vars
<1> QED
  BY <1>1, <1>2, <1>3, <1>4, <1>5, <1>6, <1>7, <1>8, <1>9, <1>10, <1>11, <1>12, <1>13
  DEF Next, Begin, Step

\* Every variable stays in its range: the pointers that get, waitAndGet and put
\* handle are objects that were given to some put, or null.
THEOREM TypeCorrect == Spec => []TypeOK
<1>1. Init => TypeOK
  <2> SUFFICES ASSUME Init PROVE TypeOK
    OBVIOUS
  <2>1. /\ call \in [Threads -> Call]
        /\ pc \in [Threads -> Locations]
    BY DEF Init, Call, Locations
  <2>2. /\ ptr \in [Threads -> Values \cup {NoValue}]
        /\ ret \in [Threads -> Values \cup {NoValue, Garbage}]
        /\ aborted \in BOOLEAN
    BY DEF Init
  <2> QED
    BY <2>1, <2>2 DEF Init, TypeOK
<1> QED
  BY <1>1, TypeStep, PTL DEF Spec
-----------------------------------------------------------------------------
\* Who holds the mutex: exactly the thread between a lock and its release.
MutexInv == \A t \in Threads : InCritical(t) <=> mtx = t

LEMMA MutexStep == TypeOK /\ MutexInv /\ [Next]_vars => MutexInv'
<1> SUFFICES ASSUME TypeOK, MutexInv, [Next]_vars PROVE MutexInv'
  OBVIOUS
<1> USE KVStoreAssumption DEF TypeOK, MutexInv, InCritical, Locations
<1>1. ASSUME NEW t \in Threads, NEW k \in Keys, CallGet(t, k) PROVE MutexInv'
  BY <1>1 DEF CallGet, Enter
<1>2. ASSUME NEW t \in Threads, NEW k \in Keys, CallWait(t, k) PROVE MutexInv'
  BY <1>2 DEF CallWait, Enter
<1>3. ASSUME NEW t \in Threads, NEW k \in Keys, NEW v \in Values, CallPut(t, k, v) PROVE MutexInv'
  BY <1>3 DEF CallPut, Enter
<1>4. ASSUME NEW t \in Threads, LockMutex(t) PROVE MutexInv'
  BY <1>4 DEF LockMutex
<1>5. ASSUME NEW t \in Threads, PutBody(t) PROVE MutexInv'
  BY <1>5 DEF PutBody
<1>6. ASSUME NEW t \in Threads, NotifyAll(t) PROVE MutexInv'
  BY <1>6 DEF NotifyAll
<1>7. ASSUME NEW t \in Threads, ReadBody(t) PROVE MutexInv'
  BY <1>7 DEF ReadBody
<1>8. ASSUME NEW t \in Threads, WaitBody(t) PROVE MutexInv'
  BY <1>8 DEF WaitBody
<1>9. ASSUME NEW t \in Threads, SpuriousWake(t) PROVE MutexInv'
  BY <1>9 DEF SpuriousWake
<1>10. ASSUME NEW t \in Threads, UnlockMutex(t) PROVE MutexInv'
  BY <1>10 DEF UnlockMutex
<1>11. ASSUME NEW t \in Threads, Clone(t) PROVE MutexInv'
  BY <1>11 DEF Clone
<1>12. ASSUME NEW t \in Threads, GetAborts(t) PROVE MutexInv'
  BY <1>12 DEF GetAborts
<1>13. CASE UNCHANGED vars
  BY <1>13 DEF vars
<1> QED
  BY <1>1, <1>2, <1>3, <1>4, <1>5, <1>6, <1>7, <1>8, <1>9, <1>10, <1>11, <1>12, <1>13
  DEF Next, Begin, Step

\* The lock, the wait and the unlock calls of get, waitAndGet and put let at
\* most one thread at a time into their critical sections.
THEOREM MutexCorrect == Spec => []MutualExclusion
<1>1. Init => MutexInv
  BY KVStoreAssumption DEF Init, MutexInv, InCritical
<1>2. MutexInv => MutualExclusion
  BY DEF MutexInv, MutualExclusion
<1> QED
  BY <1>1, <1>2, TypeCorrect, MutexStep, PTL DEF Spec

-----------------------------------------------------------------------------
\* A thread falls asleep holding the mutex and sees no value, so a value that
\* appears while it sleeps comes from a put that has not notified yet.
LEMMA NotifyStep == TypeOK /\ NoMissedNotify /\ [Next]_vars => NoMissedNotify'
<1> SUFFICES ASSUME TypeOK, NoMissedNotify, [Next]_vars PROVE NoMissedNotify'
  OBVIOUS
<1> USE KVStoreAssumption DEF TypeOK, NoMissedNotify, in_, Locations, Call
<1>1. ASSUME NEW t \in Threads, NEW k \in Keys, CallGet(t, k) PROVE NoMissedNotify'
  BY <1>1 DEF CallGet, Enter
<1>2. ASSUME NEW t \in Threads, NEW k \in Keys, CallWait(t, k) PROVE NoMissedNotify'
  BY <1>2 DEF CallWait, Enter
<1>3. ASSUME NEW t \in Threads, NEW k \in Keys, NEW v \in Values, CallPut(t, k, v) PROVE NoMissedNotify'
  BY <1>3 DEF CallPut, Enter
<1>4. ASSUME NEW t \in Threads, LockMutex(t) PROVE NoMissedNotify'
  BY <1>4 DEF LockMutex
<1>5. ASSUME NEW t \in Threads, PutBody(t) PROVE NoMissedNotify'
  BY <1>5 DEF PutBody
<1>6. ASSUME NEW t \in Threads, NotifyAll(t) PROVE NoMissedNotify'
  BY <1>6 DEF NotifyAll
<1>7. ASSUME NEW t \in Threads, ReadBody(t) PROVE NoMissedNotify'
  BY <1>7 DEF ReadBody
<1>8. ASSUME NEW t \in Threads, WaitBody(t) PROVE NoMissedNotify'
  BY <1>8 DEF WaitBody
<1>9. ASSUME NEW t \in Threads, SpuriousWake(t) PROVE NoMissedNotify'
  BY <1>9 DEF SpuriousWake
<1>10. ASSUME NEW t \in Threads, UnlockMutex(t) PROVE NoMissedNotify'
  BY <1>10 DEF UnlockMutex
<1>11. ASSUME NEW t \in Threads, Clone(t) PROVE NoMissedNotify'
  BY <1>11 DEF Clone
<1>12. ASSUME NEW t \in Threads, GetAborts(t) PROVE NoMissedNotify'
  BY <1>12 DEF GetAborts
<1>13. CASE UNCHANGED vars
  BY <1>13 DEF vars
<1> QED
  BY <1>1, <1>2, <1>3, <1>4, <1>5, <1>6, <1>7, <1>8, <1>9, <1>10, <1>11, <1>12, <1>13
  DEF Next, Begin, Step

\* No thread sleeps through the arrival of the value it waits for, however many
\* threads wait and whatever keys they wait for.
THEOREM NotifyCorrect == Spec => []NoMissedNotify
<1>1. Init => NoMissedNotify
  BY DEF Init, NoMissedNotify
<1> QED
  BY <1>1, TypeCorrect, NotifyStep, PTL DEF Spec

-----------------------------------------------------------------------------
\* What a thread's place says of its call: only a waitAndGet sleeps, only a put
\* notifies and it has no pointer to clone, only a get or a waitAndGet clones.
OpInv ==
  \A t \in Threads :
    /\ pc[t] = "asleep" => call[t].op = "wait"
    /\ pc[t] = "notify" => call[t].op = "put"
    /\ pc[t] \in {"notify", "unlock"} /\ call[t].op = "put" => ptr[t] = NoValue
    /\ pc[t] = "clone" => call[t].op # "put"

LEMMA OpStep == TypeOK /\ OpInv /\ [Next]_vars => OpInv'
<1> SUFFICES ASSUME TypeOK, OpInv, [Next]_vars PROVE OpInv'
  OBVIOUS
<1> USE DEF TypeOK, OpInv, Locations, Call
<1>1. ASSUME NEW t \in Threads, NEW k \in Keys, CallGet(t, k) PROVE OpInv'
  BY <1>1 DEF CallGet, Enter
<1>2. ASSUME NEW t \in Threads, NEW k \in Keys, CallWait(t, k) PROVE OpInv'
  BY <1>2 DEF CallWait, Enter
<1>3. ASSUME NEW t \in Threads, NEW k \in Keys, NEW v \in Values, CallPut(t, k, v) PROVE OpInv'
  BY <1>3 DEF CallPut, Enter
<1>4. ASSUME NEW t \in Threads, LockMutex(t) PROVE OpInv'
  BY <1>4 DEF LockMutex
<1>5. ASSUME NEW t \in Threads, PutBody(t) PROVE OpInv'
  BY <1>5 DEF PutBody
<1>6. ASSUME NEW t \in Threads, NotifyAll(t) PROVE OpInv'
  BY <1>6 DEF NotifyAll
<1>7. ASSUME NEW t \in Threads, ReadBody(t) PROVE OpInv'
  BY <1>7 DEF ReadBody
<1>8. ASSUME NEW t \in Threads, WaitBody(t) PROVE OpInv'
  BY <1>8 DEF WaitBody
<1>9. ASSUME NEW t \in Threads, SpuriousWake(t) PROVE OpInv'
  BY <1>9 DEF SpuriousWake
<1>10. ASSUME NEW t \in Threads, UnlockMutex(t) PROVE OpInv'
  BY <1>10 DEF UnlockMutex
<1>11. ASSUME NEW t \in Threads, Clone(t) PROVE OpInv'
  BY <1>11 DEF Clone
<1>12. ASSUME NEW t \in Threads, GetAborts(t) PROVE OpInv'
  BY <1>12 DEF GetAborts
<1>13. CASE UNCHANGED vars
  BY <1>13 DEF vars
<1> QED
  BY <1>1, <1>2, <1>3, <1>4, <1>5, <1>6, <1>7, <1>8, <1>9, <1>10, <1>11, <1>12, <1>13
  DEF Next, Begin, Step

LEMMA OpCorrect == Spec => []OpInv
<1>1. Init => OpInv
  BY DEF Init, OpInv
<1> QED
  BY <1>1, TypeCorrect, OpStep, PTL DEF Spec

-----------------------------------------------------------------------------
\* An object moves from the unused ones to a put, from there into the map, and
\* from the map to the deleted ones, one object and one owner at a time.
LEMMA OwnerStep == TypeOK /\ OpInv /\ OneOwner /\ [Next]_vars => OneOwner'
<1> SUFFICES ASSUME TypeOK, OpInv, OneOwner, [Next]_vars PROVE OneOwner'
  OBVIOUS
<1> USE KVStoreAssumption
    DEF TypeOK, OpInv, OneOwner, in_, Locations, Call
<1>0. ASSUME UNCHANGED <<items, fresh, freed, call>>,
             \A u \in Threads : Putting(u)' <=> Putting(u)
      PROVE  OneOwner'
  BY <1>0
<1>1. ASSUME NEW t \in Threads, NEW k \in Keys, CallGet(t, k) PROVE OneOwner'
  <2>1. ~Putting(t) /\ ~Putting(t)'
    BY <1>1 DEF CallGet, Enter, Putting
  <2>2. \A u \in Threads \ {t} : (Putting(u)' <=> Putting(u)) /\ call'[u] = call[u]
    BY <1>1 DEF CallGet, Enter, Putting
  <2> QED
    BY <2>1, <2>2, <1>1 DEF CallGet, Enter
<1>2. ASSUME NEW t \in Threads, NEW k \in Keys, CallWait(t, k) PROVE OneOwner'
  <2>1. ~Putting(t) /\ ~Putting(t)'
    BY <1>2 DEF CallWait, Enter, Putting
  <2>2. \A u \in Threads \ {t} : (Putting(u)' <=> Putting(u)) /\ call'[u] = call[u]
    BY <1>2 DEF CallWait, Enter, Putting
  <2> QED
    BY <2>1, <2>2, <1>2 DEF CallWait, Enter
<1>3. ASSUME NEW t \in Threads, NEW k \in Keys, NEW v \in Values, CallPut(t, k, v)
      PROVE  OneOwner'
  <2>1. ~Putting(t) /\ Putting(t)' /\ call'[t].val = v /\ v \in fresh
    BY <1>3 DEF CallPut, Enter, Putting
  <2>2. \A u \in Threads \ {t} : (Putting(u)' <=> Putting(u)) /\ call'[u] = call[u]
    BY <1>3 DEF CallPut, Enter, Putting
  <2>3. items' = items /\ freed' = freed /\ fresh' = fresh \ {v}
    BY <1>3 DEF CallPut, Enter
  <2>4. \A w \in Values : \/ w \in (fresh \cup freed)'
                          \/ \E j \in Keys : items'[j] = w
                          \/ \E u \in Threads : Putting(u)' /\ call'[u].val = w
    <3> SUFFICES ASSUME NEW w \in Values, w \notin (fresh \cup freed)', w # v,
                        \A j \in Keys : items[j] # w
                 PROVE  \E u \in Threads : Putting(u)' /\ call'[u].val = w
      BY <2>1, <2>3
    <3>1. PICK u \in Threads : Putting(u) /\ call[u].val = w
      BY <2>3
    <3> QED
      BY <3>1, <2>1, <2>2
  <2>5. \A j \in Keys : items[j] # v
    BY <2>1
  <2>6. \A u \in Threads : Putting(u) => call[u].val # v
    BY <2>1
  <2>7. \A u \in Threads : Putting(u)' => /\ call'[u].val \in Values \ (fresh \cup freed)'
                                          /\ \A j \in Keys : call'[u].val # items'[j]
    BY <2>1, <2>2, <2>3, <2>5, <2>6
  <2>8. \A u, w \in Threads : Putting(u)' /\ Putting(w)' /\ call'[u].val = call'[w].val => u = w
    BY <2>1, <2>2, <2>6
  <2> QED
    BY <2>3, <2>4, <2>7, <2>8
<1>4. ASSUME NEW t \in Threads, LockMutex(t) PROVE OneOwner'
  <2>1. \A u \in Threads : Putting(u)' <=> Putting(u)
    BY <1>4 DEF LockMutex, Putting
  <2> QED
    BY <1>4, <2>1, <1>0 DEF LockMutex
<1>5. ASSUME NEW t \in Threads, PutBody(t) PROVE OneOwner'
  <2> DEFINE k == call[t].key
             v == call[t].val
  <2>1. Putting(t) /\ ~Putting(t)' /\ call' = call /\ fresh' = fresh
    BY <1>5 DEF PutBody, Putting
  <2>2. \A u \in Threads \ {t} : Putting(u)' <=> Putting(u)
    BY <1>5 DEF PutBody, Putting
  <2>3. /\ k \in Keys /\ v \in Values \ (fresh \cup freed)
        /\ \A j \in Keys : items[j] # v
    BY <2>1
  <2>4. /\ items'[k] = v
        /\ \A j \in Keys \ {k} : items'[j] = items[j]
    BY <1>5, <2>3 DEF PutBody
  <2>5. \A w \in Values : w \in freed' <=> w \in freed \/ w = items[k]
    BY <1>5, <2>3 DEF PutBody
  <2>6. freed' \subseteq Values
    BY <1>5, <2>3 DEF PutBody
  <2> HIDE DEF k, v
  <2>7. \A w \in Values : \/ w \in (fresh \cup freed)'
                          \/ \E j \in Keys : items'[j] = w
                          \/ \E u \in Threads : Putting(u)' /\ call'[u].val = w
    <3> SUFFICES ASSUME NEW w \in Values, w # v, w # items[k], w \notin fresh \cup freed
                 PROVE  \/ \E j \in Keys : items'[j] = w
                        \/ \E u \in Threads : Putting(u)' /\ call'[u].val = w
      BY <2>1, <2>3, <2>4, <2>5
    <3>1. CASE \E j \in Keys : items[j] = w
      BY <3>1, <2>4
    <3>2. CASE \E u \in Threads : Putting(u) /\ call[u].val = w
      BY <3>2, <2>1, <2>2 DEF v
    <3> QED
      BY <3>1, <3>2
  <2>8. (fresh \cap freed)' = {}
    BY <2>1, <2>3, <2>5, <2>6
  <2>9. \A j \in Keys : items'[j] \notin (fresh \cup freed)'
    <3> SUFFICES ASSUME NEW j \in Keys PROVE items'[j] \notin (fresh \cup freed)'
      OBVIOUS
    <3>1. CASE j = k
      BY <3>1, <2>1, <2>3, <2>4, <2>5
    <3>2. CASE j # k
      <4>1. items'[j] = items[j] /\ items[j] \notin fresh \cup freed
        BY <3>2, <2>4
      <4>2. CASE items[j] = NoValue
        BY <4>1, <4>2, <2>1, <2>6
      <4>3. CASE items[j] # NoValue
        BY <4>1, <4>3, <3>2, <2>1, <2>3, <2>5
      <4> QED
        BY <4>2, <4>3
    <3> QED
      BY <3>1, <3>2
  <2>10. \A i, j \in Keys : items'[i] # NoValue /\ items'[i] = items'[j] => i = j
    BY <2>3, <2>4
  <2>11. \A u \in Threads : Putting(u)' => /\ call'[u].val \in Values \ (fresh \cup freed)'
                                           /\ \A j \in Keys : call'[u].val # items'[j]
    <3> SUFFICES ASSUME NEW u \in Threads, u # t, Putting(u)
                 PROVE  /\ call[u].val \in Values \ (fresh \cup freed')
                        /\ \A j \in Keys : call[u].val # items'[j]
      BY <2>1, <2>2
    <3>1. call[u].val # v
      BY <2>1 DEF v
    <3>2. call[u].val \in Values \ (fresh \cup freed) /\ \A j \in Keys : call[u].val # items[j]
      OBVIOUS
    <3> QED
      BY <3>1, <3>2, <2>3, <2>4, <2>5
  <2>12. \A u, w \in Threads : Putting(u)' /\ Putting(w)' /\ call'[u].val = call'[w].val => u = w
    BY <2>1, <2>2
  <2> QED
    BY <2>7, <2>8, <2>9, <2>10, <2>11, <2>12
<1>6. ASSUME NEW t \in Threads, NotifyAll(t) PROVE OneOwner'
  <2>1. \A u \in Threads : Putting(u)' <=> Putting(u)
    BY <1>6 DEF NotifyAll, Putting
  <2> QED
    BY <1>6, <2>1, <1>0 DEF NotifyAll
<1>7. ASSUME NEW t \in Threads, ReadBody(t) PROVE OneOwner'
  <2>1. \A u \in Threads : Putting(u)' <=> Putting(u)
    BY <1>7 DEF ReadBody, Putting
  <2> QED
    BY <1>7, <2>1, <1>0 DEF ReadBody
<1>8. ASSUME NEW t \in Threads, WaitBody(t) PROVE OneOwner'
  <2>1. \A u \in Threads : Putting(u)' <=> Putting(u)
    BY <1>8 DEF WaitBody, Putting
  <2> QED
    BY <1>8, <2>1, <1>0 DEF WaitBody
<1>9. ASSUME NEW t \in Threads, SpuriousWake(t) PROVE OneOwner'
  <2>1. \A u \in Threads : Putting(u)' <=> Putting(u)
    BY <1>9 DEF SpuriousWake, Putting
  <2> QED
    BY <1>9, <2>1, <1>0 DEF SpuriousWake
<1>10. ASSUME NEW t \in Threads, UnlockMutex(t) PROVE OneOwner'
  <2>1. \A u \in Threads : Putting(u)' <=> Putting(u)
    BY <1>10 DEF UnlockMutex, Putting
  <2> QED
    BY <1>10, <2>1, <1>0 DEF UnlockMutex
<1>11. ASSUME NEW t \in Threads, Clone(t) PROVE OneOwner'
  <2>1. \A u \in Threads : Putting(u)' <=> Putting(u)
    BY <1>11 DEF Clone, Putting
  <2> QED
    BY <1>11, <2>1, <1>0 DEF Clone
<1>12. ASSUME NEW t \in Threads, GetAborts(t) PROVE OneOwner'
  <2>1. \A u \in Threads : Putting(u)' <=> Putting(u)
    BY <1>12 DEF GetAborts, Putting
  <2> QED
    BY <1>12, <2>1, <1>0 DEF GetAborts
<1>13. CASE UNCHANGED vars
  BY <1>13 DEF vars, Putting
<1> QED
  BY <1>1, <1>2, <1>3, <1>4, <1>5, <1>6, <1>7, <1>8, <1>9, <1>10, <1>11, <1>12, <1>13
  DEF Next, Begin, Step

\* The objects given to puts are each owned once, overwritten keys included: no
\* double delete and no leak.
THEOREM OwnerCorrect == Spec => []OneOwner
<1>1. Init => OneOwner
  BY KVStoreAssumption DEF Init, OneOwner, Putting, in_
<1> QED
  BY <1>1, TypeCorrect, OpCorrect, OwnerStep, PTL DEF Spec
-----------------------------------------------------------------------------
\* Of a key in Once: the put that has not reached the map yet is the only one and
\* finds no value there, so a value once found stays the value of its key.
OnceInv ==
  /\ \A k \in Once : in_(k) => k \in claimed
  /\ \A t \in Threads : Putting(t) /\ call[t].key \in Once =>
       call[t].key \in claimed /\ ~in_(call[t].key)
  /\ \A t, u \in Threads :
       Putting(t) /\ Putting(u) /\ call[t].key \in Once /\ call[t].key = call[u].key => t = u
  /\ \A t \in Threads :
       pc[t] \in {"unlock", "clone"} /\ call[t].op # "put" /\ call[t].key \in Once =>
         in_(call[t].key) /\ ptr[t] = items[call[t].key]

LEMMA OnceStep == TypeOK /\ OpInv /\ OnceInv /\ [Next]_vars => OnceInv'
<1> SUFFICES ASSUME TypeOK, OpInv, OnceInv, [Next]_vars PROVE OnceInv'
  OBVIOUS
<1> USE KVStoreAssumption DEF TypeOK, OpInv, OnceInv, in_, Putting, Locations, Call
<1>1. ASSUME NEW t \in Threads, NEW k \in Keys, CallGet(t, k) PROVE OnceInv'
  BY <1>1 DEF CallGet, Enter
<1>2. ASSUME NEW t \in Threads, NEW k \in Keys, CallWait(t, k) PROVE OnceInv'
  BY <1>2 DEF CallWait, Enter
<1>3. ASSUME NEW t \in Threads, NEW k \in Keys, NEW v \in Values, CallPut(t, k, v) PROVE OnceInv'
  BY <1>3 DEF CallPut, Enter
<1>4. ASSUME NEW t \in Threads, LockMutex(t) PROVE OnceInv'
  BY <1>4 DEF LockMutex
<1>5. ASSUME NEW t \in Threads, PutBody(t) PROVE OnceInv'
  BY <1>5 DEF PutBody
<1>6. ASSUME NEW t \in Threads, NotifyAll(t) PROVE OnceInv'
  BY <1>6 DEF NotifyAll
<1>7. ASSUME NEW t \in Threads, ReadBody(t) PROVE OnceInv'
  BY <1>7 DEF ReadBody
<1>8. ASSUME NEW t \in Threads, WaitBody(t) PROVE OnceInv'
  BY <1>8 DEF WaitBody
<1>9. ASSUME NEW t \in Threads, SpuriousWake(t) PROVE OnceInv'
  BY <1>9 DEF SpuriousWake
<1>10. ASSUME NEW t \in Threads, UnlockMutex(t) PROVE OnceInv'
  <2>1. UNCHANGED <<items, call, ptr, claimed>>
    BY <1>10 DEF UnlockMutex
  <2>2. \A u \in Threads : Putting(u)' <=> Putting(u)
    BY <1>10 DEF UnlockMutex
  <2>3. \A u \in Threads : pc'[u] \in {"unlock", "clone"} => pc[u] \in {"unlock", "clone"}
    BY <1>10 DEF UnlockMutex
  <2> QED
    BY <2>1, <2>2, <2>3
<1>11. ASSUME NEW t \in Threads, Clone(t) PROVE OnceInv'
  BY <1>11 DEF Clone
<1>12. ASSUME NEW t \in Threads, GetAborts(t) PROVE OnceInv'
  BY <1>12 DEF GetAborts
<1>13. CASE UNCHANGED vars
  BY <1>13 DEF vars
<1> QED
  BY <1>1, <1>2, <1>3, <1>4, <1>5, <1>6, <1>7, <1>8, <1>9, <1>10, <1>11, <1>12, <1>13
  DEF Next, Begin, Step

LEMMA OnceCorrect == Spec => []OnceInv
<1>1. Init => OnceInv
  BY KVStoreAssumption DEF Init, OnceInv, in_, Putting
<1> QED
  BY <1>1, TypeCorrect, OpCorrect, OnceStep, PTL DEF Spec

\* Whatever is put, and put again, a get or a waitAndGet can only be cloning a
\* deleted object if its own key was overwritten: puts to the other keys, and
\* the calls that read, never delete it.
THEOREM CloneSafe == Spec => []NoUseAfterFree
<1>1. TypeOK /\ OpInv /\ OnceInv /\ OneOwner => NoUseAfterFree
  <2> SUFFICES ASSUME TypeOK, OpInv, OnceInv, OneOwner,
                      NEW t \in Threads, pc[t] = "clone", ptr[t] \in freed
               PROVE  call[t].key \notin Once /\ items[call[t].key] # ptr[t]
    BY DEF NoUseAfterFree
  <2>1. call[t].op # "put" /\ call[t].key \in Keys
    BY DEF OpInv, TypeOK, Call
  <2>2. items[call[t].key] # ptr[t]
    BY <2>1 DEF OneOwner
  <2>3. call[t].key \notin Once
    BY <2>1, <2>2 DEF OnceInv
  <2> QED
    BY <2>2, <2>3
<1> QED
  BY <1>1, TypeCorrect, OpCorrect, OnceCorrect, OwnerCorrect, PTL
-----------------------------------------------------------------------------
\* A step of the store is a step of the atomic one or leaves it unchanged.
LEMMA AtomicStep ==
  ASSUME TypeOK, OpInv, NoUseAfterFree, [Next]_vars
  PROVE  [Atomic!ANext]_(Atomic!avars)
<1> DEFINE Stutter == UNCHANGED <<items, phaseBar, call, ptr, ret>>
<1> USE DEF TypeOK, Locations, Call, phaseBar, Done
<1>1. ASSUME NEW t \in Threads, NEW k \in Keys, CallGet(t, k) PROVE Atomic!Invoke(t)
  BY <1>1 DEF CallGet, Enter, Atomic!Invoke, Atomic!Request
<1>2. ASSUME NEW t \in Threads, NEW k \in Keys, CallWait(t, k) PROVE Atomic!Invoke(t)
  BY <1>2 DEF CallWait, Enter, Atomic!Invoke, Atomic!Request
<1>3. ASSUME NEW t \in Threads, NEW k \in Keys, NEW v \in Values, CallPut(t, k, v)
      PROVE  Atomic!Invoke(t)
  BY <1>3 DEF CallPut, Enter, Atomic!Invoke, Atomic!Request
<1>4. ASSUME NEW t \in Threads, LockMutex(t) PROVE Stutter
  BY <1>4 DEF LockMutex
<1>5. ASSUME NEW t \in Threads, PutBody(t) PROVE Atomic!Install(t)
  BY <1>5 DEF PutBody, Atomic!Install
<1>6. ASSUME NEW t \in Threads, NotifyAll(t) PROVE Stutter
  BY <1>6 DEF NotifyAll
<1>7. ASSUME NEW t \in Threads, ReadBody(t) PROVE Atomic!Observe(t)
  BY <1>7 DEF ReadBody, in_, Atomic!Observe
<1>8. ASSUME NEW t \in Threads, WaitBody(t) PROVE Stutter
  BY <1>8 DEF WaitBody
<1>9. ASSUME NEW t \in Threads, SpuriousWake(t) PROVE Stutter
  BY <1>9 DEF SpuriousWake
<1>10. ASSUME NEW t \in Threads, UnlockMutex(t) PROVE Stutter \/ Atomic!Return(t)
  <2>1. CASE call[t].op = "put"
    BY <1>10, <2>1 DEF UnlockMutex, OpInv, Atomic!Return, Atomic!Replaced
  <2>2. CASE call[t].op # "put"
    BY <1>10, <2>2 DEF UnlockMutex
  <2> QED
    BY <2>1, <2>2
<1>11. ASSUME NEW t \in Threads, Clone(t) PROVE Atomic!Return(t)
  <2>1. ptr[t] \in freed => Atomic!Replaced(t)
    BY <1>11 DEF Clone, NoUseAfterFree, OpInv, Atomic!Replaced
  <2> QED
    BY <1>11, <2>1 DEF Clone, Atomic!Return
<1>12. ASSUME NEW t \in Threads, GetAborts(t) PROVE Stutter
  BY <1>12 DEF GetAborts
<1>13. CASE UNCHANGED vars
  BY <1>13 DEF vars, Atomic!avars
<1> QED
  BY <1>1, <1>2, <1>3, <1>4, <1>5, <1>6, <1>7, <1>8, <1>9, <1>10, <1>11, <1>12, <1>13
  DEF Next, Begin, Step, Atomic!ANext, Atomic!avars

\* The store implements the atomic store: every get, waitAndGet and put takes
\* effect at one instant within its call, and what a read returns is the value
\* it found then, unless its key may be put again and was, before it returned.
THEOREM LinearizableCorrect == Spec => Linearizable
<1>1. Init => Atomic!AInit
  BY DEF Init, phaseBar, Done, Atomic!AInit, Atomic!Request
<1>2. TypeOK /\ OpInv /\ NoUseAfterFree /\ [Next]_vars => [Atomic!ANext]_(Atomic!avars)
  BY AtomicStep
<1> QED
  BY <1>1, <1>2, TypeCorrect, OpCorrect, CloneSafe, PTL DEF Spec, Linearizable, Atomic!ASpec
=============================================================================
