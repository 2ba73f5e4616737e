--------------------------- MODULE IdentityProofs ---------------------------
(***************************************************************************)
(* What MCIdentities states of thread identities, proved for any number of *)
(* threads, identities and posts.                                          *)
(*                                                                         *)
(* The argument.  An identity is in exactly one place: a thread's pointer, *)
(* the hands of a thread that creates or reclaims it, or the free list     *)
(* (InHands, InOnePlace); what its waiter's state is while it is queued,   *)
(* dequeued or being posted to (QueuedState), and the posts it has got     *)
(* (PostsBounded), follow from who can reach it there.                     *)
(***************************************************************************)
EXTENDS MCIdentities, Sequences, FiniteSetTheorems, TLAPS

\* The cardinality that the instance takes from FiniteSets.
LEMMA IdentityCardinality == \A S : TI!Cardinality(S) = Cardinality(S)
  BY DEF TI!Cardinality, Cardinality

\* What each variable holds; the two thread-local copies of the pointer agree.
IdentityTypes ==
    /\ allocated \subseteq Identities
    /\ thread_identity_ptr \in [Waiters -> allocated \cup {NoIdentity}]
    /\ key = thread_identity_ptr
    /\ local \in [Waiters -> allocated \cup {NoIdentity}]
    /\ ti_pc \in [Waiters -> {"run", "create", "create_dying", "check", "wait",
                              "dying", "reclaim"}]
    /\ state \in [Identities -> {"kAvailable", "kQueued"}]
    /\ sem \in [Identities -> Nat] /\ posting \in [Identities -> Nat]
    /\ thread_identity_freelist \in Seq(allocated)
    /\ queue \subseteq allocated /\ dequeued \subseteq allocated

\* A thread has an identity in its hands only between NewThreadIdentity and
\* SetCurrentThreadIdentity, and between the two halves of its reclamation.
InHands ==
    \A t \in Waiters :
        /\ local[t] # NoIdentity <=> ti_pc[t] \in {"create", "create_dying", "reclaim"}
        /\ local[t] # NoIdentity => thread_identity_ptr[t] = NoIdentity
        /\ ti_pc[t] \in {"check", "wait"} => thread_identity_ptr[t] # NoIdentity

Has(t, i) == i \in {thread_identity_ptr[t], local[t]}

\* No identity is in two places.
InOnePlace ==
    /\ \A t, u \in Waiters : \A i \in allocated : Has(t, i) /\ Has(u, i) => t = u
    /\ \A m, n \in 1..Len(thread_identity_freelist) :
         thread_identity_freelist[m] = thread_identity_freelist[n] => m = n
    /\ \A n \in 1..Len(thread_identity_freelist) : \A t \in Waiters :
         ~Has(t, thread_identity_freelist[n])

\* The state says kQueued from Block to the waker's store.
QueuedState ==
    /\ queue \cap dequeued = {}
    /\ \A i \in Identities : state[i] = "kQueued" <=> i \in queue \cup dequeued

\* A waker that has dequeued somebody has room for its post.
PostsBounded ==
    \A i \in Identities :
        sem[i] + posting[i] + (IF i \in dequeued THEN 1 ELSE 0) <= MaxPosts

\* The inductive invariant.
IdentityIInv ==
    /\ IdentityTypes /\ InHands /\ InOnePlace /\ QueuedState /\ PostsBounded
    /\ TI!StoreHitsItsWaiter /\ TI!LateEnough

\* The initial state satisfies it: no identity exists.
LEMMA IdentityInitInv == TI!Init => IdentityIInv
  BY IdentityAssumption DEF TI!Init, IdentityIInv, IdentityTypes, InHands, InOnePlace, Has,
     QueuedState, PostsBounded, TI!StoreHitsItsWaiter, TI!LateEnough

\* Every step of a thread or a waker keeps it.
LEMMA IdentityNextInv == IdentityIInv /\ [TI!Next]_(TI!vars) => IdentityIInv'
<1> SUFFICES ASSUME IdentityIInv, [TI!Next]_(TI!vars) PROVE IdentityIInv'
  OBVIOUS
<1> USE IdentityAssumption DEF IdentityIInv, TI!Goto
<1>1. ASSUME NEW t \in Waiters, TI!NewThreadIdentity(t) PROVE IdentityIInv'
  <2> DEFINE fl == thread_identity_freelist
  <2>a. CASE fl # << >>
    <3>1. /\ local' = [local EXCEPT ![t] = fl[1]] /\ fl' = Tail(fl)
          /\ allocated' = allocated /\ sem' = sem
          /\ ti_pc[t] \in {"run", "dying"} /\ thread_identity_ptr[t] = NoIdentity
          /\ ti_pc' = [ti_pc EXCEPT ![t] = IF ti_pc[t] = "run" THEN "create" ELSE "create_dying"]
          /\ UNCHANGED <<thread_identity_ptr, key, state, queue, dequeued, posting>>
      BY <1>1, <2>a DEF TI!NewThreadIdentity, TI!tls, TI!wakers
    <3>2. /\ fl \in Seq(allocated) /\ Len(fl) \in Nat /\ Len(fl) > 0
          /\ fl[1] \in allocated /\ fl[1] # NoIdentity
      BY <2>a DEF IdentityTypes
    <3>3. /\ fl' \in Seq(allocated) /\ Len(fl') = Len(fl) - 1
          /\ \A n \in 1..Len(fl') : fl'[n] = fl[n + 1]
      BY <3>1, <3>2
    <3>4. IdentityTypes'
      BY <3>1, <3>2, <3>3 DEF IdentityTypes
    <3>5. InHands'
      BY <3>1, <3>2 DEF IdentityTypes, InHands
    <3>6. InOnePlace'
      <4>1. \A u \in Waiters : \A i \in allocated : Has(u, i)' =>
              Has(u, i) \/ (u = t /\ i = fl[1])
        BY <3>1 DEF IdentityTypes, Has
      <4>2. \A u \in Waiters : ~Has(u, fl[1])
        BY <3>2 DEF InOnePlace
      <4>3. \A u, w \in Waiters : \A i \in allocated' : Has(u, i)' /\ Has(w, i)' => u = w
        BY <3>1, <4>1, <4>2 DEF InOnePlace
      <4>4. \A m, n \in 1..Len(fl') : fl'[m] = fl'[n] => m = n
        BY <3>2, <3>3 DEF InOnePlace
      <4>5. \A n \in 1..Len(fl') : fl'[n] \in allocated /\ fl'[n] # fl[1]
              /\ \A u \in Waiters : ~Has(u, fl'[n])
        <5> SUFFICES ASSUME NEW n \in 1..Len(fl')
                     PROVE  fl'[n] \in allocated /\ fl'[n] # fl[1]
                            /\ \A u \in Waiters : ~Has(u, fl'[n])
          OBVIOUS
        <5>1. /\ fl'[n] = fl[n + 1] /\ n + 1 \in 1..Len(fl) /\ 1 \in 1..Len(fl) /\ n + 1 # 1
          BY <3>2, <3>3
        <5> QED BY <3>2, <5>1 DEF InOnePlace
      <4> QED BY <4>1, <4>3, <4>4, <4>5 DEF InOnePlace
    <3>7. QueuedState' /\ PostsBounded'
      BY <3>1 DEF IdentityTypes, QueuedState, PostsBounded
    <3>8. TI!StoreHitsItsWaiter'
      BY <3>1 DEF IdentityTypes, TI!StoreHitsItsWaiter
    <3>9. TI!LateEnough'
      BY <3>1 DEF IdentityTypes, TI!LateEnough
    <3> QED
      BY <3>4, <3>5, <3>6, <3>7, <3>8, <3>9
  <2>b. CASE fl = << >>
    <3>1. PICK i \in Identities \ allocated :
            /\ local' = [local EXCEPT ![t] = i]
            /\ allocated' = allocated \cup {i}
            /\ sem' = [sem EXCEPT ![i] = 0]
      BY <1>1, <2>b DEF TI!NewThreadIdentity
    <3>2. /\ ti_pc[t] \in {"run", "dying"} /\ thread_identity_ptr[t] = NoIdentity /\ fl' = fl
          /\ ti_pc' = [ti_pc EXCEPT ![t] = IF ti_pc[t] = "run" THEN "create" ELSE "create_dying"]
          /\ UNCHANGED <<thread_identity_ptr, key, state, queue, dequeued, posting>>
      BY <1>1, <2>b DEF TI!NewThreadIdentity, TI!tls, TI!wakers
    <3>3. IdentityTypes'
      BY <2>b, <3>1, <3>2 DEF IdentityTypes
    <3>4. InHands'
      BY <3>1, <3>2 DEF IdentityTypes, InHands
    <3>5. InOnePlace'
      <4>1. \A u \in Waiters : \A j \in allocated' : Has(u, j)' =>
              (j \in allocated /\ Has(u, j)) \/ (u = t /\ j = i)
        BY <3>1, <3>2 DEF IdentityTypes, Has
      <4>2. \A u, w \in Waiters : \A j \in allocated' : Has(u, j)' /\ Has(w, j)' => u = w
        BY <3>1, <4>1 DEF InOnePlace
      <4> QED BY <2>b, <3>2, <4>2 DEF InOnePlace
    <3>6. PostsBounded'
      BY <3>1, <3>2 DEF IdentityTypes, PostsBounded
    <3>7. TI!LateEnough'
      BY <3>1, <3>2 DEF IdentityTypes, TI!LateEnough
    <3> QED
      BY <3>1, <3>2, <3>3, <3>4, <3>5, <3>6, <3>7 DEF IdentityTypes, QueuedState,
         TI!StoreHitsItsWaiter
  <2> QED BY <2>a, <2>b
<1>2. ASSUME NEW t \in Waiters, TI!SetCurrentThreadIdentity(t) PROVE IdentityIInv'
  <2>1. IdentityTypes'
    BY <1>2 DEF IdentityTypes, InHands, TI!SetCurrentThreadIdentity, TI!pool,
       TI!wakers
  <2>2. InHands'
    BY <1>2 DEF IdentityTypes, InHands, TI!SetCurrentThreadIdentity, TI!pool,
       TI!wakers
  <2>3. InOnePlace'
    BY <1>2 DEF IdentityTypes, InHands, InOnePlace, Has,
       TI!SetCurrentThreadIdentity, TI!pool, TI!wakers
  <2>4. QueuedState'
    <3>1. local[t] \in allocated /\ local[t] # NoIdentity
      BY <1>2 DEF TI!SetCurrentThreadIdentity, IdentityTypes, InHands
    <3>2. local[t] \notin queue \cup dequeued
      BY <1>2, <3>1 DEF TI!SetCurrentThreadIdentity, InOnePlace, Has, TI!StoreHitsItsWaiter
    <3> QED
      BY <1>2, <3>1, <3>2 DEF TI!SetCurrentThreadIdentity, TI!wakers, IdentityTypes, QueuedState
  <2>5. PostsBounded'
    BY <1>2 DEF IdentityTypes, PostsBounded, TI!SetCurrentThreadIdentity,
       TI!pool, TI!wakers
  <2>6. TI!StoreHitsItsWaiter'
    BY <1>2 DEF IdentityTypes, InHands, InOnePlace, Has, QueuedState,
       TI!StoreHitsItsWaiter, TI!SetCurrentThreadIdentity, TI!pool, TI!wakers
  <2>7. TI!LateEnough'
    BY <1>2 DEF IdentityTypes, InHands, InOnePlace, Has, QueuedState,
       TI!LateEnough, TI!SetCurrentThreadIdentity, TI!pool, TI!wakers
  <2> QED BY <2>1, <2>2, <2>3, <2>4, <2>5, <2>6, <2>7
<1>3. ASSUME NEW t \in Waiters, TI!Block(t) PROVE IdentityIInv'
  <2>1. IdentityTypes'
    BY <1>3 DEF IdentityTypes, InHands, TI!Block, TI!tls, TI!pool
  <2>2. InHands'
    BY <1>3 DEF IdentityTypes, InHands, TI!Block, TI!tls, TI!pool
  <2>3. InOnePlace'
    BY <1>3 DEF IdentityTypes, InHands, InOnePlace, Has, TI!Block, TI!tls,
       TI!pool
  <2>4. QueuedState'
    <3> DEFINE i == thread_identity_ptr[t]
    <3>1. i \in allocated
      BY <1>3 DEF TI!Block, IdentityTypes
    <3>2. i \notin queue \cup dequeued
      BY <1>3, <3>1 DEF TI!Block, InOnePlace, Has, TI!StoreHitsItsWaiter
    <3> QED BY <1>3, <3>1, <3>2 DEF TI!Block, IdentityTypes, QueuedState
  <2>5. PostsBounded'
    BY <1>3 DEF IdentityTypes, PostsBounded, TI!Block, TI!tls, TI!pool
  <2>6. TI!StoreHitsItsWaiter'
    BY <1>3 DEF IdentityTypes, InHands, InOnePlace, Has, QueuedState,
       TI!StoreHitsItsWaiter, TI!Block, TI!tls, TI!pool
  <2>7. TI!LateEnough'
    BY <1>3 DEF IdentityTypes, InHands, InOnePlace, Has, QueuedState,
       TI!LateEnough, TI!Block, TI!tls, TI!pool
  <2> QED BY <2>1, <2>2, <2>3, <2>4, <2>5, <2>6, <2>7
<1>4. ASSUME NEW t \in Waiters, TI!BlockCheck(t) PROVE IdentityIInv'
  <2>1. IdentityTypes'
    BY <1>4 DEF IdentityTypes, InHands, TI!BlockCheck, TI!tls, TI!pool,
       TI!wakers
  <2>2. InHands'
    BY <1>4 DEF IdentityTypes, InHands, TI!BlockCheck, TI!tls, TI!pool,
       TI!wakers
  <2>3. InOnePlace'
    BY <1>4 DEF IdentityTypes, InHands, InOnePlace, Has, TI!BlockCheck,
       TI!tls, TI!pool, TI!wakers
  <2>4. QueuedState'
    BY <1>4 DEF IdentityTypes, InHands, QueuedState, TI!BlockCheck, TI!tls,
       TI!pool, TI!wakers
  <2>5. PostsBounded'
    BY <1>4 DEF IdentityTypes, PostsBounded, TI!BlockCheck, TI!tls, TI!pool,
       TI!wakers
  <2>6. TI!StoreHitsItsWaiter'
    BY <1>4 DEF IdentityTypes, InHands, InOnePlace, Has, QueuedState,
       TI!StoreHitsItsWaiter, TI!BlockCheck, TI!tls, TI!pool, TI!wakers
  <2>7. TI!LateEnough'
    BY <1>4 DEF IdentityTypes, InHands, InOnePlace, Has, QueuedState,
       TI!LateEnough, TI!BlockCheck, TI!tls, TI!pool, TI!wakers
  <2> QED BY <2>1, <2>2, <2>3, <2>4, <2>5, <2>6, <2>7
<1>5. ASSUME NEW t \in Waiters, TI!BlockWoken(t) PROVE IdentityIInv'
  <2>1. IdentityTypes'
    BY <1>5 DEF IdentityTypes, InHands, TI!BlockWoken, TI!tls, TI!pool,
       TI!wakers
  <2>2. InHands'
    BY <1>5 DEF IdentityTypes, InHands, TI!BlockWoken, TI!tls, TI!pool,
       TI!wakers
  <2>3. InOnePlace'
    BY <1>5 DEF IdentityTypes, InHands, InOnePlace, Has, TI!BlockWoken,
       TI!tls, TI!pool, TI!wakers
  <2>4. QueuedState'
    BY <1>5 DEF IdentityTypes, InHands, QueuedState, TI!BlockWoken, TI!tls,
       TI!pool, TI!wakers
  <2>5. PostsBounded'
    BY <1>5 DEF IdentityTypes, PostsBounded, TI!BlockWoken, TI!tls, TI!pool,
       TI!wakers
  <2>6. TI!StoreHitsItsWaiter'
    BY <1>5 DEF IdentityTypes, InHands, InOnePlace, Has, QueuedState,
       TI!StoreHitsItsWaiter, TI!BlockWoken, TI!tls, TI!pool, TI!wakers
  <2>7. TI!LateEnough'
    BY <1>5 DEF IdentityTypes, InHands, InOnePlace, Has, QueuedState,
       TI!LateEnough, TI!BlockWoken, TI!tls, TI!pool, TI!wakers
  <2> QED BY <2>1, <2>2, <2>3, <2>4, <2>5, <2>6, <2>7
<1>6. ASSUME NEW t \in Waiters, TI!BlockTimeout(t) PROVE IdentityIInv'
  <2>1. IdentityTypes'
    BY <1>6 DEF IdentityTypes, InHands, TI!BlockTimeout, TI!tls, TI!pool
  <2>2. InHands'
    BY <1>6 DEF IdentityTypes, InHands, TI!BlockTimeout, TI!tls, TI!pool
  <2>3. InOnePlace'
    BY <1>6 DEF IdentityTypes, InHands, InOnePlace, Has, TI!BlockTimeout,
       TI!tls, TI!pool
  <2>4. QueuedState'
    BY <1>6 DEF IdentityTypes, InHands, QueuedState, TI!BlockTimeout, TI!tls,
       TI!pool
  <2>5. PostsBounded'
    BY <1>6 DEF IdentityTypes, PostsBounded, TI!BlockTimeout, TI!tls, TI!pool
  <2>6. TI!StoreHitsItsWaiter'
    BY <1>6 DEF IdentityTypes, InHands, InOnePlace, Has, QueuedState,
       TI!StoreHitsItsWaiter, TI!BlockTimeout, TI!tls, TI!pool
  <2>7. TI!LateEnough'
    BY <1>6 DEF IdentityTypes, InHands, InOnePlace, Has, QueuedState,
       TI!LateEnough, TI!BlockTimeout, TI!tls, TI!pool
  <2> QED BY <2>1, <2>2, <2>3, <2>4, <2>5, <2>6, <2>7
<1>7. ASSUME NEW t \in Waiters, TI!Exit(t) PROVE IdentityIInv'
  <2>1. IdentityTypes'
    BY <1>7 DEF IdentityTypes, InHands, TI!Exit, TI!tls, TI!pool, TI!wakers
  <2>2. InHands'
    BY <1>7 DEF IdentityTypes, InHands, TI!Exit, TI!tls, TI!pool, TI!wakers
  <2>3. InOnePlace'
    BY <1>7 DEF IdentityTypes, InHands, InOnePlace, Has, TI!Exit, TI!tls,
       TI!pool, TI!wakers
  <2>4. QueuedState'
    BY <1>7 DEF IdentityTypes, InHands, QueuedState, TI!Exit, TI!tls, TI!pool,
       TI!wakers
  <2>5. PostsBounded'
    BY <1>7 DEF IdentityTypes, PostsBounded, TI!Exit, TI!tls, TI!pool,
       TI!wakers
  <2>6. TI!StoreHitsItsWaiter'
    BY <1>7 DEF IdentityTypes, InHands, InOnePlace, Has, QueuedState,
       TI!StoreHitsItsWaiter, TI!Exit, TI!tls, TI!pool, TI!wakers
  <2>7. TI!LateEnough'
    BY <1>7 DEF IdentityTypes, InHands, InOnePlace, Has, QueuedState,
       TI!LateEnough, TI!Exit, TI!tls, TI!pool, TI!wakers
  <2> QED BY <2>1, <2>2, <2>3, <2>4, <2>5, <2>6, <2>7
<1>8. ASSUME NEW t \in Waiters, TI!ClearCurrentThreadIdentity(t) PROVE IdentityIInv'
  <2>1. IdentityTypes'
    BY <1>8 DEF IdentityTypes, InHands, TI!ClearCurrentThreadIdentity,
       TI!pool, TI!wakers
  <2>2. InHands'
    BY <1>8 DEF IdentityTypes, InHands, TI!ClearCurrentThreadIdentity,
       TI!pool, TI!wakers
  <2>3. InOnePlace'
    BY <1>8 DEF IdentityTypes, InHands, InOnePlace, Has,
       TI!ClearCurrentThreadIdentity, TI!pool, TI!wakers
  <2>4. QueuedState'
    BY <1>8 DEF IdentityTypes, InHands, QueuedState,
       TI!ClearCurrentThreadIdentity, TI!pool, TI!wakers
  <2>5. PostsBounded'
    BY <1>8 DEF IdentityTypes, PostsBounded, TI!ClearCurrentThreadIdentity,
       TI!pool, TI!wakers
  <2>6. TI!StoreHitsItsWaiter'
    BY <1>8 DEF IdentityTypes, InHands, InOnePlace, Has, QueuedState,
       TI!StoreHitsItsWaiter, TI!ClearCurrentThreadIdentity, TI!pool,
       TI!wakers
  <2>7. TI!LateEnough'
    BY <1>8 DEF IdentityTypes, InHands, InOnePlace, Has, QueuedState,
       TI!LateEnough, TI!ClearCurrentThreadIdentity, TI!pool, TI!wakers
  <2> QED BY <2>1, <2>2, <2>3, <2>4, <2>5, <2>6, <2>7
<1>9. ASSUME NEW t \in Waiters, TI!ReclaimThreadIdentity(t) PROVE IdentityIInv'
  <2>1. IdentityTypes'
    BY <1>9 DEF IdentityTypes, InHands, TI!ReclaimThreadIdentity, TI!tls,
       TI!wakers
  <2>2. InHands'
    BY <1>9 DEF IdentityTypes, InHands, TI!ReclaimThreadIdentity, TI!tls,
       TI!wakers
  <2>3. InOnePlace'
    <3> DEFINE fl == thread_identity_freelist
    <3>1. /\ local[t] \in allocated /\ local[t] # NoIdentity /\ thread_identity_ptr[t] = NoIdentity
          /\ local' = [local EXCEPT ![t] = NoIdentity] /\ fl' = <<local[t]>> \o fl
          /\ allocated' = allocated /\ thread_identity_ptr' = thread_identity_ptr
      BY <1>9 DEF TI!ReclaimThreadIdentity, TI!tls, IdentityTypes, InHands
    <3>2. /\ fl \in Seq(allocated) /\ Len(fl) \in Nat /\ Len(fl') = Len(fl) + 1
          /\ \A n \in 1..Len(fl') : fl'[n] = IF n = 1 THEN local[t] ELSE fl[n - 1]
      BY <3>1 DEF IdentityTypes
    <3>3. \A u \in Waiters : \A j \in allocated :
            Has(u, j)' => Has(u, j) /\ (u # t \/ j # local[t])
      BY <3>1, IdentityAssumption DEF IdentityTypes, Has
    <3>4. \A u \in Waiters : Has(u, local[t]) => u = t
      BY <3>1 DEF InOnePlace, Has
    <3>5. \A n \in 1..Len(fl) : fl[n] \in allocated /\ fl[n] # local[t]
            /\ \A u \in Waiters : ~Has(u, fl[n])
      BY <3>2 DEF InOnePlace, Has
    <3>6. \A n \in 1..Len(fl') : n # 1 => n - 1 \in 1..Len(fl) /\ fl'[n] = fl[n - 1]
      BY <3>2
    <3>7. \A m, n \in 1..Len(fl') : fl'[m] = fl'[n] => m = n
      <4> SUFFICES ASSUME NEW m \in 1..Len(fl'), NEW n \in 1..Len(fl'), fl'[m] = fl'[n]
                   PROVE  m = n
        OBVIOUS
      <4>1. CASE m = 1 \/ n = 1
        BY <4>1, <3>2, <3>5, <3>6
      <4>2. CASE m # 1 /\ n # 1
        <5>1. m - 1 \in 1..Len(fl) /\ n - 1 \in 1..Len(fl) /\ fl[m - 1] = fl[n - 1]
          BY <4>2, <3>6
        <5>2. m - 1 = n - 1
          BY <5>1 DEF InOnePlace
        <5> QED BY <5>2
      <4> QED BY <4>1, <4>2
    <3>8. \A n \in 1..Len(fl') : \A u \in Waiters :
            fl'[n] \notin {thread_identity_ptr'[u], local'[u]}
      <4> SUFFICES ASSUME NEW n \in 1..Len(fl'), NEW u \in Waiters
                   PROVE  fl'[n] \notin {thread_identity_ptr'[u], local'[u]}
        OBVIOUS
      <4>1. CASE n = 1
        BY <4>1, <3>1, <3>2, <3>3, <3>4 DEF Has
      <4>2. CASE n # 1
        BY <4>2, <3>3, <3>5, <3>6 DEF Has
      <4> QED BY <4>1, <4>2
    <3>9. \A u, w \in Waiters : \A j \in allocated' : Has(u, j)' /\ Has(w, j)' => u = w
      BY <3>1, <3>3 DEF InOnePlace
    <3> QED BY <3>7, <3>8, <3>9 DEF InOnePlace, Has
  <2>4. QueuedState'
    BY <1>9 DEF IdentityTypes, InHands, QueuedState, TI!ReclaimThreadIdentity,
       TI!tls, TI!wakers
  <2>5. PostsBounded'
    BY <1>9 DEF IdentityTypes, PostsBounded, TI!ReclaimThreadIdentity, TI!tls,
       TI!wakers
  <2>6. TI!StoreHitsItsWaiter'
    BY <1>9 DEF IdentityTypes, InHands, InOnePlace, Has, QueuedState,
       TI!StoreHitsItsWaiter, TI!ReclaimThreadIdentity, TI!tls, TI!wakers
  <2>7. TI!LateEnough'
    BY <1>9 DEF IdentityTypes, InHands, InOnePlace, Has, QueuedState,
       TI!LateEnough, TI!ReclaimThreadIdentity, TI!tls, TI!wakers
  <2> QED BY <2>1, <2>2, <2>3, <2>4, <2>5, <2>6, <2>7
<1>10. ASSUME NEW t \in Waiters, TI!NewThread(t) PROVE IdentityIInv'
  <2>1. IdentityTypes'
    BY <1>10 DEF IdentityTypes, InHands, TI!NewThread, TI!pool, TI!wakers
  <2>2. InHands'
    BY <1>10 DEF IdentityTypes, InHands, TI!NewThread, TI!pool, TI!wakers
  <2>3. InOnePlace'
    <3>1. UNCHANGED <<thread_identity_freelist, allocated, local>>
      BY <1>10 DEF TI!NewThread, TI!pool
    <3>2. \A n \in 1..Len(thread_identity_freelist) : thread_identity_freelist[n] \in allocated
      BY DEF IdentityTypes
    <3>3. \A u \in Waiters : \A i \in allocated : Has(u, i)' => Has(u, i)
      BY <1>10, <3>1 DEF TI!NewThread, IdentityTypes, Has
    <3> QED BY <3>1, <3>2, <3>3 DEF InOnePlace
  <2>4. QueuedState'
    BY <1>10 DEF IdentityTypes, InHands, QueuedState, TI!NewThread, TI!pool,
       TI!wakers
  <2>5. PostsBounded'
    BY <1>10 DEF IdentityTypes, PostsBounded, TI!NewThread, TI!pool, TI!wakers
  <2>6. TI!StoreHitsItsWaiter'
    BY <1>10 DEF IdentityTypes, InHands, InOnePlace, Has, QueuedState,
       TI!StoreHitsItsWaiter, TI!NewThread, TI!pool, TI!wakers
  <2>7. TI!LateEnough'
    BY <1>10 DEF IdentityTypes, InHands, InOnePlace, Has, QueuedState,
       TI!LateEnough, TI!NewThread, TI!pool, TI!wakers
  <2> QED BY <2>1, <2>2, <2>3, <2>4, <2>5, <2>6, <2>7
<1>11. ASSUME NEW i \in Identities, TI!Dequeue(i) PROVE IdentityIInv'
  <2>1. IdentityTypes'
    BY <1>11 DEF IdentityTypes, InHands, TI!Dequeue, TI!tls, TI!pool
  <2>2. InHands'
    BY <1>11 DEF IdentityTypes, InHands, TI!Dequeue, TI!tls, TI!pool
  <2>3. InOnePlace'
    BY <1>11 DEF IdentityTypes, InHands, InOnePlace, Has, TI!Dequeue, TI!tls,
       TI!pool
  <2>4. QueuedState'
    BY <1>11 DEF IdentityTypes, InHands, QueuedState, TI!Dequeue, TI!tls,
       TI!pool
  <2>5. PostsBounded'
    BY <1>11 DEF IdentityTypes, PostsBounded, TI!Dequeue, TI!tls, TI!pool
  <2>6. TI!StoreHitsItsWaiter'
    BY <1>11 DEF IdentityTypes, InHands, InOnePlace, Has, QueuedState,
       TI!StoreHitsItsWaiter, TI!Dequeue, TI!tls, TI!pool
  <2>7. TI!LateEnough'
    BY <1>11 DEF IdentityTypes, InHands, InOnePlace, Has, QueuedState,
       TI!LateEnough, TI!Dequeue, TI!tls, TI!pool
  <2> QED BY <2>1, <2>2, <2>3, <2>4, <2>5, <2>6, <2>7
<1>12. ASSUME NEW i \in Identities, TI!WakeupStore(i) PROVE IdentityIInv'
  <2>1. IdentityTypes'
    BY <1>12 DEF IdentityTypes, InHands, TI!WakeupStore, TI!tls, TI!pool
  <2>2. InHands'
    BY <1>12 DEF IdentityTypes, InHands, TI!WakeupStore, TI!tls, TI!pool
  <2>3. InOnePlace'
    BY <1>12 DEF IdentityTypes, InHands, InOnePlace, Has, TI!WakeupStore,
       TI!tls, TI!pool
  <2>4. QueuedState'
    BY <1>12 DEF IdentityTypes, InHands, QueuedState, TI!WakeupStore, TI!tls,
       TI!pool
  <2>5. PostsBounded'
    BY <1>12 DEF IdentityTypes, PostsBounded, TI!WakeupStore, TI!tls, TI!pool
  <2>6. TI!StoreHitsItsWaiter'
    BY <1>12 DEF IdentityTypes, InHands, InOnePlace, Has, QueuedState,
       TI!StoreHitsItsWaiter, TI!WakeupStore, TI!tls, TI!pool
  <2>7. TI!LateEnough'
    BY <1>12 DEF IdentityTypes, InHands, InOnePlace, Has, QueuedState,
       TI!LateEnough, TI!WakeupStore, TI!tls, TI!pool
  <2> QED BY <2>1, <2>2, <2>3, <2>4, <2>5, <2>6, <2>7
<1>13. ASSUME NEW i \in Identities, TI!WakeupPost(i) PROVE IdentityIInv'
  <2>1. IdentityTypes'
    BY <1>13 DEF IdentityTypes, InHands, TI!WakeupPost, TI!tls, TI!pool
  <2>2. InHands'
    BY <1>13 DEF IdentityTypes, InHands, TI!WakeupPost, TI!tls, TI!pool
  <2>3. InOnePlace'
    BY <1>13 DEF IdentityTypes, InHands, InOnePlace, Has, TI!WakeupPost,
       TI!tls, TI!pool
  <2>4. QueuedState'
    BY <1>13 DEF IdentityTypes, InHands, QueuedState, TI!WakeupPost, TI!tls,
       TI!pool
  <2>5. PostsBounded'
    BY <1>13 DEF IdentityTypes, PostsBounded, TI!WakeupPost, TI!tls, TI!pool
  <2>6. TI!StoreHitsItsWaiter'
    BY <1>13 DEF IdentityTypes, InHands, InOnePlace, Has, QueuedState,
       TI!StoreHitsItsWaiter, TI!WakeupPost, TI!tls, TI!pool
  <2>7. TI!LateEnough'
    BY <1>13 DEF IdentityTypes, InHands, InOnePlace, Has, QueuedState,
       TI!LateEnough, TI!WakeupPost, TI!tls, TI!pool
  <2> QED BY <2>1, <2>2, <2>3, <2>4, <2>5, <2>6, <2>7
<1>14. CASE UNCHANGED TI!vars
  BY <1>14 DEF TI!vars, IdentityTypes, InHands, InOnePlace, Has, QueuedState,
     PostsBounded, TI!StoreHitsItsWaiter, TI!LateEnough
<1> QED
  BY <1>1, <1>2, <1>3, <1>4, <1>5, <1>6, <1>7, <1>8, <1>9, <1>10, <1>11,
     <1>12, <1>13, <1>14 DEF TI!Next, TI!WaitStep, TI!WakeStep

\* The inductive invariant implies what the run checks.
LEMMA IdentityIInvImplies == IdentityIInv => IdentityInv
<1> SUFFICES ASSUME IdentityIInv PROVE IdentityInv
  OBVIOUS
<1> USE IdentityAssumption DEF IdentityIInv
<1>1. TI!TypeOK
  <2>1. \A i \in Identities : sem[i] \in 0..MaxPosts /\ posting[i] \in 0..MaxPosts
    <3> TAKE i \in Identities
    <3>1. sem[i] \in Nat /\ posting[i] \in Nat
      BY DEF IdentityTypes
    <3>2. sem[i] + posting[i] + (IF i \in dequeued THEN 1 ELSE 0) <= MaxPosts
      BY DEF PostsBounded
    <3> QED BY <3>1, <3>2
  <2> QED BY <2>1 DEF IdentityTypes, TI!TypeOK
<1>2. TI!OneOwner
  <2> SUFFICES ASSUME NEW i \in allocated
               PROVE  Cardinality(TI!Owned(i)) <= 1 /\ (TI!Listed(i) => TI!Owned(i) = {})
    BY IdentityCardinality DEF TI!OneOwner
  <2>1. TI!Owned(i) = {t \in Waiters : Has(t, i)}
    BY DEF TI!Owned, Has, IdentityTypes
  <2>2. CASE TI!Owned(i) = {}
    BY <2>2, FS_EmptySet
  <2>3. CASE TI!Owned(i) # {}
    <3>1. PICK t \in Waiters : Has(t, i)
      BY <2>1, <2>3
    <3>2. TI!Owned(i) = {t}
      BY <2>1, <3>1 DEF InOnePlace
    <3>3. ~TI!Listed(i)
      BY <3>1 DEF TI!Listed, InOnePlace
    <3>4. Cardinality(TI!Owned(i)) = 1
      BY <3>2, FS_Singleton
    <3> QED BY <3>3, <3>4
  <2> QED BY <2>2, <2>3
<1> QED BY <1>1, <1>2 DEF IdentityInv

(***************************************************************************)
(* An identity has one owner at a time and is never both owned and on the  *)
(* free list, a waker's store of kAvailable finds the waiter it dequeued   *)
(* and not the next owner of the identity, and a thread that was let go    *)
(* finds a token or has one coming, for any number of threads, identities  *)
(* and destructor runs.                                                    *)
(***************************************************************************)
THEOREM IdentityInvariant == TI!Spec => []IdentityInv
  BY IdentityInitInv, IdentityNextInv, IdentityIInvImplies, PTL DEF TI!Spec
=============================================================================
