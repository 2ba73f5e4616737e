--------------------------- MODULE SpinLockProofs ---------------------------
(***************************************************************************)
(* Proofs about SpinLock, for any set of threads, any width of the wait    *)
(* field and any wait times; and what MCOnce states of call_once, for any  *)
(* number of callers and of throws.                                        *)
(***************************************************************************)
EXTENDS SpinLock, MCOnce, FiniteSetTheorems, TLAPS

\* A remainder is a value of the wait field.
LEMMA Remainder ==
    ASSUME NEW n \in Int, NEW k \in Nat PROVE n % (k + 1) \in 0..k
  OBVIOUS

\* A wait time is stored as a non-zero value that fits the field.
LEMMA EncodeRange ==
    ASSUME NEW scaled \in Int
    PROVE  EncodeWaitCycles(scaled) \in 1..kMaxWaitTime
<1> DEFINE n == IF scaled < kMaxWaitTime THEN scaled ELSE kMaxWaitTime
<1>1. n \in Int /\ kMaxWaitTime \in Nat /\ kMaxWaitTime >= 2
  BY SpinLockAssumption
<1>2. PICK c \in 0..kMaxWaitTime : c = n % (kMaxWaitTime + 1)
  BY <1>1, Remainder
<1>3. EncodeWaitCycles(scaled) = CASE c = 0 -> 1 [] c = 1 -> 2 [] OTHER -> c
  BY <1>2 DEF EncodeWaitCycles, kSpinLockSleeper
<1> HIDE DEF n
<1> QED BY <1>1, <1>2, <1>3

\* The two outcomes of TryLockInternal: the lock was free and is now held by
\* the caller, or only the caller's copy of the word changes, which tells
\* SlowLock that the lock is held.
LEMMA TryOutcome ==
    ASSUME SpinLockInv, NEW t \in Threads, NEW fail \in {"idle", "spin", "mark"},
           TryLockInternal(t, fail)
    PROVE  \/ /\ lockword = Unheld /\ disabled = {}
              /\ \E bit \in BOOLEAN :
                   /\ lockword' = [held |-> TRUE, sched |-> bit,
                                   wait |-> wait_cycles[t]]
                   /\ disabled' = IF bit THEN {t} ELSE {}
              /\ pc' = [pc EXCEPT ![t] = "held"]
              /\ UNCHANGED lock_value
           \/ /\ UNCHANGED <<lockword, disabled>>
              /\ pc' = [pc EXCEPT ![t] = fail]
              /\ \E w \in LockWord :
                   /\ lock_value' = [lock_value EXCEPT ![t] = w]
                   /\ ~w.held => w = Unheld
                   /\ fail = "mark" => w.held
<1> USE DEF SpinLockInv, TypeOK, LockWord
<1>0. Unheld \in LockWord
  BY SpinLockAssumption DEF Unheld
<1>1. CASE lock_value[t].held
  BY <1>0, <1>1 DEF TryLockInternal, FailWith, Goto, LocalFacts
<1>2. CASE ~lock_value[t].held
  <2>1. lock_value[t] = Unheld
    BY <1>2 DEF LocalFacts
  <2>2. PICK bit \in BOOLEAN :
          \/ Acquire(t, bit)
          \/ /\ lockword # lock_value[t]
             /\ IF lockword.held THEN FailWith(t, lockword, fail)
                                 ELSE Goto(t, "held") /\ Load(t)
             /\ UNCHANGED <<lockword, disabled>>
    BY <1>2, SpinLockAssumption DEF TryLockInternal
  <2>3. CASE Acquire(t, bit)
    <3>1. lockword = Unheld /\ disabled = {}
      BY <2>1, <2>3 DEF Acquire, Unheld, SchedulingPaired
    <3>2. Or(lock_value[t].wait, wait_cycles[t]) = wait_cycles[t]
      BY <2>1 DEF Unheld, Or
    <3>3. (lock_value[t].sched \/ bit) = bit
      BY <2>1 DEF Unheld
    <3> QED BY <2>3, <3>1, <3>2, <3>3 DEF Acquire, Goto
  <2>4. CASE lockword # lock_value[t]
    <3>1. lockword.held
      BY <2>1, <2>4 DEF UnheldIsClean
    <3> QED BY <1>0, <2>2, <2>4, <3>1 DEF FailWith, Goto, Acquire
  <2> QED BY <2>2, <2>3, <2>4
<1> QED BY <1>1, <1>2

\* The initial state satisfies the inductive invariant.
LEMMA InitInv == Init => SpinLockInv
  BY SpinLockAssumption
  DEF Init, SpinLockInv, TypeOK, LockWord, Points, Unheld, UnheldIsClean,
      WordTellsHolder, WaitTimeIsHolders, SchedulingPaired, NoLostSleeper,
      LocalFacts

\* An attempt to acquire the lock keeps the invariant, whether it succeeds or
\* fails: a thread that carries the obligation to wake others takes the lock
\* with a non-zero wait field, and one that fails still carries it.
LEMMA TryInv ==
    ASSUME SpinLockInv, NEW t \in Threads, NEW fail \in {"idle", "spin", "mark"},
           pc[t] \in {"try", "lock", "cas"}, pc[t] = "cas" => fail = "mark",
           TryLockInternal(t, fail), UNCHANGED wait_cycles
    PROVE  SpinLockInv'
<1> USE DEF SpinLockInv, TypeOK, Points
<1>1. CASE /\ lockword = Unheld /\ disabled = {}
           /\ \E bit \in BOOLEAN :
                /\ lockword' = [held |-> TRUE, sched |-> bit,
                                wait |-> wait_cycles[t]]
                /\ disabled' = IF bit THEN {t} ELSE {}
           /\ pc' = [pc EXCEPT ![t] = "held"]
           /\ UNCHANGED lock_value
  <2>1. PICK bit \in BOOLEAN :
          /\ lockword' = [held |-> TRUE, sched |-> bit, wait |-> wait_cycles[t]]
          /\ disabled' = IF bit THEN {t} ELSE {}
    BY <1>1
  <2>2. \A u \in Threads : pc[u] # "held"
    BY <1>1 DEF WordTellsHolder, Unheld
  <2>3. \A u \in Threads : pc'[u] = "held" <=> u = t
    BY <1>1, <2>2
  <2>4. TypeOK'
    BY <1>1, <2>1 DEF LockWord
  <2>5. UnheldIsClean' /\ WordTellsHolder' /\ WaitTimeIsHolders'
    BY <1>1, <2>1, <2>3 DEF UnheldIsClean, WordTellsHolder, WaitTimeIsHolders
  <2>6. SchedulingPaired'
    <3>1. {u \in Threads : pc'[u] = "held"} = {t}
      BY <2>3
    <3> QED BY <2>1, <3>1 DEF SchedulingPaired
  <2>7. NoLostSleeper'
    BY <1>1, <2>1 DEF NoLostSleeper, Carries, Unheld
  <2>8. LocalFacts'
    BY <1>1 DEF LocalFacts
  <2> QED BY <2>4, <2>5, <2>6, <2>7, <2>8
<1>2. CASE /\ UNCHANGED <<lockword, disabled>>
           /\ pc' = [pc EXCEPT ![t] = fail]
           /\ \E w \in LockWord :
                /\ lock_value' = [lock_value EXCEPT ![t] = w]
                /\ ~w.held => w = Unheld
                /\ fail = "mark" => w.held
  <2>1. PICK w \in LockWord :
                /\ lock_value' = [lock_value EXCEPT ![t] = w]
                /\ ~w.held => w = Unheld
                /\ fail = "mark" => w.held
    BY <1>2
  <2>2. TypeOK' /\ UnheldIsClean'
    BY <1>2, <2>1 DEF UnheldIsClean
  <2>3. \A u \in Threads : pc'[u] = "held" <=> pc[u] = "held"
    BY <1>2
  <2>4. WordTellsHolder' /\ WaitTimeIsHolders'
    BY <1>2, <2>3 DEF WordTellsHolder, WaitTimeIsHolders
  <2>5. SchedulingPaired'
    BY <1>2, <2>3 DEF SchedulingPaired
  <2>6. NoLostSleeper'
    BY <1>2 DEF NoLostSleeper, Carries
  <2>7. LocalFacts'
    BY <1>2, <2>1 DEF LocalFacts
  <2> QED BY <2>2, <2>4, <2>5, <2>6, <2>7
<1> QED BY <1>1, <1>2, TryOutcome

\* A step that leaves the word and the holder alone keeps the conjuncts about
\* them.
LEMMA HolderKept ==
    ASSUME SpinLockInv, UNCHANGED <<lockword, disabled>>,
           \A u \in Threads : /\ pc'[u] = "held" <=> pc[u] = "held"
                              /\ pc[u] = "held" => wait_cycles'[u] = wait_cycles[u]
    PROVE  /\ UnheldIsClean' /\ WordTellsHolder' /\ WaitTimeIsHolders'
           /\ SchedulingPaired'
  BY DEF SpinLockInv, UnheldIsClean, WordTellsHolder, WaitTimeIsHolders,
         SchedulingPaired

\* Every step of the lock and of the futex keeps the inductive invariant.
LEMMA NextInv == SpinLockInv /\ [Next]_vars => SpinLockInv'
<1> SUFFICES ASSUME SpinLockInv, [Next]_vars PROVE SpinLockInv'
  OBVIOUS
<1> USE DEF SpinLockInv, TypeOK, Points, Goto, Load
<1>1. ASSUME NEW t \in Threads, TryLock(t) PROVE SpinLockInv'
  BY <1>1, TryInv DEF TryLock
<1>2. ASSUME NEW t \in Threads, Lock(t) PROVE SpinLockInv'
  BY <1>2, TryInv DEF Lock
<1>3. ASSUME NEW t \in Threads, SlowLockTry(t) PROVE SpinLockInv'
  BY <1>3, TryInv DEF SlowLockTry
<1>4. ASSUME NEW t \in Threads, TryLockImpl(t) \/ SpinLoop(t) PROVE SpinLockInv'
  <2>1. TypeOK' /\ LocalFacts' /\ NoLostSleeper'
    BY <1>4 DEF TryLockImpl, SpinLoop, LocalFacts, UnheldIsClean,
                NoLostSleeper, Carries
  <2> QED BY <1>4, <2>1, HolderKept DEF TryLockImpl, SpinLoop
<1>5. ASSUME NEW t \in Threads, MarkSleeper(t) PROVE SpinLockInv'
  <2>1. CASE lock_value[t].wait # 0
    <3>1. TypeOK' /\ LocalFacts' /\ NoLostSleeper'
      BY <1>5, <2>1 DEF MarkSleeper, LocalFacts, NoLostSleeper, Carries
    <3> QED BY <1>5, <2>1, <3>1, HolderKept DEF MarkSleeper
  <2>2. CASE lock_value[t].wait = 0 /\ lockword = lock_value[t]
    <3>1. /\ lockword' = [lockword EXCEPT !.wait = 1]
          /\ lock_value' = [lock_value EXCEPT ![t] = lockword']
          /\ pc' = [pc EXCEPT ![t] = "delay"]
          /\ UNCHANGED <<wait_cycles, disabled>>
      BY <1>5, <2>2 DEF MarkSleeper, kSpinLockSleeper
    <3>2. pc[t] = "mark" /\ lockword.held
      BY <1>5, <2>2 DEF MarkSleeper, LocalFacts
    <3>3. /\ lockword' \in LockWord /\ lockword'.held /\ lockword'.wait = 1
          /\ lockword'.sched = lockword.sched
      BY <3>1, <3>2, SpinLockAssumption DEF LockWord
    <3>4. TypeOK' /\ LocalFacts' /\ NoLostSleeper'
      BY <3>1, <3>3 DEF LocalFacts, NoLostSleeper
    <3>5. \A u \in Threads : pc'[u] = "held" <=> pc[u] = "held"
      BY <3>1, <3>2
    <3>6. UnheldIsClean' /\ WordTellsHolder' /\ SchedulingPaired'
      BY <3>1, <3>2, <3>3, <3>5
      DEF UnheldIsClean, WordTellsHolder, SchedulingPaired
    <3>7. WaitTimeIsHolders'
      BY <2>2, <3>1, <3>3, <3>5 DEF WaitTimeIsHolders, kSpinLockSleeper
    <3> QED BY <3>4, <3>6, <3>7
  <2>3. CASE lock_value[t].wait = 0 /\ lockword # lock_value[t]
    <3>1. TypeOK' /\ LocalFacts' /\ NoLostSleeper'
      BY <1>5, <2>3
      DEF MarkSleeper, LocalFacts, NoLostSleeper, Carries, UnheldIsClean
    <3> QED BY <1>5, <2>3, <3>1, HolderKept DEF MarkSleeper
  <2> QED BY <2>1, <2>2, <2>3
<1>6. ASSUME NEW t \in Threads, SpinLockDelay(t) \/ SpuriousWake(t)
      PROVE  SpinLockInv'
  <2>1. TypeOK' /\ LocalFacts' /\ NoLostSleeper'
    BY <1>6 DEF SpinLockDelay, SpuriousWake, LocalFacts, NoLostSleeper, Carries
  <2> QED BY <1>6, <2>1, HolderKept DEF SpinLockDelay, SpuriousWake
<1>7. ASSUME NEW t \in Threads, SpinAgain(t) PROVE SpinLockInv'
  <2>1. PICK n \in 1..kMaxWaitTime :
          wait_cycles' = [wait_cycles EXCEPT ![t] = n]
    BY <1>7, EncodeRange, SpinLockAssumption DEF SpinAgain
  <2>2. n \in 0..kMaxWaitTime /\ n # 0
    BY SpinLockAssumption
  <2>3. TypeOK' /\ LocalFacts' /\ NoLostSleeper'
    BY <1>7, <2>1, <2>2
    DEF SpinAgain, LocalFacts, UnheldIsClean, NoLostSleeper, Carries
  <2> QED BY <1>7, <2>1, <2>3, HolderKept DEF SpinAgain
<1>8. ASSUME NEW t \in Threads, Unlock(t) PROVE SpinLockInv'
  <2>1. \A u \in Threads : pc'[u] # "held"
    BY <1>8 DEF Unlock, WordTellsHolder
  <2>2. Unheld \in LockWord /\ ~Unheld.held /\ ~Unheld.sched
    BY SpinLockAssumption DEF Unheld, LockWord
  <2>3. TypeOK' /\ LocalFacts'
    BY <1>8, <2>2, SpinLockAssumption DEF Unlock, LocalFacts
  <2>4. UnheldIsClean' /\ WordTellsHolder' /\ WaitTimeIsHolders'
    BY <1>8, <2>1, <2>2
    DEF Unlock, UnheldIsClean, WordTellsHolder, WaitTimeIsHolders
  <2>5. disabled' = {}
    <3>1. {u \in Threads : pc[u] = "held"} = {t}
      BY <1>8 DEF Unlock, WordTellsHolder
    <3> QED BY <1>8, <3>1 DEF Unlock, SchedulingPaired
  <2>6. SchedulingPaired'
    BY <1>8, <2>2, <2>5 DEF Unlock, SchedulingPaired
  <2>7. NoLostSleeper'
    BY <1>8 DEF Unlock, NoLostSleeper, Carries
  <2> QED BY <2>3, <2>4, <2>6, <2>7
<1>9. ASSUME NEW t \in Threads, SlowUnlock(t) PROVE SpinLockInv'
  <2>1. TypeOK' /\ LocalFacts' /\ NoLostSleeper'
    BY <1>9 DEF SlowUnlock, LocalFacts, NoLostSleeper, Carries
  <2> QED BY <1>9, <2>1, HolderKept DEF SlowUnlock
<1>10. CASE UNCHANGED vars
  BY <1>10 DEF vars, UnheldIsClean, WordTellsHolder, WaitTimeIsHolders,
               SchedulingPaired, NoLostSleeper, Carries, LocalFacts
<1> QED
  BY <1>1, <1>2, <1>3, <1>4, <1>5, <1>6, <1>7, <1>8, <1>9, <1>10
  DEF Next, Step

\* The inductive invariant holds throughout: TryLockInternal is never mistaken,
\* marks and times in the word are right, and SlowUnlock forgets no sleeper.
THEOREM SpinLockInvariant == Spec => []SpinLockInv
  BY InitInv, NextInv, PTL DEF Spec

\* A free lock word has no bit set but kSpinLockCooperative, so a failed
\* compare_exchange of TryLockInternal always returns a held word.
THEOREM SpinLockUnheldIsClean == Spec => []UnheldIsClean
  BY SpinLockInvariant, PTL DEF SpinLockInv

\* At most one thread is between Lock and Unlock, and then the word says held.
THEOREM SpinLockWordTellsHolder == Spec => []WordTellsHolder
  BY SpinLockInvariant, PTL DEF SpinLockInv

\* The wait time SlowUnlock reports is the one of the thread that unlocks.
THEOREM SpinLockWaitTime == Spec => []WaitTimeIsHolders
  BY SpinLockInvariant, PTL DEF SpinLockInv

\* SlowUnlock wakes one thread at a time and still forgets none.
THEOREM SpinLockNoLostSleeper == Spec => []NoLostSleeper
  BY SpinLockInvariant, PTL DEF SpinLockInv

\* EnableRescheduling undoes every DisableRescheduling that succeeded.
THEOREM SpinLockSchedulingPaired == Spec => []SchedulingPaired
  BY SpinLockInvariant, PTL DEF SpinLockInv

\* SpinLock implements the abstract lock: TryLockInternal acquires only when
\* nobody holds it, Unlock releases, and no other step changes who holds it.
THEOREM SpinLockImplementsRWLock == Spec => ImplementsRWLock
<1> DEFINE own == [t \in Threads |-> IF pc[t] = "held" THEN "kExclusive" ELSE "free"]
<1>1. Init => Abstract!Init
  BY DEF Init, Abstract!Init
<1>2. SpinLockInv /\ [Next]_vars => [Abstract!Next]_own
  <2> SUFFICES ASSUME SpinLockInv, Next, own' # own PROVE Abstract!Next
    BY DEF vars
  <2> USE DEF SpinLockInv, TypeOK, Goto
  <2>1. ASSUME NEW t \in Threads, NEW fail \in {"idle", "spin", "mark"},
               pc[t] \in {"try", "lock", "cas"}, TryLockInternal(t, fail)
        PROVE  Abstract!Next
    <3>1. /\ pc' = [pc EXCEPT ![t] = "held"] /\ lockword = Unheld
      BY <2>1, TryOutcome
    <3>2. \A u \in Threads : pc[u] # "held"
      BY <3>1 DEF WordTellsHolder, Unheld
    <3> QED BY <3>1, <3>2 DEF Abstract!Next, Abstract!AcquireExclusive
  <2>2. ASSUME NEW t \in Threads, Unlock(t) PROVE Abstract!Next
    <3>1. own' = [own EXCEPT ![t] = "free"] /\ own[t] # "free"
      BY <2>2 DEF Unlock
    <3> QED BY <3>1 DEF Abstract!Next, Abstract!Release
  <2>3. ASSUME NEW t \in Threads,
               \/ TryLockImpl(t) \/ SpinLoop(t) \/ MarkSleeper(t)
               \/ SpinLockDelay(t) \/ SpuriousWake(t) \/ SpinAgain(t)
               \/ SlowUnlock(t)
        PROVE  FALSE
    <3>1. \A u \in Threads : pc'[u] = "held" <=> pc[u] = "held"
      BY <2>3 DEF TryLockImpl, SpinLoop, MarkSleeper, SpinLockDelay,
                  SpuriousWake, SpinAgain, SlowUnlock
    <3> QED BY <3>1
  <2> QED BY <2>1, <2>2, <2>3 DEF Next, Step, TryLock, Lock, SlowLockTry
<1> QED BY <1>1, <1>2, SpinLockInvariant, PTL DEF Spec, ImplementsRWLock, Abstract!Spec

-----------------------------------------------------------------------------
(***************************************************************************)
(* call_once, which waits with the same futex calls                        *)
(***************************************************************************)

\* The cardinality that an instance takes from FiniteSets.
LEMMA OnceCardinality == \A S : CO!Cardinality(S) = Cardinality(S)
  BY DEF CO!Cardinality, Cardinality

\* At most one thread is inside fn, and then the word says so.
OneRunner ==
    /\ \A t, u \in Callers : once_pc[t] = "invoke" /\ once_pc[u] = "invoke" => t = u
    /\ \A t \in Callers : once_pc[t] = "invoke" =>
          control \in {"kOnceRunning", "kOnceWaiter"}

\* The word says kOnceDone exactly when an invocation has completed.
DoneMeansCompleted ==
    completed = IF control = "kOnceDone" THEN 1 ELSE 0

\* What a thread's program point says about the value it loaded and the word.
OnceLocalFacts ==
    \A t \in Callers :
        /\ once_pc[t] = "transition" /\ once_v[t] = "kOnceDone" => control = "kOnceDone"
        /\ once_pc[t] = "delay" => once_v[t] = "kOnceWaiter"
        /\ once_pc[t] = "wake" => control = "kOnceDone"

\* The inductive invariant.
OnceIInv ==
    CO!TypeOK /\ OneRunner /\ DoneMeansCompleted /\ OnceLocalFacts /\ CO!NoLostWakeup

\* The initial state satisfies the inductive invariant.
LEMMA OnceInitInv == CO!Init => OnceIInv
  BY DEF CO!Init, OnceIInv, CO!TypeOK, CO!ControlWord, CO!Points, OneRunner,
         DoneMeansCompleted, OnceLocalFacts, CO!NoLostWakeup

\* Every step of call_once, of SpinLockWait and of the futex keeps it.
LEMMA OnceNextInv == OnceIInv /\ [CO!Next]_(CO!vars) => OnceIInv'
<1> SUFFICES ASSUME OnceIInv, [CO!Next]_(CO!vars) PROVE OnceIInv'
  OBVIOUS
<1> USE DEF OnceIInv, CO!TypeOK, CO!ControlWord, CO!Points, OneRunner,
            DoneMeansCompleted, OnceLocalFacts, CO!NoLostWakeup, CO!Goto
<1>1. ASSUME NEW t \in Callers, CO!Call(t) PROVE OnceIInv'
  BY <1>1 DEF CO!Call
<1>2. ASSUME NEW t \in Callers, CO!TryFirst(t) PROVE OnceIInv'
  <2>1. CASE control = "kOnceInit"
    BY <1>2, <2>1 DEF CO!TryFirst
  <2>2. CASE control # "kOnceInit"
    BY <1>2, <2>2 DEF CO!TryFirst
  <2> QED BY <2>1, <2>2
<1>3. ASSUME NEW t \in Callers, CO!LoadControl(t) PROVE OnceIInv'
  BY <1>3 DEF CO!LoadControl, CO!trans
<1>4. ASSUME NEW t \in Callers, CO!TakeTransition(t) PROVE OnceIInv'
  <2>1. CASE once_v[t] = "kOnceInit"
    BY <1>4, <2>1 DEF CO!TakeTransition, CO!trans
  <2>2. CASE once_v[t] = "kOnceRunning"
    BY <1>4, <2>2 DEF CO!TakeTransition, CO!trans
  <2>3. CASE once_v[t] = "kOnceDone"
    BY <1>4, <2>3 DEF CO!TakeTransition, CO!trans
  <2>4. CASE once_v[t] = "kOnceWaiter"
    BY SMTT(30), <1>4, <2>4 DEF CO!TakeTransition, CO!trans
  <2> QED BY <2>1, <2>2, <2>3, <2>4
<1>5. ASSUME NEW t \in Callers, CO!SpinLockDelay(t) PROVE OnceIInv'
  BY <1>5 DEF CO!SpinLockDelay
<1>6. ASSUME NEW t \in Callers, CO!SpuriousWake(t) PROVE OnceIInv'
  BY <1>6 DEF CO!SpuriousWake
<1>7. ASSUME NEW t \in Callers, CO!FinishInvoke(t) PROVE OnceIInv'
  BY <1>7 DEF CO!FinishInvoke
<1>8. ASSUME NEW t \in Callers, CO!ThrowFromInvoke(t) PROVE OnceIInv'
  BY <1>8 DEF CO!ThrowFromInvoke
<1>9. ASSUME NEW t \in Callers, CO!SpinLockWake(t) PROVE OnceIInv'
  BY <1>9 DEF CO!SpinLockWake
<1>10. CASE UNCHANGED CO!vars
  BY <1>10 DEF CO!vars
<1> QED
  BY <1>1, <1>2, <1>3, <1>4, <1>5, <1>6, <1>7, <1>8, <1>9, <1>10
     DEF CO!Next, CO!Step

\* The inductive invariant bounds the number of threads inside fn.
LEMMA OnceIInvRunsOnce == OnceIInv => CO!RunsOnce
<1> SUFFICES ASSUME OnceIInv PROVE CO!RunsOnce
  OBVIOUS
<1> DEFINE R == {t \in Callers : once_pc[t] = "invoke"}
<1>1. CASE R = {}
  BY <1>1, FS_EmptySet, OnceCardinality DEF OnceIInv, DoneMeansCompleted, CO!RunsOnce
<1>2. CASE R # {}
  <2>1. PICK t \in Callers : once_pc[t] = "invoke"
    BY <1>2
  <2>2. R = {t}
    BY <2>1 DEF OnceIInv, OneRunner
  <2>3. Cardinality(R) = 1
    BY <2>2, FS_Singleton
  <2>4. completed = 0
    BY <2>1 DEF OnceIInv, OneRunner, DoneMeansCompleted
  <2> QED BY <2>3, <2>4, OnceCardinality DEF CO!RunsOnce
<1> QED BY <1>1, <1>2

(***************************************************************************)
(* However many threads call call_once, and however often fn throws, fn is *)
(* never entered while another invocation is in progress nor after one has *)
(* completed, and no caller sleeps on the futex without a wake-up owed to  *)
(* it.                                                                     *)
(***************************************************************************)
THEOREM CallOnceInvariant == CO!Spec => []OnceInv
<1>1. OnceIInv => OnceInv
  BY OnceIInvRunsOnce DEF OnceIInv, OnceInv
<1> QED BY <1>1, OnceInitInv, OnceNextInv, PTL DEF CO!Spec

\* A call returns normally only after an invocation of fn has completed.
THEOREM CallOnceReturnMeansDone == CO!Spec => ReturnMeansDone
<1>1. OnceIInv /\ [CO!Next]_(CO!vars) =>
        [\A t \in Callers : once_pc[t] # "idle" /\ once_pc'[t] = "idle"
                              => completed' = 1]_(CO!vars)
  <2> SUFFICES ASSUME OnceIInv, CO!Next, NEW t \in Callers,
                      once_pc[t] # "idle", once_pc'[t] = "idle"
               PROVE  completed' = 1
    BY DEF CO!vars
  <2>1. CASE CO!TryFirst(t) \/ CO!LoadControl(t) \/ CO!SpinLockDelay(t)
              \/ CO!SpuriousWake(t) \/ CO!ThrowFromInvoke(t) \/ CO!Call(t)
    BY <2>1 DEF OnceIInv, CO!TypeOK, CO!TryFirst, CO!LoadControl, CO!SpinLockDelay,
                CO!SpuriousWake, CO!ThrowFromInvoke, CO!Call, CO!Goto
  <2>2. CASE CO!TakeTransition(t)
    BY SMTT(30), <2>2 DEF OnceIInv, CO!TypeOK, CO!TakeTransition, CO!trans, CO!Goto,
                OnceLocalFacts, DoneMeansCompleted
  <2>3. CASE CO!FinishInvoke(t)
    BY <2>3 DEF OnceIInv, CO!TypeOK, CO!FinishInvoke, CO!Goto, OneRunner,
                DoneMeansCompleted
  <2>4. CASE CO!SpinLockWake(t)
    BY <2>4 DEF OnceIInv, CO!SpinLockWake, OnceLocalFacts, DoneMeansCompleted
  <2>5. ASSUME NEW u \in Callers, u # t,
               CO!Step(u) \/ CO!Call(u) \/ CO!SpuriousWake(u) \/ CO!ThrowFromInvoke(u)
        PROVE  FALSE
    BY <2>5 DEF OnceIInv, CO!TypeOK, CO!Step, CO!TryFirst, CO!LoadControl,
                CO!TakeTransition, CO!SpinLockDelay, CO!SpuriousWake, CO!FinishInvoke,
                CO!ThrowFromInvoke, CO!SpinLockWake, CO!Call, CO!Goto
  <2> QED BY <2>1, <2>2, <2>3, <2>4, <2>5 DEF CO!Next, CO!Step
<1> QED BY <1>1, OnceInitInv, OnceNextInv, PTL DEF CO!Spec, CO!ReturnMeansDone, ReturnMeansDone
=============================================================================
