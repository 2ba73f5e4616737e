------------------------------ MODULE SpinLock ------------------------------
(***************************************************************************)
(* base_internal::SpinLock (absl/base/internal/spinlock.h, spinlock.cc)    *)
(* and the Linux futex calls it sleeps and wakes with                      *)
(* (absl/base/internal/spinlock_linux.inc), which have no timeout.         *)
(*                                                                         *)
(* A step is one atomic access to the lock word or one futex call.  The    *)
(* word is a record of its three flags and of its upper 29 bits, wait,     *)
(* in which kSpinLockSleeper is 1.                                         *)
(***************************************************************************)
EXTENDS Integers

CONSTANTS
    Threads,
    Cooperative,    \* the scheduling mode the lock was constructed with
    DisableResults, \* what DisableRescheduling() may return: {FALSE} without
                    \* a cooperative scheduler, BOOLEAN with one
    kMaxWaitTime,   \* the largest wait time the word can hold
    WaitTimes       \* bound: scaled times between two readings of CycleClock

ASSUME SpinLockAssumption ==
    /\ Cooperative \in BOOLEAN
    /\ DisableResults \subseteq BOOLEAN /\ DisableResults # {}
    /\ kMaxWaitTime \in Nat /\ kMaxWaitTime >= 2
    /\ WaitTimes \subseteq Int /\ WaitTimes # {}

VARIABLES
    lockword,     \* SpinLock::lockword_
    pc,           \* where each thread is
    lock_value,   \* each thread's local copy of the word
    wait_cycles,  \* SlowLock's local of that name
    disabled      \* threads that have disabled rescheduling

vars == <<lockword, pc, lock_value, wait_cycles, disabled>>

kSpinLockSleeper == 1

LockWord == [held : BOOLEAN, sched : BOOLEAN, wait : 0..kMaxWaitTime]

Unheld == [held |-> FALSE, sched |-> FALSE, wait |-> 0]

(***************************************************************************)
(* Program points.  "idle" is outside; "try" and "lock" are inside         *)
(* TryLockImpl, called by TryLock and by Lock; "spin" to "asleep" are in   *)
(* SlowLock; "held" is the critical section and "wake" is SlowUnlock.      *)
(***************************************************************************)
Points == {"idle", "try", "lock", "spin", "cas", "mark",
           "delay", "asleep", "respin", "held", "wake"}

Init ==
    /\ lockword = Unheld
    /\ pc = [t \in Threads |-> "idle"]
    /\ lock_value = [t \in Threads |-> Unheld]
    /\ wait_cycles = [t \in Threads |-> 0]
    /\ disabled = {}

\* Mutant: a wait too short to measure is recorded as none.
EncodeWaitCyclesZero(scaled) ==
    LET clamped == (IF scaled < kMaxWaitTime THEN scaled ELSE kMaxWaitTime)
                     % (kMaxWaitTime + 1)
    IN  IF clamped = kSpinLockSleeper THEN kSpinLockSleeper + 1 ELSE clamped

\* The time waited, as the word stores it: never 0, and never the value that
\* only says that a sleeper exists unless the wait was too short to measure.
EncodeWaitCycles(scaled) ==
    LET clamped == (IF scaled < kMaxWaitTime THEN scaled ELSE kMaxWaitTime)
                     % (kMaxWaitTime + 1)
    IN  CASE clamped = 0                -> kSpinLockSleeper
          [] clamped = kSpinLockSleeper -> kSpinLockSleeper + 1
          [] OTHER                      -> clamped

Goto(t, p) == pc' = [pc EXCEPT ![t] = p]

\* TryLockInternal fails and returns w: TryLock ends, and its locals with it.
FailWith(t, w, fail) ==
    /\ Goto(t, fail)
    /\ lock_value' = [lock_value EXCEPT ![t] = IF fail = "idle" THEN Unheld ELSE w]

\* A load of the word into lock_value.
Load(t) == lock_value' = [lock_value EXCEPT ![t] = lockword]

\* TryLockImpl: the load, in TryLock and in Lock.
TryLockImpl(t) ==
    /\ pc[t] = "idle"
    /\ \E p \in {"try", "lock"} : Goto(t, p)
    /\ Load(t)
    /\ UNCHANGED <<lockword, wait_cycles, disabled>>

\* Bitwise or of two wait fields, exact for the two-bit field of the runs.
Or(a, b) == CASE a = 0 \/ a = b -> b
              [] b = 0          -> a
              [] OTHER          -> kMaxWaitTime

\* Mutant: a store in place of the compare_exchange.
AcquireBlind(t, sched_disabled_bit) ==
    /\ lockword' = [held  |-> TRUE,
                    sched |-> lock_value[t].sched \/ sched_disabled_bit,
                    wait  |-> Or(lock_value[t].wait, wait_cycles[t])]
    /\ disabled' = IF sched_disabled_bit THEN disabled \cup {t} ELSE disabled
    /\ Goto(t, "held")
    /\ UNCHANGED lock_value

\* The compare_exchange of TryLockInternal from the value in lock_value.
Acquire(t, sched_disabled_bit) ==
    /\ lockword = lock_value[t]
    /\ lockword' = [held  |-> TRUE,
                    sched |-> lock_value[t].sched \/ sched_disabled_bit,
                    wait  |-> Or(lock_value[t].wait, wait_cycles[t])]
    /\ disabled' = IF sched_disabled_bit THEN disabled \cup {t} ELSE disabled
    /\ Goto(t, "held")
    /\ UNCHANGED lock_value

\* Mutant: a failed compare_exchange leaves rescheduling disabled.
TryLockInternalNoEnable(t, fail) ==
    \/ /\ lock_value[t].held
       /\ FailWith(t, lock_value[t], fail)
       /\ UNCHANGED <<lockword, disabled>>
    \/ /\ ~lock_value[t].held
       /\ \E bit \in IF Cooperative THEN {FALSE} ELSE DisableResults :
            \/ Acquire(t, bit)
            \/ /\ lockword # lock_value[t]
               /\ IF lockword.held THEN FailWith(t, lockword, fail)
                                   ELSE Goto(t, "held") /\ Load(t)
               /\ disabled' = IF bit THEN disabled \cup {t} ELSE disabled
               /\ UNCHANGED lockword

\* TryLockInternal.  Its caller takes the lock for acquired whenever the value
\* it returns is not held; otherwise it goes on at fail.  A failed
\* compare_exchange enables rescheduling again.
TryLockInternal(t, fail) ==
    \/ /\ lock_value[t].held
       /\ FailWith(t, lock_value[t], fail)
       /\ UNCHANGED <<lockword, disabled>>
    \/ /\ ~lock_value[t].held
       /\ \E bit \in IF Cooperative THEN {FALSE} ELSE DisableResults :
            \/ Acquire(t, bit)
            \/ /\ lockword # lock_value[t]
               /\ IF lockword.held THEN FailWith(t, lockword, fail)
                                   ELSE Goto(t, "held") /\ Load(t)
               /\ UNCHANGED <<lockword, disabled>>

\* TryLock returns FALSE when TryLockInternal fails.
TryLock(t) ==
    /\ pc[t] = "try"
    /\ TryLockInternal(t, "idle")
    /\ UNCHANGED wait_cycles

\* Lock goes on to SlowLock.
Lock(t) ==
    /\ pc[t] = "lock"
    /\ TryLockInternal(t, "spin")
    /\ UNCHANGED wait_cycles

\* SpinLoop at the start of SlowLock: its last load.
SpinLoop(t) ==
    /\ pc[t] = "spin"
    /\ Load(t)
    /\ Goto(t, "cas")
    /\ UNCHANGED <<lockword, wait_cycles, disabled>>

\* SlowLock: TryLockInternal before the loop, after the delay, and when the
\* lock is found free instead of marked.
SlowLockTry(t) ==
    /\ pc[t] = "cas"
    /\ TryLockInternal(t, "mark")
    /\ UNCHANGED wait_cycles

\* Mutant: after a failed compare_exchange the thread sleeps whatever the word.
MarkSleeperOnce(t) ==
    /\ pc[t] = "mark"
    /\ \/ /\ lock_value[t].wait # 0
          /\ Goto(t, "delay")
          /\ UNCHANGED <<lockword, lock_value>>
       \/ /\ lock_value[t].wait = 0 /\ lockword = lock_value[t]
          /\ lockword' = [lockword EXCEPT !.wait = kSpinLockSleeper]
          /\ lock_value' = [lock_value EXCEPT ![t] = lockword']
          /\ Goto(t, "delay")
       \/ /\ lock_value[t].wait = 0 /\ lockword # lock_value[t]
          /\ Load(t)
          /\ Goto(t, IF lockword.held THEN "delay" ELSE "cas")
          /\ UNCHANGED lockword
    /\ UNCHANGED <<wait_cycles, disabled>>

\* Mutant: adds the sleeper to whatever the word says.
MarkSleeperAdds(t) ==
    /\ pc[t] = "mark"
    /\ \/ /\ lockword = lock_value[t]
          /\ lockword' = [lockword EXCEPT !.wait = @ + kSpinLockSleeper]
          /\ lock_value' = [lock_value EXCEPT ![t] = lockword']
          /\ Goto(t, "delay")
       \/ /\ lockword # lock_value[t]
          /\ Load(t)
          /\ Goto(t, IF lockword.held THEN "mark" ELSE "cas")
          /\ UNCHANGED lockword
    /\ UNCHANGED <<wait_cycles, disabled>>

\* SlowLock: mark the held lock as having a sleeper.  When the word has changed,
\* try again: to acquire it, to mark it, or to sleep if another has marked it.
MarkSleeper(t) ==
    /\ pc[t] = "mark"
    /\ \/ /\ lock_value[t].wait # 0
          /\ Goto(t, "delay")
          /\ UNCHANGED <<lockword, lock_value>>
       \/ /\ lock_value[t].wait = 0 /\ lockword = lock_value[t]
          /\ lockword' = [lockword EXCEPT !.wait = kSpinLockSleeper]
          /\ lock_value' = [lock_value EXCEPT ![t] = lockword']
          /\ Goto(t, "delay")
       \/ /\ lock_value[t].wait = 0 /\ lockword # lock_value[t]
          /\ Load(t)
          /\ Goto(t, IF ~lockword.held THEN "cas"
                     ELSE IF lockword.wait = 0 THEN "mark" ELSE "delay")
          /\ UNCHANGED lockword
    /\ UNCHANGED <<wait_cycles, disabled>>

\* SpinLockDelay: FUTEX_WAIT sleeps only while the word has value lock_value.
SpinLockDelay(t) ==
    /\ pc[t] = "delay"
    /\ Goto(t, IF lockword = lock_value[t] THEN "asleep" ELSE "respin")
    /\ UNCHANGED <<lockword, lock_value, wait_cycles, disabled>>

\* FUTEX_WAIT may also return on its own (a signal, a spurious wake-up).
SpuriousWake(t) ==
    /\ pc[t] = "asleep"
    /\ Goto(t, "respin")
    /\ UNCHANGED <<lockword, lock_value, wait_cycles, disabled>>

\* SlowLock after the delay: SpinLoop, and the time waited so far.
SpinAgain(t) ==
    /\ pc[t] = "respin"
    /\ Load(t)
    /\ \E scaled \in WaitTimes :
         wait_cycles' = [wait_cycles EXCEPT ![t] = EncodeWaitCycles(scaled)]
    /\ Goto(t, "cas")
    /\ UNCHANGED <<lockword, disabled>>

\* Mutant: clears kSpinLockHeld and leaves the other bits.
UnlockKeepsWait(t) ==
    /\ pc[t] = "held"
    /\ lockword' = [lockword EXCEPT !.held = FALSE, !.sched = FALSE]
    /\ disabled' = IF lockword.sched THEN disabled \ {t} ELSE disabled
    /\ Goto(t, IF lockword.wait # 0 THEN "wake" ELSE "idle")
    /\ wait_cycles' = [wait_cycles EXCEPT ![t] = 0]
    /\ UNCHANGED lock_value

\* Unlock: the exchange clears every bit but kSpinLockCooperative, and what it
\* returns tells whether to enable rescheduling and whether to wake.  (The
\* locals of Lock, of which wait_cycles is kept for WaitTimeIsHolders, end here.)
Unlock(t) ==
    /\ pc[t] = "held"
    /\ lockword' = Unheld
    /\ disabled' = IF lockword.sched THEN disabled \ {t} ELSE disabled
    /\ Goto(t, IF lockword.wait # 0 THEN "wake" ELSE "idle")
    /\ wait_cycles' = [wait_cycles EXCEPT ![t] = 0]
    /\ UNCHANGED lock_value

\* SlowUnlock: FUTEX_WAKE of one sleeper, if there is one.
SlowUnlock(t) ==
    /\ pc[t] = "wake"
    /\ \/ /\ \A u \in Threads : pc[u] # "asleep"
          /\ Goto(t, "idle")
       \/ \E u \in Threads :
            /\ pc[u] = "asleep"
            /\ pc' = [pc EXCEPT ![t] = "idle", ![u] = "respin"]
    /\ UNCHANGED <<lockword, lock_value, wait_cycles, disabled>>

Step(t) ==
    \/ TryLock(t) \/ Lock(t) \/ SpinLoop(t) \/ SlowLockTry(t) \/ MarkSleeper(t)
    \/ SpinLockDelay(t) \/ SpinAgain(t) \/ Unlock(t) \/ SlowUnlock(t)

Next == \E t \in Threads : Step(t) \/ TryLockImpl(t) \/ SpuriousWake(t)

\* A thread inside the lock's code is scheduled again and critical sections
\* end; nothing obliges a thread to lock or a futex to wake spuriously.
Fairness == \A t \in Threads : WF_vars(Step(t))

Spec == Init /\ [][Next]_vars /\ Fairness

----------------------------------------------------------------------------

TypeOK ==
    /\ lockword \in LockWord
    /\ pc \in [Threads -> Points]
    /\ lock_value \in [Threads -> LockWord]
    /\ wait_cycles \in [Threads -> 0..kMaxWaitTime]
    /\ disabled \subseteq Threads

\* "Invariant: if the lock is not held, the value is either 0 or
\* kSpinLockCooperative" (spinlock.h).  TryLockInternal rests on it: only
\* because free words are all equal does a failed compare_exchange return a
\* held one.
UnheldIsClean == ~lockword.held => lockword = Unheld

\* What the holder of the lock and the word know of each other: at most one
\* thread is in the critical section, exactly when the word says held.
WordTellsHolder ==
    /\ \A t, u \in Threads : pc[t] = "held" /\ pc[u] = "held" => t = u
    /\ lockword.held <=> \E t \in Threads : pc[t] = "held"

\* The wait field holds the time its holder waited, or, of a holder that did
\* not wait, whether a sleeper exists: marking never alters a time, and no time
\* outlives its holder.
WaitTimeIsHolders ==
    \A t \in Threads : pc[t] = "held" =>
        \/ lockword.wait = wait_cycles[t]
        \/ wait_cycles[t] = 0 /\ lockword.wait = kSpinLockSleeper

\* A thread that has been through the delay and has not got the lock yet: it
\* will take the lock with a non-zero wait field or mark it.
Carries(t) ==
    \/ pc[t] = "respin"
    \/ pc[t] \in {"cas", "mark", "delay"} /\ wait_cycles[t] # 0

\* A thread asleep in the futex is always owed a wake-up, although SlowUnlock
\* wakes one sleeper and the word counts none: the word is marked, so that the
\* holder's Unlock will wake; or somebody is about to wake; or a thread that
\* was woken before has not yet got the lock and will mark it.
NoLostSleeper ==
    \A t \in Threads : pc[t] = "asleep" =>
        \/ lockword.wait # 0
        \/ \E u \in Threads : pc[u] = "wake" \/ Carries(u)

\* "Result must be passed to a pairing EnableScheduling()"
\* (low_level_scheduling.h): rescheduling is disabled exactly while a thread
\* holds the lock with kSpinLockDisabledScheduling, whichever way it got it
\* and however many attempts failed.
SchedulingPaired ==
    disabled = IF lockword.sched THEN {t \in Threads : pc[t] = "held"} ELSE {}

\* What a thread's program point says about its copy of the word: a free copy
\* is clean, SlowLock's loop runs only on a held one, and only a marked one is
\* slept on.
LocalFacts ==
    \A t \in Threads :
        /\ ~lock_value[t].held => lock_value[t] = Unheld
        /\ pc[t] \in {"mark", "delay"} => lock_value[t].held
        /\ pc[t] = "delay" => lock_value[t].wait # 0

\* All of this at once, which is inductive: whoever believes to have the lock
\* has it, free words are clean, marks and wait times are right, and no sleeper
\* is forgotten.
SpinLockInv ==
    /\ TypeOK /\ UnheldIsClean /\ WordTellsHolder /\ WaitTimeIsHolders
    /\ SchedulingPaired /\ NoLostSleeper /\ LocalFacts

\* A thread asleep does not stay so with the lock free and nobody coming: as
\* long as there is one, the lock is acquired again.
SleepersProgress ==
    (\E t \in Threads : pc[t] = "asleep") ~> (\E t \in Threads : pc[t] = "held")

Abstract == INSTANCE RWLock WITH
    own <- [t \in Threads |-> IF pc[t] = "held" THEN "kExclusive" ELSE "free"]

\* A SpinLock is a lock: it implements RWLock with exclusive holders only.
ImplementsRWLock == Abstract!Spec
=============================================================================
