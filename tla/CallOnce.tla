------------------------------ MODULE CallOnce ------------------------------
(***************************************************************************)
(* absl::call_once (absl/base/call_once.h) over one once_flag, with the    *)
(* SpinLockWait loop it blocks in (absl/base/internal/spinlock_wait.cc)    *)
(* and the Linux futex calls that loop sleeps and wakes with               *)
(* (absl/base/internal/spinlock_linux.inc).                                *)
(*                                                                         *)
(* A step is one atomic access to the control word or one futex call, so   *)
(* every interleaving of the callers at that grain is a behaviour.         *)
(***************************************************************************)
EXTENDS Naturals, FiniteSets

CONSTANTS
    Threads,      \* the threads that call call_once on this flag
    MaxThrows     \* bound: how many invocations of fn leave by an exception

VARIABLES
    control,    \* once_flag::control_
    pc,         \* where each thread is
    v,          \* SpinLockWait's local v: the control word as last loaded
    completed,  \* ghost: how many invocations of fn have returned
    thrown      \* ghost: how many invocations of fn have thrown

vars == <<control, pc, v, completed, thrown>>

\* The four values of the control word.
ControlWord == {"kOnceInit", "kOnceRunning", "kOnceWaiter", "kOnceDone"}

(***************************************************************************)
(* Program points.  "idle" and "thrown" are outside call_once; "asleep" is *)
(* inside FUTEX_WAIT.                                                      *)
(***************************************************************************)
Points == {"idle", "impl", "load", "transition", "delay", "asleep",
           "invoke", "wake", "thrown"}

\* Mutant: the Running -> Waiter transition ends the wait.
transWaiterDone ==
    {[from |-> "kOnceInit",    to |-> "kOnceRunning", done |-> TRUE],
     [from |-> "kOnceRunning", to |-> "kOnceWaiter",  done |-> TRUE],
     [from |-> "kOnceDone",    to |-> "kOnceDone",    done |-> TRUE]}

\* SpinLockWait's table of {from, to, done} transitions.
trans == {[from |-> "kOnceInit",    to |-> "kOnceRunning", done |-> TRUE],
          [from |-> "kOnceRunning", to |-> "kOnceWaiter",  done |-> FALSE],
          [from |-> "kOnceDone",    to |-> "kOnceDone",    done |-> TRUE]}

Init ==
    /\ control = "kOnceInit"
    /\ pc = [t \in Threads |-> "idle"]
    /\ v = [t \in Threads |-> "kOnceInit"]
    /\ completed = 0
    /\ thrown = 0

Goto(t, p) == pc' = [pc EXCEPT ![t] = p]

\* call_once: the acquire load that decides whether anything is left to do.
Call(t) ==
    /\ pc[t] = "idle"
    /\ Goto(t, IF control = "kOnceDone" THEN "idle" ELSE "impl")
    /\ UNCHANGED <<control, v, completed, thrown>>

\* Mutant: the first caller is any that does not find kOnceDone.
TryFirstNotDone(t) ==
    /\ pc[t] = "impl"
    /\ IF control # "kOnceDone"
         THEN control' = "kOnceRunning" /\ Goto(t, "invoke")
         ELSE UNCHANGED control /\ Goto(t, "load")
    /\ UNCHANGED <<v, completed, thrown>>

\* CallOnceImpl: the short-circuit compare_exchange from kOnceInit.
TryFirst(t) ==
    /\ pc[t] = "impl"
    /\ IF control = "kOnceInit"
         THEN control' = "kOnceRunning" /\ Goto(t, "invoke")
         ELSE UNCHANGED control /\ Goto(t, "load")
    /\ UNCHANGED <<v, completed, thrown>>

\* SpinLockWait: load the word and look for a transition out of it.
LoadControl(t) ==
    /\ pc[t] = "load"
    /\ v' = [v EXCEPT ![t] = control]
    /\ Goto(t, IF \E tr \in trans : tr.from = control
                 THEN "transition" ELSE "delay")
    /\ UNCHANGED <<control, completed, thrown>>

\* SpinLockWait: a null transition, or a compare_exchange that may fail; the
\* caller runs fn exactly when the old value returned is kOnceInit.
TakeTransition(t) ==
    /\ pc[t] = "transition"
    /\ \E tr \in trans :
         /\ tr.from = v[t]
         /\ \/ /\ tr.to = v[t] \/ control = v[t]
               /\ control' = IF tr.to = v[t] THEN control ELSE tr.to
               /\ Goto(t, IF ~tr.done THEN "load"
                          ELSE IF v[t] = "kOnceInit" THEN "invoke" ELSE "idle")
            \/ /\ tr.to # v[t] /\ control # v[t]
               /\ Goto(t, "load")
               /\ UNCHANGED control
    /\ UNCHANGED <<v, completed, thrown>>

\* Mutant: sleep without comparing the word with the value loaded.
SpinLockDelayBlind(t) ==
    /\ pc[t] = "delay"
    /\ Goto(t, "asleep")
    /\ UNCHANGED <<control, v, completed, thrown>>

\* SpinLockDelay: FUTEX_WAIT sleeps only while the word still has value v.
SpinLockDelay(t) ==
    /\ pc[t] = "delay"
    /\ Goto(t, IF control = v[t] THEN "asleep" ELSE "load")
    /\ UNCHANGED <<control, v, completed, thrown>>

\* FUTEX_WAIT may also return on its own (a signal, a spurious wake-up).
SpuriousWake(t) ==
    /\ pc[t] = "asleep"
    /\ Goto(t, "load")
    /\ UNCHANGED <<control, v, completed, thrown>>

\* fn returns, and the exchange publishes kOnceDone.
FinishInvoke(t) ==
    /\ pc[t] = "invoke"
    /\ control' = "kOnceDone"
    /\ completed' = completed + 1
    /\ Goto(t, IF control = "kOnceWaiter" THEN "wake" ELSE "idle")
    /\ UNCHANGED <<v, thrown>>

\* fn leaves by an exception: nothing in CallOnceImpl handles it, so the
\* control word stays as it is.
ThrowFromInvoke(t) ==
    /\ pc[t] = "invoke"
    /\ thrown < MaxThrows
    /\ thrown' = thrown + 1
    /\ Goto(t, "thrown")
    /\ UNCHANGED <<control, v, completed>>

\* Mutant: SpinLockWake(control, false), which wakes one sleeper.
SpinLockWakeOne(t) ==
    /\ pc[t] = "wake"
    /\ \/ /\ \A u \in Threads : pc[u] # "asleep"
          /\ Goto(t, "idle")
       \/ \E u \in Threads :
            /\ pc[u] = "asleep"
            /\ pc' = [pc EXCEPT ![t] = "idle", ![u] = "load"]
    /\ UNCHANGED <<control, v, completed, thrown>>

\* SpinLockWake(control, true): FUTEX_WAKE of every sleeper.
SpinLockWake(t) ==
    /\ pc[t] = "wake"
    /\ pc' = [u \in Threads |-> IF u = t THEN "idle"
                                ELSE IF pc[u] = "asleep" THEN "load" ELSE pc[u]]
    /\ UNCHANGED <<control, v, completed, thrown>>

Step(t) ==
    \/ TryFirst(t) \/ LoadControl(t) \/ TakeTransition(t)
    \/ SpinLockDelay(t) \/ FinishInvoke(t) \/ SpinLockWake(t)

Next == \E t \in Threads :
    Step(t) \/ Call(t) \/ SpuriousWake(t) \/ ThrowFromInvoke(t)

\* A thread inside call_once is scheduled again and fn terminates; nothing
\* obliges a thread to call, a futex to wake spuriously or fn to throw.
Fairness == \A t \in Threads : WF_vars(Step(t))

Spec == Init /\ [][Next]_vars /\ Fairness

----------------------------------------------------------------------------

TypeOK ==
    /\ control \in ControlWord
    /\ pc \in [Threads -> Points]
    /\ v \in [Threads -> ControlWord]
    /\ completed \in Nat
    /\ thrown \in Nat

\* fn is never run twice: an invocation in progress excludes every other, and
\* a completed one excludes any later one (call_once.h: "invokes a given `fn`
\* exactly once across all threads").
RunsOnce ==
    completed + Cardinality({t \in Threads : pc[t] = "invoke"}) <= 1

\* A caller that sleeps in FUTEX_WAIT is always owed a wake-up: either the
\* word says kOnceWaiter, so the runner will see it in its exchange, or the
\* runner has done the exchange and stands before SpinLockWake.
NoLostWakeup ==
    \A t \in Threads : pc[t] = "asleep" =>
        \/ control = "kOnceWaiter"
        \/ \E u \in Threads : pc[u] = "wake"

\* A caller leaves call_once normally only when an invocation of fn has
\* completed, whichever of the five exits (fast path, null transition,
\* exchange, wake) it takes.
ReturnMeansDone ==
    [][\A t \in Threads : pc[t] # "idle" /\ pc'[t] = "idle" => completed' = 1]_vars

\* Every call ends: the caller returns, or its own invocation of fn throws
\* (call_once.h: the call that runs fn is the first one "that does not throw
\* an exception"; the others "wait for the provided function to finish running").
CallsEnd ==
    \A t \in Threads : pc[t] = "impl" ~> pc[t] \in {"idle", "thrown"}
=============================================================================
