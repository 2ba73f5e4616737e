----------------------------- MODULE Semaphore -----------------------------
(***************************************************************************)
(* What a Waiter promises to PerThreadSem, as WaiterBase states it         *)
(* (absl/synchronization/internal/waiter_base.h): a counting semaphore     *)
(* whose Wait may also give up.                                            *)
(***************************************************************************)
EXTENDS Naturals

VARIABLES
    count,    \* wakeups posted and not yet consumed
    waiting,  \* the owner is in Wait
    woken     \* the last Wait returned true

vars == <<count, waiting, woken>>

Init == count = 0 /\ waiting = FALSE /\ woken = FALSE

Post == count' = count + 1 /\ UNCHANGED <<waiting, woken>>

WaitBegin == ~waiting /\ waiting' = TRUE /\ woken' = FALSE /\ UNCHANGED count

\* Wait returns true: it has consumed one wakeup.
WaitWoken ==
    /\ waiting /\ count > 0
    /\ count' = count - 1 /\ waiting' = FALSE /\ woken' = TRUE

\* Wait returns false, and has consumed none.
WaitTimedOut ==
    /\ waiting
    /\ waiting' = FALSE /\ woken' = FALSE
    /\ UNCHANGED count

Next == Post \/ WaitBegin \/ WaitWoken \/ WaitTimedOut

Spec == Init /\ [][Next]_vars
=============================================================================
