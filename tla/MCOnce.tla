------------------------------- MODULE MCOnce -------------------------------
(***************************************************************************)
(* call_once, with its variables and its promise under names of their own: *)
(* MCParts model-checks it, and SpinLockProofs proves it of any number of  *)
(* threads.                                                                *)
(***************************************************************************)

CONSTANTS Callers, MaxThrows

VARIABLES control, once_pc, once_v, completed, thrown

onceVars == <<control, once_pc, once_v, completed, thrown>>

CO == INSTANCE CallOnce WITH Threads <- Callers, pc <- once_pc, v <- once_v

\* call_once: fn is never run twice, and a caller that sleeps is owed a wake-up.
OnceInv == CO!TypeOK /\ CO!RunsOnce /\ CO!NoLostWakeup

\* call_once: a caller leaves only when an invocation has completed.
ReturnMeansDone == CO!ReturnMeansDone
=============================================================================
