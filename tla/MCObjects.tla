----------------------------- MODULE MCObjects ------------------------------
(***************************************************************************)
(* Notification, BlockingCounter and Barrier, with their variables and     *)
(* their promises under names of their own: MCParts model-checks them, and *)
(* ObjectProofs proves them of any number of threads.                      *)
(***************************************************************************)
EXTENDS Integers, FiniteSets

CONSTANTS Users, Main

ASSUME ObjectAssumption == IsFiniteSet(Users) /\ Main \in Users

VARIABLES
    object, workers, so_own, so_pc, result, freed, notified_yet, count,
    num_waiting, done, num_to_block, num_to_exit

objectVars == <<object, workers, so_own, so_pc, result, freed, notified_yet, count,
                num_waiting, done, num_to_block, num_to_exit>>

SO == INSTANCE SyncObjects WITH Threads <- Users, own <- so_own, pc <- so_pc

\* Notification, BlockingCounter, Barrier: nobody touches a destroyed object, a
\* call returns only when what it waits for has happened, and exactly one call of
\* Barrier::Block returns true.
ObjectInv ==
    SO!TypeOK /\ SO!NoUseAfterFree /\ SO!ReturnMeansReached /\ SO!OneDeletes
=============================================================================
