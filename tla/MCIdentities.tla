---------------------------- MODULE MCIdentities ----------------------------
(***************************************************************************)
(* Thread identities, with their variables and their promise under names   *)
(* of their own: MCParts model-checks them, and IdentityProofs proves it   *)
(* of any number of threads, identities and posts.                         *)
(***************************************************************************)
EXTENDS Integers, FiniteSets

CONSTANTS Waiters, Identities, NoIdentity, MaxPosts, Iterations

ASSUME IdentityAssumption == NoIdentity \notin Identities /\ MaxPosts \in Nat

VARIABLES
    thread_identity_ptr, key, thread_identity_freelist, allocated, state, sem,
    ti_pc, local, runs, queue, dequeued, posting

identityVars == <<thread_identity_ptr, key, thread_identity_freelist, allocated,
                  state, sem, ti_pc, local, runs, queue, dequeued, posting>>

TI == INSTANCE ThreadIdentity WITH Threads <- Waiters, None <- NoIdentity, pc <- ti_pc

\* ThreadIdentity: an identity has one owner at a time, a waker's store finds the
\* waiter it dequeued, and a thread that was let go has a token, or one is on its
\* way.
IdentityInv ==
    TI!TypeOK /\ TI!OneOwner /\ TI!StoreHitsItsWaiter /\ TI!LateEnough
=============================================================================
