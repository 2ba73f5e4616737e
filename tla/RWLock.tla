------------------------------- MODULE RWLock -------------------------------
(***************************************************************************)
(* What a readers/writer lock promises, as absl/synchronization/mutex.h    *)
(* states it for Mutex: a thread holds it exclusively, or any number of    *)
(* threads hold it shared.                                                 *)
(***************************************************************************)
CONSTANT Threads

VARIABLE own   \* what each thread holds: "free", "kShared", "kExclusive"

Init == own = [t \in Threads |-> "free"]

AcquireExclusive(t) ==
    /\ \A u \in Threads : own[u] = "free"
    /\ own' = [own EXCEPT ![t] = "kExclusive"]

AcquireShared(t) ==
    /\ own[t] = "free"
    /\ \A u \in Threads : own[u] # "kExclusive"
    /\ own' = [own EXCEPT ![t] = "kShared"]

Release(t) ==
    /\ own[t] # "free"
    /\ own' = [own EXCEPT ![t] = "free"]

Next == \E t \in Threads : AcquireExclusive(t) \/ AcquireShared(t) \/ Release(t)

Spec == Init /\ [][Next]_own
=============================================================================
