--------------------------- MODULE SampleRecorder ---------------------------
(***************************************************************************)
(* SampleRecorder (absl/profiling/internal/sample_recorder.h): samples are *)
(* registered, unregistered and iterated over concurrently.  A sample is   *)
(* never freed: it stays on all_, and is on the circular list of the       *)
(* graveyard while dead.                                                   *)
(***************************************************************************)
EXTENDS Integers, FiniteSets

CONSTANTS
    Clients,      \* threads that register and unregister a sample each
    Iterators,    \* threads that call Iterate
    Samples,      \* addresses of samples: bounds how many are ever created
    Graveyard,    \* the address of graveyard_
    None,         \* nullptr
    max_samples_,
    MaxDropped    \* bounds dropped_samples_

VARIABLES
    size_estimate_, dropped_samples_,
    all_, next, dead,   \* dead[Graveyard] heads the graveyard
    init_mu,            \* holder of the lock of each sample
    ready,              \* samples that PrepareForSampling has finished
    pc, sample,         \* where a thread is, and the sample it has
    must, seen          \* of a call of Iterate: see VisitsAllRegistered

lists == <<all_, next, dead>>
counts == <<size_estimate_, dropped_samples_>>
visits == <<must, seen>>
vars == <<counts, lists, init_mu, ready, pc, sample, visits>>

Processes == Clients \cup Iterators

Init ==
    /\ size_estimate_ = 0 /\ dropped_samples_ = 0
    /\ all_ = None /\ next = [s \in Samples |-> None]
    /\ dead = [s \in Samples \cup {Graveyard} |-> IF s = Graveyard THEN Graveyard ELSE None]
    /\ init_mu = [s \in Samples \cup {Graveyard} |-> None]
    /\ ready = {}
    /\ pc = [t \in Processes |-> "idle"] /\ sample = [t \in Processes |-> None]
    /\ must = [i \in Iterators |-> {}] /\ seen = [i \in Iterators |-> {}]

Goto(t, l) == pc' = [pc EXCEPT ![t] = l]

Locks(t, s)   == init_mu[s] = None /\ init_mu' = [init_mu EXCEPT ![s] = t]
Unlocks(t)    == init_mu' = [s \in DOMAIN init_mu |-> IF init_mu[s] = t THEN None ELSE init_mu[s]]

Created == {s \in Samples : \E t \in Processes : sample[t] = s} \cup ready

-----------------------------------------------------------------------------

\* Mutant: the count of a dropped registration is not taken back.
RegisterKeepsCount(t) ==
    /\ pc[t] = "idle" /\ sample[t] = None
    /\ size_estimate_ <= max_samples_ + Cardinality(Clients)
    /\ size_estimate_' = size_estimate_ + 1
    /\ Goto(t, IF size_estimate_ > max_samples_ THEN "idle" ELSE "PopDead")
    /\ UNCHANGED <<dropped_samples_, lists, init_mu, ready, sample, visits>>

Register(t) ==
    /\ pc[t] = "idle" /\ sample[t] = None
    /\ size_estimate_' = size_estimate_ + 1
    /\ Goto(t, IF size_estimate_ > max_samples_ THEN "Dropped" ELSE "PopDead")
    /\ UNCHANGED <<dropped_samples_, lists, init_mu, ready, sample, visits>>

Dropped(t) ==
    /\ pc[t] = "Dropped" /\ dropped_samples_ < MaxDropped
    /\ size_estimate_' = size_estimate_ - 1
    /\ dropped_samples_' = dropped_samples_ + 1
    /\ Goto(t, "idle")
    /\ UNCHANGED <<lists, init_mu, ready, sample, visits>>

\* PopDead finds the graveyard empty, or goes on to lock the sample.
PopDead(t) ==
    /\ pc[t] = "PopDead" /\ init_mu[Graveyard] = None
    /\ IF dead[Graveyard] = Graveyard
       THEN Goto(t, "New") /\ UNCHANGED init_mu
       ELSE Locks(t, Graveyard) /\ Goto(t, "Resurrect")
    /\ UNCHANGED <<counts, lists, ready, sample, visits>>

Resurrect(t) ==
    /\ pc[t] = "Resurrect"
    /\ Locks(t, dead[Graveyard])
    /\ dead' = [dead EXCEPT ![Graveyard] = dead[dead[Graveyard]], ![dead[Graveyard]] = None]
    /\ sample' = [sample EXCEPT ![t] = dead[Graveyard]]
    /\ ready' = ready \ {dead[Graveyard]}
    /\ Goto(t, "Prepare")
    /\ UNCHANGED <<counts, all_, next, visits>>

\* PrepareForSampling ends, and both locks are released.
Prepare(t) ==
    /\ pc[t] = "Prepare"
    /\ ready' = ready \cup {sample[t]}
    /\ Unlocks(t)
    /\ Goto(t, "idle")
    /\ UNCHANGED <<counts, lists, sample, visits>>

\* A new sample, prepared before anyone can find it; PushNew reads all_.
New(t) ==
    /\ pc[t] = "New"
    /\ \E s \in Samples \ Created :
         /\ sample' = [sample EXCEPT ![t] = s]
         /\ ready' = ready \cup {s}
         /\ next' = [next EXCEPT ![s] = all_]
    /\ Goto(t, "PushNew")
    /\ UNCHANGED <<counts, all_, dead, init_mu, visits>>

\* Mutant: a store instead of the compare and exchange.
PushNewStore(t) ==
    /\ pc[t] = "PushNew"
    /\ all_' = sample[t]
    /\ Goto(t, "idle")
    /\ UNCHANGED <<counts, next, dead, init_mu, ready, sample, visits>>

\* compare_exchange_weak, which reloads next when it fails.
PushNew(t) ==
    /\ pc[t] = "PushNew"
    /\ IF next[sample[t]] = all_
       THEN all_' = sample[t] /\ Goto(t, "idle") /\ UNCHANGED next
       ELSE next' = [next EXCEPT ![sample[t]] = all_] /\ UNCHANGED <<all_, pc>>
    /\ UNCHANGED <<counts, dead, init_mu, ready, sample, visits>>

\* Unregister: PushDead locks the graveyard, then the sample.
Unregister(t) ==
    /\ pc[t] = "idle" /\ t \in Clients /\ sample[t] # None
    /\ must' = [i \in Iterators |-> must[i] \ {sample[t]}]
    /\ Goto(t, "PushDead")
    /\ UNCHANGED <<counts, lists, init_mu, ready, sample, seen>>

LockGraveyard(t) ==
    /\ pc[t] = "PushDead"
    /\ Locks(t, Graveyard)
    /\ Goto(t, "Bury")
    /\ UNCHANGED <<counts, lists, ready, sample, visits>>

\* Mutant: the sample is not locked.
BuryNoLock(t) ==
    /\ pc[t] = "Bury"
    /\ dead' = [dead EXCEPT ![sample[t]] = dead[Graveyard], ![Graveyard] = sample[t]]
    /\ Unlocks(t)
    /\ Goto(t, "Uncount")
    /\ UNCHANGED <<counts, all_, next, ready, sample, visits>>

\* With both locks, which it releases.
Bury(t) ==
    /\ pc[t] = "Bury" /\ init_mu[sample[t]] = None
    /\ dead' = [dead EXCEPT ![sample[t]] = dead[Graveyard], ![Graveyard] = sample[t]]
    /\ Unlocks(t)
    /\ Goto(t, "Uncount")
    /\ UNCHANGED <<counts, all_, next, ready, sample, visits>>

Uncount(t) ==
    /\ pc[t] = "Uncount"
    /\ size_estimate_' = size_estimate_ - 1
    /\ sample' = [sample EXCEPT ![t] = None]
    /\ Goto(t, "idle")
    /\ UNCHANGED <<dropped_samples_, lists, init_mu, ready, visits>>

-----------------------------------------------------------------------------

Registered == {sample[t] : t \in {u \in Clients : pc[u] = "idle" /\ sample[u] # None}}

Iterate(i) ==
    /\ pc[i] = "idle"
    /\ sample' = [sample EXCEPT ![i] = all_]
    /\ must' = [must EXCEPT ![i] = Registered]
    /\ seen' = [seen EXCEPT ![i] = {}]
    /\ Goto(i, "Lock")
    /\ UNCHANGED <<counts, lists, init_mu, ready>>

LockSample(i) ==
    /\ pc[i] = "Lock" /\ sample[i] # None
    /\ Locks(i, sample[i])
    /\ Goto(i, IF dead[sample[i]] = None THEN "f" ELSE "Next")
    /\ UNCHANGED <<counts, lists, ready, sample, visits>>

\* The callback.
CallF(i) ==
    /\ pc[i] = "f"
    /\ seen' = [seen EXCEPT ![i] = @ \cup {sample[i]}]
    /\ Goto(i, "Next")
    /\ UNCHANGED <<counts, lists, init_mu, ready, sample, must>>

Advance(i) ==
    /\ pc[i] = "Next"
    /\ sample' = [sample EXCEPT ![i] = next[sample[i]]]
    /\ Unlocks(i)
    /\ Goto(i, "Lock")
    /\ UNCHANGED <<counts, lists, ready, visits>>

EndIterate(i) ==
    /\ pc[i] = "Lock" /\ sample[i] = None
    /\ Goto(i, "idle")
    /\ UNCHANGED <<counts, lists, init_mu, ready, sample, visits>>

ClientStep(t) ==
    \/ Register(t) \/ Dropped(t) \/ PopDead(t) \/ Resurrect(t) \/ Prepare(t) \/ New(t)
    \/ PushNew(t) \/ Unregister(t) \/ LockGraveyard(t) \/ Bury(t) \/ Uncount(t)

IteratorStep(i) ==
    Iterate(i) \/ LockSample(i) \/ CallF(i) \/ Advance(i) \/ EndIterate(i)

Next == (\E t \in Clients : ClientStep(t)) \/ (\E i \in Iterators : IteratorStep(i))

Spec == Init /\ [][Next]_vars

-----------------------------------------------------------------------------

TypeOK ==
    /\ size_estimate_ \in 0..(max_samples_ + 1 + Cardinality(Clients))
    /\ dropped_samples_ \in 0..MaxDropped
    /\ all_ \in Samples \cup {None} /\ next \in [Samples -> Samples \cup {None}]
    /\ dead \in [Samples \cup {Graveyard} -> Samples \cup {Graveyard, None}]
    /\ init_mu \in [Samples \cup {Graveyard} -> Processes \cup {None}]
    /\ ready \subseteq Samples /\ sample \in [Processes -> Samples \cup {None}]

(***************************************************************************)
(* Iterate calls f only on samples that are live and prepared, though they *)
(* may die and be reused at any time between two samples, and no sample    *)
(* belongs to two clients.                                                 *)
(***************************************************************************)
IteratesOverLive ==
    /\ \A i \in Iterators : pc[i] = "f" =>
         /\ sample[i] \in ready /\ dead[sample[i]] = None
         /\ \E t \in Clients : sample[t] = sample[i]
    /\ \A t, u \in Clients : t # u /\ sample[t] # None /\ sample[t] = sample[u] =>
         "Uncount" \in {pc[t], pc[u]}

(***************************************************************************)
(* A sample that is registered when Iterate starts and until it ends is    *)
(* visited, whatever is registered meanwhile.                              *)
(***************************************************************************)
VisitsAllRegistered ==
    \A i \in Iterators : pc[i] = "idle" => must[i] \subseteq seen[i]

(***************************************************************************)
(* size_estimate_ counts the samples in use and the calls under way and    *)
(* does not drift; the samples in use exceed max_samples_ by at most one.  *)
(***************************************************************************)
SizeIsCounted ==
    /\ size_estimate_ = Cardinality({t \in Clients :
         sample[t] # None \/ pc[t] \in {"Dropped", "PopDead", "Resurrect", "New"}})
    /\ Cardinality({t \in Clients : sample[t] # None}) <= max_samples_ + 1
=============================================================================
