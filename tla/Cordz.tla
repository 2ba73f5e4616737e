------------------------------- MODULE Cordz -------------------------------
(***************************************************************************)
(* CordzHandle and CordzInfo (absl/strings/internal/cordz_handle.cc,       *)
(* cordz_info.cc): the list of sampled cords, which snapshots walk without *)
(* a lock, and the delete queue, which keeps alive what a snapshot may     *)
(* still find.                                                             *)
(*                                                                         *)
(* An owner has one cord, tracks it and untracks it; an inspector takes a  *)
(* snapshot, walks the list and lets it go.  Operations under a lock are   *)
(* one step each.                                                          *)
(***************************************************************************)
EXTENDS Integers, Sequences, FiniteSets, SequencesExt

CONSTANTS
    Owners, Inspectors, Infos, Reps, None,
    Teams    \* bound: the sets of owners and inspectors that are at work

VARIABLES
    list,       \* global_list_: the infos in order
    ci_next_,   \* kept by an info that has left the list
    rep_,       \* the CordRep of an info
    heap,       \* infos that exist
    refs,       \* reference counts of CordReps
    dq,         \* the delete queue: inspectors stand for their snapshots
    pc, cord,   \* owners: [info, rep] of the cord
    cur, held,  \* inspectors: the info at hand, the CordRep referenced
    to_delete   \* what a snapshot's destructor deletes

infos == <<list, ci_next_, rep_, heap, refs>>
owners == <<cord>>
walks == <<cur, held, to_delete>>
vars  == <<infos, dq, pc, owners, walks>>

NoCord == [info |-> None, rep |-> None]

Init ==
    /\ list = << >> /\ heap = {} /\ dq = << >>
    /\ ci_next_ = [x \in Infos |-> None] /\ rep_ = [x \in Infos |-> None]
    /\ refs = [r \in Reps |-> 0]
    /\ \E team \in Teams :
         pc = [p \in Owners \cup Inspectors |-> IF p \in team THEN "idle" ELSE "absent"]
    /\ cord = [o \in Owners |-> NoCord]
    /\ cur = [i \in Inspectors |-> None] /\ held = [i \in Inspectors |-> None]
    /\ to_delete = [i \in Inspectors |-> << >>]

Goto(p, l) == pc' = [pc EXCEPT ![p] = l]

Ref(r)   == refs' = [refs EXCEPT ![r] = @ + 1]
Unref(r) == refs' = IF r = None THEN refs ELSE [refs EXCEPT ![r] = @ - 1]

FreeReps == {r \in Reps : refs[r] = 0}

-----------------------------------------------------------------------------
(***************************************************************************)
(* Owners                                                                  *)
(***************************************************************************)

\* TrackCord: a new cord with a new CordRep, and its info at the head.
Track(o) ==
    /\ pc[o] = "idle" /\ cord[o] = NoCord
    /\ \E x \in Infos \ heap, r \in FreeReps :
         /\ heap' = heap \cup {x}
         /\ cord' = [cord EXCEPT ![o] = [info |-> x, rep |-> r]]
         /\ rep_' = [rep_ EXCEPT ![x] = r] /\ Ref(r)
         /\ ci_next_' = [ci_next_ EXCEPT ![x] = IF list = << >> THEN None ELSE Head(list)]
         /\ list' = <<x>> \o list
    /\ UNCHANGED <<dq, pc, walks>>

\* The cord's contents change: Lock, SetCordRep, Unlock.
SetCordRep(o) ==
    /\ pc[o] = "idle" /\ cord[o].info # None
    /\ \E r \in FreeReps :
         /\ rep_' = [rep_ EXCEPT ![cord[o].info] = r]
         /\ refs' = [refs EXCEPT ![r] = 1, ![cord[o].rep] = @ - 1]
         /\ cord' = [cord EXCEPT ![o].rep = r]
    /\ UNCHANGED <<list, ci_next_, heap, dq, pc, walks>>

\* Or the cord becomes empty, after which Unlock untracks it.
ClearCordRep(o) ==
    /\ pc[o] = "idle" /\ cord[o].info # None
    /\ rep_' = [rep_ EXCEPT ![cord[o].info] = None]
    /\ Unref(cord[o].rep)
    /\ cord' = [cord EXCEPT ![o].rep = None]
    /\ Goto(o, "Untrack")
    /\ UNCHANGED <<list, ci_next_, heap, dq, walks>>

\* Or it is destroyed.
BeginUntrack(o) ==
    /\ pc[o] = "idle" /\ cord[o].info # None
    /\ Goto(o, "Untrack")
    /\ UNCHANGED <<infos, dq, owners, walks>>

\* Untrack: the info leaves the list,
Untrack(o) ==
    /\ pc[o] = "Untrack"
    /\ \E x \in {cord[o].info} :
         /\ list' = SelectSeq(list, LAMBDA y : y # x)
         /\ ci_next_' = [y \in Infos |-> IF y \in ToSet(list) /\ ci_next_[y] = x
                                         THEN ci_next_[x] ELSE ci_next_[y]]
    /\ Goto(o, "SafeToDelete")
    /\ UNCHANGED <<rep_, heap, refs, dq, owners, walks>>

\* may be deleted at once if no snapshot exists now,
SafeToDelete(o) ==
    /\ pc[o] = "SafeToDelete"
    /\ Goto(o, IF dq = << >> THEN "DeleteThis" ELSE "ExtendLife")
    /\ UNCHANGED <<infos, dq, owners, walks>>

DeleteThis(o) ==
    /\ pc[o] = "DeleteThis"
    /\ heap' = heap \ {cord[o].info}
    /\ rep_' = [rep_ EXCEPT ![cord[o].info] = None]
    /\ Goto(o, "Drop")
    /\ UNCHANGED <<list, ci_next_, refs, dq, owners, walks>>

\* Mutant: the queued info relies on the cord for its CordRep.
ExtendLifeNoRef(o) ==
    /\ pc[o] = "ExtendLife"
    /\ Goto(o, "Delete")
    /\ UNCHANGED <<infos, dq, owners, walks>>

\* and takes a reference to its CordRep otherwise.
ExtendLife(o) ==
    /\ pc[o] = "ExtendLife"
    /\ IF rep_[cord[o].info] = None THEN UNCHANGED refs ELSE Ref(rep_[cord[o].info])
    /\ Goto(o, "Delete")
    /\ UNCHANGED <<list, ci_next_, rep_, heap, dq, owners, walks>>

\* CordzHandle::Delete looks again,
DeleteCheck(o) ==
    /\ pc[o] = "Delete"
    /\ Goto(o, IF dq = << >> THEN "Destroy" ELSE "Enqueue")
    /\ UNCHANGED <<infos, dq, owners, walks>>

\* Mutant: the queue is not looked at again under its lock.
EnqueueStale(o) ==
    /\ pc[o] = "Enqueue"
    /\ dq' = Append(dq, cord[o].info) /\ Goto(o, "Drop")
    /\ UNCHANGED <<infos, owners, walks>>

\* and joins the queue unless it is empty by now.
Enqueue(o) ==
    /\ pc[o] = "Enqueue"
    /\ IF dq = << >> THEN Goto(o, "Destroy") /\ UNCHANGED dq
       ELSE dq' = Append(dq, cord[o].info) /\ Goto(o, "Drop")
    /\ UNCHANGED <<infos, owners, walks>>

\* ~CordzInfo
Destroy(x) ==
    /\ heap' = heap \ {x}
    /\ Unref(rep_[x])
    /\ rep_' = [rep_ EXCEPT ![x] = None]

DeleteNow(o) ==
    /\ pc[o] = "Destroy"
    /\ Destroy(cord[o].info)
    /\ Goto(o, "Drop")
    /\ UNCHANGED <<list, ci_next_, dq, owners, walks>>

\* The cord lets its CordRep go.
Drop(o) ==
    /\ pc[o] = "Drop"
    /\ Unref(cord[o].rep)
    /\ cord' = [cord EXCEPT ![o] = NoCord]
    /\ Goto(o, "idle")
    /\ UNCHANGED <<list, ci_next_, rep_, heap, dq, walks>>

-----------------------------------------------------------------------------
(***************************************************************************)
(* Inspectors                                                              *)
(***************************************************************************)
NewSnapshot(i) ==
    /\ pc[i] = "idle"
    /\ dq' = Append(dq, i)
    /\ Goto(i, "Head")
    /\ UNCHANGED <<infos, owners, walks>>

Step(i, x) ==
    /\ cur' = [cur EXCEPT ![i] = x]
    /\ Goto(i, IF x = None THEN "End" ELSE "Walk")
    /\ UNCHANGED <<infos, dq, owners, held, to_delete>>

HeadOf(i) ==
    /\ pc[i] = "Head"
    /\ Step(i, IF list = << >> THEN None ELSE Head(list))

NextOf(i) ==
    /\ pc[i] = "Walk" /\ held[i] = None
    /\ Step(i, ci_next_[cur[i]])

\* RefCordRep, for GetCordzStatistics; and the Unref when it is done.
RefCordRep(i) ==
    /\ pc[i] = "Walk" /\ held[i] = None /\ rep_[cur[i]] # None
    /\ held' = [held EXCEPT ![i] = rep_[cur[i]]]
    /\ Ref(rep_[cur[i]])
    /\ UNCHANGED <<list, ci_next_, rep_, heap, dq, pc, owners, cur, to_delete>>

UnrefCordRep(i) ==
    /\ held[i] # None
    /\ Unref(held[i])
    /\ held' = [held EXCEPT ![i] = None]
    /\ UNCHANGED <<list, ci_next_, rep_, heap, dq, pc, owners, cur, to_delete>>

\* The infos that follow entry k up to the next snapshot.
RunAfter(k) ==
    LET stop == {n \in (k + 1)..Len(dq) : dq[n] \in Inspectors}
    IN  SubSeq(dq, k + 1, IF stop = {} THEN Len(dq) ELSE (CHOOSE n \in stop : \A m \in stop : n <= m) - 1)

\* Mutant: any snapshot takes with it what was queued after it.
CloseSnapshotAnywhere(i) ==
    /\ pc[i] \in {"Head", "Walk", "End"} /\ held[i] = None
    /\ \E k \in {n \in 1..Len(dq) : dq[n] = i} :
         /\ to_delete' = [to_delete EXCEPT ![i] = RunAfter(k)]
         /\ dq' = SelectSeq(dq, LAMBDA h : h # i /\ h \notin ToSet(RunAfter(k)))
    /\ cur' = [cur EXCEPT ![i] = None]
    /\ Goto(i, "Deleting")
    /\ UNCHANGED <<infos, owners, held>>

\* ~CordzHandle of a snapshot, which only at the head of the queue takes what
\* follows it.
CloseSnapshot(i) ==
    /\ pc[i] \in {"Head", "Walk", "End"} /\ held[i] = None
    /\ \E k \in {n \in 1..Len(dq) : dq[n] = i} :
         \E run \in {IF k = 1 THEN RunAfter(k) ELSE << >>} :
           /\ to_delete' = [to_delete EXCEPT ![i] = run]
           /\ dq' = SelectSeq(dq, LAMBDA h : h # i /\ h \notin ToSet(run))
    /\ cur' = [cur EXCEPT ![i] = None]
    /\ Goto(i, "Deleting")
    /\ UNCHANGED <<infos, owners, held>>

\* The deletions come after the unlock.
DeleteRun(i) ==
    /\ pc[i] = "Deleting"
    /\ \/ /\ to_delete[i] = << >>
          /\ Goto(i, "idle")
          /\ UNCHANGED <<infos, to_delete>>
       \/ /\ to_delete[i] # << >>
          /\ Destroy(Head(to_delete[i]))
          /\ to_delete' = [to_delete EXCEPT ![i] = Tail(@)]
          /\ UNCHANGED <<list, ci_next_, pc>>
    /\ UNCHANGED <<dq, owners, cur, held>>

OwnerStep(o) ==
    \/ Track(o) \/ SetCordRep(o) \/ ClearCordRep(o) \/ BeginUntrack(o)
    \/ Untrack(o) \/ SafeToDelete(o) \/ DeleteThis(o) \/ ExtendLife(o) \/ DeleteCheck(o) \/ Enqueue(o)
    \/ DeleteNow(o) \/ Drop(o)

InspectorStep(i) ==
    \/ NewSnapshot(i) \/ HeadOf(i) \/ NextOf(i) \/ RefCordRep(i) \/ UnrefCordRep(i)
    \/ CloseSnapshot(i) \/ DeleteRun(i)

Next == (\E o \in Owners : OwnerStep(o)) \/ (\E i \in Inspectors : InspectorStep(i))

Spec == Init /\ [][Next]_vars

-----------------------------------------------------------------------------

Deleting == UNION {ToSet(to_delete[i]) : i \in Inspectors}

\* The assertion of Head and Next: no entry that the queue holds in front of
\* the snapshot.
DiagnosticsHandleIsSafeToInspect(i, x) ==
    \A m, n \in 1..Len(dq) : dq[m] = x /\ dq[n] = i => n < m

TypeOK ==
    /\ list \in Seq(Infos) /\ heap \subseteq Infos
    /\ ci_next_ \in [Infos -> Infos \cup {None}] /\ rep_ \in [Infos -> Reps \cup {None}]
    /\ refs \in [Reps -> Nat]
    /\ dq \in Seq(Infos \cup Inspectors)
    /\ cur \in [Inspectors -> Infos \cup {None}] /\ held \in [Inspectors -> Reps \cup {None}]

(***************************************************************************)
(* A walk is safe: the info at hand, and the one its ci_next_ leads to,    *)
(* exist and pass the assertions of Next, though either may have left the  *)
(* list since; so do what the queue and the list hold, each once, and the  *)
(* CordRep of every info.                                                  *)
(***************************************************************************)
WalkIsSafe ==
    /\ \A i \in Inspectors : cur[i] # None =>
         /\ cur[i] \in heap /\ ci_next_[cur[i]] \in heap \cup {None}
         /\ \A x \in {cur[i], ci_next_[cur[i]]} : DiagnosticsHandleIsSafeToInspect(i, x)
    /\ ToSet(list) \cup (ToSet(dq) \cap Infos) \cup Deleting \subseteq heap
    /\ ToSet(list) \cap ToSet(dq) = {} /\ IsInjective(dq) /\ IsInjective(list)
    /\ \A x \in heap : rep_[x] # None => refs[rep_[x]] > 0

(***************************************************************************)
(* A CordRep is referenced by its cord, by the inspectors that use it and  *)
(* by its info once the info is to outlive the cord, and by nothing else:  *)
(* it is neither freed early nor leaked.                                   *)
(***************************************************************************)
RefsAreCounted ==
    \A r \in Reps :
        refs[r] = Cardinality({o \in Owners : cord[o].rep = r})
                + Cardinality({i \in Inspectors : held[i] = r})
                + Cardinality({x \in heap : rep_[x] = r /\
                     (x \in ToSet(dq) \cup Deleting \/
                      \E o \in Owners : cord[o].info = x /\ pc[o] \in {"Delete", "Enqueue", "Destroy"})})

(***************************************************************************)
(* The queue does not outlive its snapshots: without a snapshot it is      *)
(* empty, and what exists is listed or in the hands of someone who deletes *)
(* it.                                                                     *)
(***************************************************************************)
NothingLeftBehind ==
    ToSet(dq) \cap Inspectors = {} =>
        /\ dq = << >>
        /\ \A x \in heap : x \in ToSet(list) \cup Deleting \/ \E o \in Owners : cord[o].info = x
=============================================================================
