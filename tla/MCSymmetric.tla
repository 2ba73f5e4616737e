---------------------------- MODULE MCSymmetric ----------------------------
(***************************************************************************)
(* Shared data structures, each checked on its own up to the symmetry of   *)
(* threads and objects: the sequence lock, the deadlock detector and its   *)
(* graph, the registry of event logging, the sample recorder and the       *)
(* delete queue of cordz.  A behaviour is one of one part, and the other   *)
(* parts rest in an initial state.                                         *)
(***************************************************************************)
EXTENDS SequenceLock, MCSamples, Sequences, TLC

CONSTANTS
    None, NoPtr, kMaxVersion,
    Threads, Objects,           \* interchangeable
    fourth,                     \* one more node of the graph
    o1, o2, i1, i2              \* owners and inspectors of cords

VARIABLES
    part,
    limits, rep, mode, switches, forgets, own, held, overflow, pending, died,
    synch_event_mu, synch_event, event, event_heap, word, exists, event_pc, e,
    list, ci_next_, rep_, heap, refs, dq, cord_pc, cord, cur, ref_held, to_delete,
    table_, occupied_, elements

lockVars == vars
deadlockVars == <<limits, mode, switches, own, held, overflow, pending, died>>
graphVars == <<rep, forgets>>
eventVars == <<synch_event_mu, synch_event, event, event_heap, word, exists, event_pc, e>>
cordVars == <<list, ci_next_, rep_, heap, refs, dq, cord_pc, cord, cur, ref_held, to_delete>>
nodeSetVars == <<table_, occupied_, elements>>

-----------------------------------------------------------------------------
(* Bounds of the deadlock detector *)

Limit(users, locks, hows, hold, f, s) ==
    [users |-> users, locks |-> locks, hows |-> hows, hold |-> hold, forgets |-> f, switches |-> s]

DeadlockLimits ==
    {Limit(Threads, Objects, {"kExclusive"}, 2, 0, 0)}
    \cup {Limit(Threads \ {t}, Objects \ {o}, {"kExclusive"}, 2, f, 1 - f) :
            t \in Threads, o \in Objects, f \in 0..1}
    \cup {Limit(Threads \ {t}, Objects \ {o}, {"kExclusive", "kShared"}, 3, 0, 0) : t \in Threads, o \in Objects}

-----------------------------------------------------------------------------

DD == INSTANCE DeadlockDetection WITH
        Mutexes <- Objects, kMaxLocks <- 2, MaxNodes <- 3, Limits <- DeadlockLimits
Three == INSTANCE GraphClient WITH Ptrs <- Objects, MaxRemovals <- 2
Four == INSTANCE GraphClient WITH Ptrs <- Objects \cup {fourth}, MaxRemovals <- 0
SE == INSTANCE SynchEvent WITH
        Objects <- 1..2, Events <- Objects, heap <- event_heap, pc <- event_pc
CZ == INSTANCE Cordz WITH
        Owners <- {o1, o2}, Inspectors <- {i1, i2}, Infos <- 1..2, Reps <- Objects,
        Teams <- {{o1, o2, i1}, {o1, i1, i2}}, pc <- cord_pc, held <- ref_held
NS == INSTANCE NodeSet WITH kInline <- 4, MaxTable <- 16, Values <- {0, 4, 8, 1, 2}

Parts == {"SequenceLock", "DeadlockDetection", "GraphClient",
          "LargeGraph", "SynchEvent", "SampleRecorder", "Cordz", "NodeSet"}

\* A part with several initial states rests in this one.
Rest(p, state) == part = p \/ (part # p /\ state)

InitAll ==
    /\ part \in Parts
    /\ Rest("SequenceLock", words = [i \in Index |-> 0])
    /\ Rest("DeadlockDetection", limits = Limit(Threads, Objects, {"kExclusive"}, 2, 0, 0))
    /\ Rest("Cordz", cord_pc = [p \in {o1, o2, i1, i2} |-> IF p = i2 THEN "absent" ELSE "idle"])
    /\ Init /\ DD!Init /\ SE!Init /\ SR!Init /\ CZ!Init /\ NS!Init

NextSequenceLock ==
    /\ part = "SequenceLock" /\ Next
    /\ UNCHANGED <<part, deadlockVars, graphVars, eventVars, sampleVars, cordVars, nodeSetVars>>
NextDeadlock ==
    /\ part = "DeadlockDetection" /\ DD!Next
    /\ UNCHANGED <<part, lockVars, eventVars, sampleVars, cordVars, nodeSetVars>>
NextGraph ==
    /\ \/ part = "GraphClient" /\ Three!Next
       \/ part = "LargeGraph" /\ Four!Next
    /\ UNCHANGED <<part, lockVars, deadlockVars, eventVars, sampleVars, cordVars, nodeSetVars>>
NextEvent ==
    /\ part = "SynchEvent" /\ SE!Next
    /\ UNCHANGED <<part, lockVars, deadlockVars, graphVars, sampleVars, cordVars, nodeSetVars>>
NextSample ==
    /\ part = "SampleRecorder" /\ SR!Next
    /\ UNCHANGED <<part, lockVars, deadlockVars, graphVars, eventVars, cordVars, nodeSetVars>>
NextCord ==
    /\ part = "Cordz" /\ CZ!Next
    /\ UNCHANGED <<part, lockVars, deadlockVars, graphVars, eventVars, sampleVars, nodeSetVars>>
NextNodeSet ==
    /\ part = "NodeSet" /\ NS!Next
    /\ UNCHANGED <<part, lockVars, deadlockVars, graphVars, eventVars, sampleVars, cordVars>>

NextAll ==
    NextSequenceLock \/ NextDeadlock \/ NextGraph \/ NextEvent
    \/ NextSample \/ NextCord \/ NextNodeSet

SpecAll ==
    InitAll /\ [][NextAll]_<<part, lockVars, deadlockVars, graphVars, eventVars,
                             sampleVars, cordVars, nodeSetVars>>

Symmetry == Permutations(Threads) \cup Permutations(Objects)

-----------------------------------------------------------------------------

\* GraphCycles, alone and under the detector: ranks, edges and pointers agree,
\* InsertEdge refuses an edge exactly if it closes a cycle, and FindPath finds a
\* path exactly where there is one.
GraphInv == DD!GraphInvariants /\ DD!OrdersRefusedExactly /\ DD!ReportShowsCycle

\* Deadlock detection: of the threads that wait in a circle one was told, LockLeave
\* does not die for a lock that is held, and the list of a thread's locks is right
\* about those not forgotten.
DeadlockInv ==
    part = "DeadlockDetection" =>
        DD!TypeOK /\ DD!DeadlockReported /\ DD!NoFalseFatal /\ DD!HeldListed

\* SynchEvent: the reference counts are the references, and the event bit is set
\* only if there is an entry.
EventInv ==
    part = "SynchEvent" =>
        SE!TypeOK /\ SE!ReferencesCounted /\ SE!BitMeansEntry

\* Cordz: an inspector's walk meets no deleted info, the references to CordReps
\* are counted, and the delete queue is empty when nobody inspects.
CordzInv ==
    part = "Cordz" =>
        CZ!TypeOK /\ CZ!WalkIsSafe /\ CZ!RefsAreCounted /\ CZ!NothingLeftBehind

\* NodeSet: the table stands for the set.
TableIsSet ==
    part = "NodeSet" =>
        NS!TableIsSet
=============================================================================
