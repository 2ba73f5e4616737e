---------------------------- MODULE SynchEvent ----------------------------
(***************************************************************************)
(* The table of SynchEvents of absl/synchronization/mutex.cc: the debug    *)
(* record of a Mutex or CondVar, found by its address, counted by          *)
(* references, and announced by the event bit (kMuEvent, kCvEvent) in the  *)
(* object's word.  Objects are destroyed and others are made in their      *)
(* place while threads post events on, and enable logging for, the rest.   *)
(*                                                                         *)
(* synch_event_mu is held through a whole operation on the table, except   *)
(* that AtomicSetBits and AtomicClearBits wait, holding it, for the spin   *)
(* bit of the object's word.                                               *)
(***************************************************************************)
EXTENDS Integers, Sequences, FiniteSets, SequencesExt

CONSTANTS
    Threads, Objects, Events,   \* Events: the memory for SynchEvent structs
    None

VARIABLES
    synch_event_mu,   \* its holder
    synch_event,      \* the chain of one bucket, newest first
    event,            \* masked_addr and refcount of each struct
    heap,             \* structs that are allocated
    word,             \* the event and spin bits of each object
    exists,           \* objects that are constructed
    pc, e             \* each thread, and the struct it has a pointer to

vars == <<synch_event_mu, synch_event, event, heap, word, exists, pc, e>>

\* What a thread does next, and on which object.
Idle == [op |-> "Idle", obj |-> None]

Init ==
    /\ synch_event_mu = None
    /\ synch_event = << >>
    /\ event = [x \in Events |-> [masked_addr |-> None, refcount |-> 0]]
    /\ heap = {}
    /\ word = [o \in Objects |-> [event |-> FALSE, spin |-> None]]
    /\ exists = Objects
    /\ pc = [t \in Threads |-> Idle]
    /\ e = [t \in Threads |-> None]

At(t, op) == pc[t].op = op
Goto(t, op) == pc' = [pc EXCEPT ![t].op = op]
Return(t) == pc' = [pc EXCEPT ![t] = Idle]
Hold(t, x) == e' = [e EXCEPT ![t] = x]

Free == synch_event_mu = None

\* The walk along the chain.
Find(o) ==
    LET found == SelectSeq(synch_event, LAMBDA x : event[x].masked_addr = o)
    IN  IF found = << >> THEN None ELSE Head(found)

Users(o) == {t \in Threads : pc[t].obj = o}

\* Calls on an object: EnableDebugLog and EnableInvariantDebugging;
\* any operation that finds the event bit posts; the destructor, which its
\* client calls when no other thread uses the object.
EnableDebugLog(t, o) ==
    /\ pc[t] = Idle /\ o \in exists
    /\ pc' = [pc EXCEPT ![t] = [op |-> "Ensure", obj |-> o]]
    /\ UNCHANGED <<synch_event_mu, synch_event, event, heap, word, exists, e>>

PostSynchEvent(t, o) ==
    /\ pc[t] = Idle /\ o \in exists /\ word[o].event
    /\ pc' = [pc EXCEPT ![t] = [op |-> "Get", obj |-> o]]
    /\ UNCHANGED <<synch_event_mu, synch_event, event, heap, word, exists, e>>

\* Mutant: the destructor leaves the table alone.
DestructorNoForget(t, o) ==
    /\ pc[t] = Idle /\ o \in exists /\ Users(o) = {} /\ word[o].spin = None
    /\ exists' = exists \ {o}
    /\ UNCHANGED <<synch_event_mu, synch_event, event, heap, word, pc, e>>

Destructor(t, o) ==
    /\ pc[t] = Idle /\ o \in exists /\ Users(o) = {} /\ word[o].spin = None
    /\ exists' = exists \ {o}
    /\ \/ word[o].event /\ pc' = [pc EXCEPT ![t] = [op |-> "Forget", obj |-> o]]
       \/ ~word[o].event /\ UNCHANGED pc
    /\ UNCHANGED <<synch_event_mu, synch_event, event, heap, word, e>>

\* Another object in the same place.
Constructor(o) ==
    /\ o \notin exists /\ Users(o) = {}
    /\ exists' = exists \cup {o}
    /\ word' = [word EXCEPT ![o] = [event |-> FALSE, spin |-> None]]
    /\ UNCHANGED <<synch_event_mu, synch_event, event, heap, pc, e>>

\* The queue operations of Mutex and CondVar hold the spin bit for a while
\* and never use the table meanwhile.
SpinBit(t, o) ==
    \/ /\ pc[t] = Idle /\ o \in exists /\ word[o].spin = None
       /\ pc' = [pc EXCEPT ![t] = [op |-> "Spin", obj |-> o]]
       /\ word' = [word EXCEPT ![o].spin = t]
       /\ UNCHANGED <<synch_event_mu, synch_event, event, heap, exists, e>>
    \/ /\ At(t, "Spin") /\ word[o].spin = t
       /\ Return(t)
       /\ word' = [word EXCEPT ![o].spin = None]
       /\ UNCHANGED <<synch_event_mu, synch_event, event, heap, exists, e>>

(***************************************************************************)
(* EnsureSynchEvent                                                        *)
(***************************************************************************)

EnsureSynchEvent(t) ==
    /\ At(t, "Ensure") /\ Free
    /\ \E x \in {Find(pc[t].obj)} :
         \/ /\ x # None
            /\ event' = [event EXCEPT ![x].refcount = @ + 1]
            /\ Hold(t, x) /\ Goto(t, "Use")
            /\ UNCHANGED <<synch_event_mu, heap>>
         \/ /\ x = None
            /\ \E y \in Events \ heap :
                 /\ event' = [event EXCEPT ![y] = [masked_addr |-> pc[t].obj, refcount |-> 2]]
                 /\ heap' = heap \cup {y}
                 /\ Hold(t, y) /\ Goto(t, "SetBits")
            /\ synch_event_mu' = t
    /\ UNCHANGED <<synch_event, word, exists>>

\* AtomicSetBits once the spin bit is clear; then the struct joins the chain.
AtomicSetBits(t) ==
    /\ At(t, "SetBits") /\ word[pc[t].obj].spin = None
    /\ word' = [word EXCEPT ![pc[t].obj].event = TRUE]
    /\ synch_event' = <<e[t]>> \o synch_event
    /\ synch_event_mu' = None
    /\ Goto(t, "Use")
    /\ UNCHANGED <<event, heap, exists, e>>

\* Mutant: a pointer without a reference.
GetSynchEventNoRef(t) ==
    /\ At(t, "Get") /\ Free
    /\ \E x \in {Find(pc[t].obj)} :
         \/ x # None /\ Hold(t, x) /\ Goto(t, "Use")
         \/ x = None /\ Return(t) /\ UNCHANGED e
    /\ UNCHANGED <<synch_event_mu, synch_event, event, heap, word, exists>>

GetSynchEvent(t) ==
    /\ At(t, "Get") /\ Free
    /\ \E x \in {Find(pc[t].obj)} :
         \/ /\ x # None
            /\ event' = [event EXCEPT ![x].refcount = @ + 1]
            /\ Hold(t, x) /\ Goto(t, "Use")
         \/ /\ x = None
            /\ Return(t)
            /\ UNCHANGED <<event, e>>
    /\ UNCHANGED <<synch_event_mu, synch_event, heap, word, exists>>

\* The caller reads or writes name, log and invariant.  Its reference keeps
\* the struct even if the object is destroyed before it lets the struct go.
Use(t) ==
    /\ At(t, "Use")
    /\ pc' = [pc EXCEPT ![t] = [op |-> "Unref", obj |-> None]]
    /\ UNCHANGED <<synch_event_mu, synch_event, event, heap, word, exists, e>>

UnrefSynchEvent(t) ==
    /\ At(t, "Unref") /\ Free
    /\ event' = [event EXCEPT ![e[t]].refcount = @ - 1]
    /\ \/ event[e[t]].refcount = 1 /\ Goto(t, "Delete") /\ UNCHANGED e
       \/ event[e[t]].refcount # 1 /\ Return(t) /\ Hold(t, None)
    /\ UNCHANGED <<synch_event_mu, synch_event, heap, word, exists>>

DeleteSynchEvent(t) ==
    /\ At(t, "Delete")
    /\ heap' = heap \ {e[t]}
    /\ Return(t) /\ Hold(t, None)
    /\ UNCHANGED <<synch_event_mu, synch_event, event, word, exists>>

(***************************************************************************)
(* ForgetSynchEvent                                                        *)
(***************************************************************************)
ForgetSynchEvent(t) ==
    /\ At(t, "Forget") /\ Free
    /\ synch_event_mu' = t
    /\ \E x \in {Find(pc[t].obj)} :
         \/ /\ x # None
            /\ synch_event' = SelectSeq(synch_event, LAMBDA y : y # x)
            /\ event' = [event EXCEPT ![x].refcount = @ - 1]
            /\ Hold(t, IF event[x].refcount = 1 THEN x ELSE None)
         \/ x = None /\ UNCHANGED <<synch_event, event, e>>
    /\ Goto(t, "ClearBits")
    /\ UNCHANGED <<heap, word, exists>>

\* AtomicClearBits once the spin bit is clear; the struct is freed after the
\* unlock, and the destructor is done with the object.
AtomicClearBits(t) ==
    /\ At(t, "ClearBits") /\ word[pc[t].obj].spin = None
    /\ word' = [word EXCEPT ![pc[t].obj].event = FALSE]
    /\ synch_event_mu' = None
    /\ IF e[t] = None THEN Return(t)
       ELSE pc' = [pc EXCEPT ![t] = [op |-> "Delete", obj |-> None]]
    /\ UNCHANGED <<synch_event, event, heap, exists, e>>

Step(t) ==
    \/ EnsureSynchEvent(t) \/ AtomicSetBits(t) \/ GetSynchEvent(t) \/ Use(t)
    \/ UnrefSynchEvent(t) \/ DeleteSynchEvent(t)
    \/ ForgetSynchEvent(t) \/ AtomicClearBits(t)

Next ==
    \E t \in Threads :
        \/ Step(t)
        \/ \E o \in Objects :
             \/ EnableDebugLog(t, o) \/ PostSynchEvent(t, o) \/ Destructor(t, o)
             \/ SpinBit(t, o) \/ Constructor(o)

Spec == Init /\ [][Next]_vars

-----------------------------------------------------------------------------

TypeOK ==
    /\ synch_event_mu \in Threads \cup {None}
    /\ synch_event \in Seq(Events)
    /\ event \in [Events -> [masked_addr : Objects \cup {None}, refcount : Nat]]
    /\ heap \subseteq Events /\ exists \subseteq Objects
    /\ word \in [Objects -> [event : BOOLEAN, spin : Threads \cup {None}]]
    /\ e \in [Threads -> Events \cup {None}]

(***************************************************************************)
(* UnrefSynchEvent frees a struct exactly when its last user is gone: the  *)
(* count is that of the threads that hold a pointer plus one for the chain,*)
(* and nothing points to a struct that is freed.                           *)
(***************************************************************************)
ReferencesCounted ==
    \A x \in Events :
        LET holders == {t \in Threads : e[t] = x /\ ~At(t, "Delete") /\ ~At(t, "ClearBits")}
            linked  == x \in ToSet(synch_event) \/ \E t \in Threads : At(t, "SetBits") /\ e[t] = x
        IN  IF x \in heap
            THEN event[x].refcount = Cardinality(holders) + (IF linked THEN 1 ELSE 0)
            ELSE holders = {} /\ ~linked

(***************************************************************************)
(* While nobody changes the table, an object has its event bit set if and  *)
(* only if the table has a struct for it, and then one: a new object in    *)
(* the place of a destroyed one inherits neither log nor invariant, and    *)
(* EnsureSynchEvent need not set the bit of a struct it finds.             *)
(***************************************************************************)
BitMeansEntry ==
    Free => /\ \A o \in exists : word[o].event <=> Find(o) # None
            /\ \A i, j \in 1..Len(synch_event) :
                 event[synch_event[i]].masked_addr = event[synch_event[j]].masked_addr => i = j
            /\ \A x \in ToSet(synch_event) : 
                 \/ event[x].masked_addr \in exists
                 \/ \E t \in Threads : pc[t] = [op |-> "Forget", obj |-> event[x].masked_addr]
============================================================================
