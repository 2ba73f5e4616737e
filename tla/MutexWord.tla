----------------------------- MODULE MutexWord ------------------------------
(***************************************************************************)
(* The protocol of the low bits of Mutex::mu_ and of the reader count      *)
(* (absl/synchronization/mutex.cc), with the waiter queue abstracted away: *)
(* what is left of it is kMuWait, and the choices that the code makes by   *)
(* looking at the queue are nondeterministic here.  The reader count is    *)
(* one variable, wherever the code keeps it: in the word while nobody      *)
(* waits, in the last waiter's PerThreadSynch otherwise.                   *)
(*                                                                         *)
(* Module Mutex implements this one; module MutexWordProofs proves that    *)
(* this one implements RWLock, for any set of threads.                     *)
(***************************************************************************)
EXTENDS Naturals, FiniteSets

CONSTANT Threads

ASSUME ThreadsFinite == IsFiniteSet(Threads)

VARIABLES
    bits,      \* the low bits of mu_
    readers,   \* the reader count
    own,       \* what each thread holds
    at,        \* where each thread is, if it has set kMuSpin
    v          \* UnlockSlow's local v: the bits before it set kMuSpin

vars == <<bits, readers, own, at, v>>

Bits == {"Reader", "Desig", "Wait", "Writer", "Event", "WrWait", "Spin"}
Held == {"free", "kShared", "kExclusive"}
Places == {"out", "share", "enqueue", "remove", "spin"}

Init ==
    /\ bits = {}
    /\ readers = 0
    /\ own = [t \in Threads |-> "free"]
    /\ at = [t \in Threads |-> "out"]
    /\ v = [t \in Threads |-> {}]

----------------------------------------------------------------------------
(* LockSlowLoop.  A thread that has blocked clears kMuDesig on its way. *)

\* Mutant of LockExclusive: readers are ignored.
LockExclusiveNoReaders(t) ==
    /\ at[t] = "out" /\ own[t] = "free"
    /\ "Writer" \notin bits
    /\ bits' = bits \cup {"Writer"}
    /\ own' = [own EXCEPT ![t] = "kExclusive"]
    /\ UNCHANGED <<readers, at, v>>

LockExclusive(t) ==
    /\ at[t] = "out" /\ own[t] = "free"
    /\ bits \cap {"Writer", "Reader"} = {}
    /\ \E d \in SUBSET {"Desig"} : bits' = (bits \ d) \cup {"Writer"}
    /\ own' = [own EXCEPT ![t] = "kExclusive"]
    /\ UNCHANGED <<readers, at, v>>

LockShared(t) ==
    /\ at[t] = "out" /\ own[t] = "free"
    /\ bits \cap {"Writer", "Wait"} = {}
    /\ \E d \in SUBSET {"Desig"} : bits' = (bits \ d) \cup {"Reader"}
    /\ readers' = readers + 1
    /\ own' = [own EXCEPT ![t] = "kShared"]
    /\ UNCHANGED <<at, v>>

\* The first waiter, queued by itself or by Fer: the count moves to it.
FirstWaiter(t) ==
    /\ at[t] = "out"
    /\ bits \cap {"Writer", "Reader"} # {}
    /\ bits \cap {"Spin", "Wait"} = {}
    /\ \E d \in SUBSET {"Desig"}, wr \in SUBSET {"WrWait"} :
         bits' = (bits \ d) \cup {"Wait"} \cup wr
    /\ UNCHANGED <<readers, own, at, v>>

\* Mutant of ShareBegin: a writer is ignored.
ShareBeginNoWriter(t) ==
    /\ at[t] = "out" /\ own[t] = "free"
    /\ bits \cap {"Spin", "Wait"} = {"Wait"}
    /\ bits' = bits \cup {"Spin", "Reader"}
    /\ at' = [at EXCEPT ![t] = "share"]
    /\ UNCHANGED <<readers, own, v>>

\* A reader shares the lock although others wait, counting itself in the last
\* waiter under kMuSpin.
ShareBegin(t) ==
    /\ at[t] = "out" /\ own[t] = "free"
    /\ bits \cap {"Spin", "Writer", "Wait"} = {"Wait"}
    /\ \E d \in SUBSET {"Desig"} : bits' = (bits \ d) \cup {"Spin", "Reader"}
    /\ at' = [at EXCEPT ![t] = "share"]
    /\ UNCHANGED <<readers, own, v>>

ShareEnd(t) ==
    /\ at[t] = "share"
    /\ bits' = (bits \ {"Spin"}) \cup {"Reader"}
    /\ readers' = readers + 1
    /\ own' = [own EXCEPT ![t] = "kShared"]
    /\ at' = [at EXCEPT ![t] = "out"]
    /\ UNCHANGED v

\* Mutant of EnqueueBegin: the spinlock is not waited for.
EnqueueBeginNoSpin(t) ==
    /\ at[t] = "out"
    /\ "Wait" \in bits
    /\ \E d \in SUBSET {"Desig"} : bits' = (bits \ d) \cup {"Spin", "Wait"}
    /\ at' = [at EXCEPT ![t] = "enqueue"]
    /\ UNCHANGED <<readers, own, v>>

\* A further waiter, queued by itself or by Fer.
EnqueueBegin(t) ==
    /\ at[t] = "out"
    /\ bits \cap {"Spin", "Wait"} = {"Wait"}
    /\ \E d \in SUBSET {"Desig"} : bits' = (bits \ d) \cup {"Spin", "Wait"}
    /\ at' = [at EXCEPT ![t] = "enqueue"]
    /\ UNCHANGED <<readers, own, v>>

EnqueueEnd(t) ==
    /\ at[t] = "enqueue"
    /\ \E wr \in SUBSET {"WrWait"} :
         bits' = (bits \ {"Spin"}) \cup {"Wait"} \cup wr
    /\ at' = [at EXCEPT ![t] = "out"]
    /\ UNCHANGED <<readers, own, v>>

----------------------------------------------------------------------------
(* TryRemove: lock and spinlock are acquired and released together. *)

\* Mutant of RemoveBegin: the spinlock is not waited for.
RemoveBeginNoSpin(t) ==
    /\ at[t] = "out" /\ own[t] = "free"
    /\ bits \cap {"Wait", "Writer", "Reader"} = {"Wait"}
    /\ bits' = bits \cup {"Spin", "Writer"}
    /\ at' = [at EXCEPT ![t] = "remove"]
    /\ UNCHANGED <<readers, own, v>>

RemoveBegin(t) ==
    /\ at[t] = "out" /\ own[t] = "free"
    /\ bits \cap {"Wait", "Spin", "Writer", "Reader"} = {"Wait"}
    /\ bits' = bits \cup {"Spin", "Writer"}
    /\ at' = [at EXCEPT ![t] = "remove"]
    /\ UNCHANGED <<readers, own, v>>

RemoveEnd(t) ==
    /\ at[t] = "remove"
    /\ \E w \in SUBSET {"Wait"} : bits' = (bits \cap {"Desig", "Event"}) \cup w
    /\ readers' = 0
    /\ at' = [at EXCEPT ![t] = "out"]
    /\ UNCHANGED <<own, v>>

----------------------------------------------------------------------------
(* UnlockSlow *)

UnlockFastWriter(t) ==
    /\ at[t] = "out" /\ own[t] # "free"
    /\ "Writer" \in bits
    /\ bits \cap {"Wait", "Desig"} # {"Wait"}
    /\ bits' = bits \ {"WrWait", "Writer"}
    /\ own' = [own EXCEPT ![t] = "free"]
    /\ UNCHANGED <<readers, at, v>>

UnlockFastReader(t) ==
    /\ at[t] = "out" /\ own[t] # "free"
    /\ bits \cap {"Reader", "Wait"} = {"Reader"}
    /\ bits' = bits \ IF readers = 1 THEN {"Reader"} ELSE {}
    /\ readers' = readers - 1
    /\ own' = [own EXCEPT ![t] = "free"]
    /\ UNCHANGED <<at, v>>

UnlockTakeSpin(t) ==
    /\ at[t] = "out" /\ own[t] # "free"
    /\ "Spin" \notin bits
    /\ bits' = bits \cup {"Spin"}
    /\ at' = [at EXCEPT ![t] = "spin"]
    /\ v' = [v EXCEPT ![t] = bits]
    /\ UNCHANGED <<readers, own>>

\* The lock is released and the thread leaves UnlockSlow's critical section.
Leave(t) ==
    /\ own' = [own EXCEPT ![t] = "free"]
    /\ at' = [at EXCEPT ![t] = "out"]
    /\ v' = [v EXCEPT ![t] = {}]

\* Mutants of UnlockNoWaiters: a reader is counted out though none is counted;
\* the last reader leaves its bit behind.
UnlockNoWaitersCounts(t) ==
    /\ at[t] = "spin"
    /\ "Wait" \notin v[t]
    /\ bits' = bits \ {"WrWait", "Writer", "Spin"}
    /\ readers' = readers - 1
    /\ Leave(t)

UnlockNoWaitersLeavesBit(t) ==
    /\ at[t] = "spin"
    /\ "Wait" \notin v[t]
    /\ bits' = bits \ {"WrWait", "Writer", "Spin"}
    /\ readers' = IF readers >= 1 THEN readers - 1 ELSE readers
    /\ Leave(t)

\* Nobody waits; the thread may become the first waiter itself.
UnlockNoWaiters(t) ==
    /\ at[t] = "spin"
    /\ "Wait" \notin v[t]
    /\ LET clear == IF "Writer" \notin bits /\ readers = 1
                      THEN {"WrWait", "Reader"} ELSE {"WrWait", "Writer"}
       IN  \E w \in SUBSET {"Wait"} :
             bits' = (bits \ (clear \cup {"Spin"})) \cup w
    /\ readers' = IF readers >= 1 THEN readers - 1 ELSE readers
    /\ Leave(t)

NotLastReader(t) == "Reader" \in v[t] /\ readers > 1

UnlockNotLastReader(t) ==
    /\ at[t] = "spin"
    /\ "Wait" \in v[t]
    /\ NotLastReader(t)
    /\ bits' = v[t]
    /\ readers' = readers - 1
    /\ Leave(t)

\* Some waiter is woken and becomes the designated waker; others may remain.
UnlockAndWake(t) ==
    /\ at[t] = "spin"
    /\ "Wait" \in v[t]
    /\ ~NotLastReader(t)
    /\ \E w \in {{}, {"Wait"}, {"Wait", "WrWait"}} :
         bits' = (v[t] \cap {"Event"}) \cup {"Desig"} \cup w
    /\ readers' = 0
    /\ Leave(t)

UnlockNobody(t) ==
    /\ at[t] = "spin"
    /\ "Wait" \in v[t]
    /\ ~NotLastReader(t)
    /\ bits' = v[t] \ {"Reader", "Writer", "WrWait"}
    /\ readers' = 0
    /\ Leave(t)

\* The thread goes to search the queue, with the lock but without kMuSpin.
UnlockStartWalk(t) ==
    /\ at[t] = "spin"
    /\ "Wait" \in v[t]
    /\ ~NotLastReader(t)
    /\ bits' = v[t]
    /\ at' = [at EXCEPT ![t] = "out"]
    /\ v' = [v EXCEPT ![t] = {}]
    /\ UNCHANGED <<readers, own>>

----------------------------------------------------------------------------

\* Mutant of SetEvent: the spinlock is not waited for.
SetEventAnyTime ==
    /\ bits' = bits \cup {"Event"}
    /\ UNCHANGED <<readers, own, at, v>>

\* EnableDebugLog
SetEvent ==
    /\ "Spin" \notin bits
    /\ bits' = bits \cup {"Event"}
    /\ UNCHANGED <<readers, own, at, v>>

Step(t) ==
    \/ LockExclusive(t) \/ LockShared(t) \/ FirstWaiter(t)
    \/ ShareBegin(t) \/ ShareEnd(t) \/ EnqueueBegin(t) \/ EnqueueEnd(t)
    \/ RemoveBegin(t) \/ RemoveEnd(t)
    \/ UnlockFastWriter(t) \/ UnlockFastReader(t) \/ UnlockTakeSpin(t)
    \/ UnlockNoWaiters(t) \/ UnlockNotLastReader(t) \/ UnlockAndWake(t)
    \/ UnlockNobody(t) \/ UnlockStartWalk(t)

Next == (\E t \in Threads : Step(t)) \/ SetEvent

Spec == Init /\ [][Next]_vars

----------------------------------------------------------------------------

TypeOK ==
    /\ bits \in SUBSET Bits
    /\ readers \in Nat
    /\ own \in [Threads -> Held]
    /\ at \in [Threads -> Places]
    /\ v \in [Threads -> SUBSET Bits]

Readers == {t \in Threads : own[t] = "kShared"}

\* The threads that have kMuSpin, and those that hold the lock for writing,
\* a remover included.
Spinners == {t \in Threads : at[t] # "out"}
Writers == {t \in Threads : own[t] = "kExclusive" \/ at[t] = "remove"}

\* kMuSpin and kMuWriter are each set exactly when one thread has them, and
\* kMuReader when some thread holds or is acquiring the lock shared; the two
\* lock bits exclude each other, and the reader count is the number of readers,
\* wherever mutex.cc keeps it.
SpinTells ==
    /\ "Spin" \in bits <=> Spinners # {}
    /\ \A t, u \in Spinners : t = u

WriterTells ==
    /\ "Writer" \in bits <=> Writers # {}
    /\ \A t, u \in Writers : t = u

ReaderTells ==
    "Reader" \in bits <=> \E t \in Threads : own[t] = "kShared" \/ at[t] = "share"

\* kMuWrWait implies kMuWait; kMuReader and kMuWriter are mutually exclusive.
Layout ==
    /\ "WrWait" \in bits => "Wait" \in bits
    /\ ~("Reader" \in bits /\ "Writer" \in bits)

WordTellsHolder ==
    /\ SpinTells
    /\ WriterTells
    /\ ReaderTells
    /\ Layout
    /\ readers = Cardinality(Readers)

\* While UnlockSlow has kMuSpin and there are waiters, the bits stay what it
\* remembers, so that its plain stores computed from v lose nothing; while it
\* has kMuSpin and there were no waiters, there are none.
SpinStable ==
    \A t \in Threads : at[t] = "spin" =>
        /\ own[t] # "free"
        /\ "Spin" \notin v[t]
        /\ IF "Wait" \in v[t] THEN bits = v[t] \cup {"Spin"}
                              ELSE "Wait" \notin bits

\* A thread that has kMuSpin in order to use the queue finds the queue there,
\* and a thread that is about to share the lock or that removes itself from the
\* queue holds nothing.
QueueUsers ==
    \A t \in Threads :
        /\ at[t] \in {"share", "remove"} => own[t] = "free"
        /\ at[t] \in {"share", "enqueue", "remove"} => "Wait" \in bits

\* All of this at once, which is inductive: the word tells who holds the lock,
\* and nobody changes it under a thread that will overwrite it.
WordInv == TypeOK /\ WordTellsHolder /\ SpinStable /\ QueueUsers

\* The lock excludes: a thread that holds it exclusively holds it alone.
MutualExclusion ==
    \A t, u \in Threads : own[t] = "kExclusive" /\ u # t => own[u] = "free"

\* No step loses kMuEvent, which EnableDebugLog sets with a compare_exchange
\* while other threads overwrite the word with plain stores.
EventKept == [][("Event" \in bits) => ("Event" \in bits')]_vars

RW == INSTANCE RWLock

\* The word protocol gives a readers/writer lock.
ImplementsRWLock == RW!Spec
=============================================================================
