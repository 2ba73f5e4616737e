---------------------------- MODULE SyncObjects ----------------------------
(***************************************************************************)
(* Notification, BlockingCounter and Barrier (absl/synchronization/) over  *)
(* the lock that Mutex implements, and the life of the object: each of     *)
(* the three says who may destroy it, and when.                            *)
(*                                                                         *)
(* A behaviour uses one object.  Main waits on it and destroys it; the     *)
(* others notify, count down or block.  A step is one access to the object *)
(* outside its lock, one acquisition or one critical section with the      *)
(* release at its end; Await(c) is a release and an acquisition that       *)
(* happens when c holds, as Mutex promises for a Condition.                *)
(***************************************************************************)
EXTENDS Integers, FiniteSets

CONSTANTS Threads, Main

VARIABLES
    object,        \* which of the three
    workers,       \* the threads that use it besides Main
    own,           \* its lock, as in RWLock
    pc,            \* where each thread is
    result,        \* what its call returned
    freed,         \* the object has been destroyed
    notified_yet,  \* Notification
    count, num_waiting, done,    \* BlockingCounter
    num_to_block, num_to_exit    \* Barrier

fields == <<notified_yet, count, num_waiting, done, num_to_block, num_to_exit>>
vars == <<object, workers, own, pc, result, freed, fields>>

Lock == INSTANCE RWLock

Start(o, t, w) ==
    IF t \notin w \cup {Main} THEN "returned"
    ELSE IF o = "Barrier" THEN "Block"
    ELSE IF o = "Notification" THEN (IF t = Main THEN "WaitForNotification" ELSE "Notify")
    ELSE (IF t = Main THEN "Wait" ELSE "DecrementCount")

\* A Notification has one notifier; the other objects any number of users.
Init ==
    /\ object \in {"Notification", "BlockingCounter", "Barrier"}
    /\ workers \in SUBSET (Threads \ {Main})
    /\ object = "Notification" => workers # {}
    /\ Lock!Init
    /\ \E notifier \in IF workers = {} THEN {Main} ELSE workers :
         pc = [t \in Threads |->
                 IF object = "Notification" /\ t \in workers \ {notifier}
                 THEN "WaitForNotification" ELSE Start(object, t, workers)]
    /\ result = [t \in Threads |-> FALSE]
    /\ freed = FALSE
    /\ notified_yet = FALSE
    /\ count = Cardinality(workers) /\ num_waiting = 0 /\ done = (workers = {})
    /\ num_to_block = Cardinality(workers) + 1 /\ num_to_exit = Cardinality(workers) + 1

At(t, p, q) == pc[t] = p /\ pc' = [pc EXCEPT ![t] = q]

Acquire(t) == Lock!AcquireExclusive(t)
Release(t) == Lock!Release(t)

LockFree == \A u \in Threads : own[u] = "free"
Holds(t) == own[t] = "kExclusive"

\* Await returns at once, with the lock kept, if its condition holds when it
\* is called, and takes the lock again otherwise.
AwaitDone(t) == Holds(t) \/ LockFree

AwaitCondition == IF object = "Barrier" THEN num_to_block = 0 ELSE done

\* Mutex::Await gives the lock up until its condition holds.
AwaitRelease(t) ==
    /\ pc[t] \in {"Wait.Await", "Block.Await"} /\ Holds(t) /\ ~AwaitCondition
    /\ Release(t)
    /\ UNCHANGED <<object, workers, pc, result, freed, fields>>

Return(t, p, r) ==
    /\ At(t, p, "returned")
    /\ result' = [result EXCEPT ![t] = r]

(***************************************************************************)
(* Notification                                                            *)
(***************************************************************************)
NotifyLock(t) ==
    /\ At(t, "Notify", "Notify.store")
    /\ Acquire(t)
    /\ UNCHANGED <<object, workers, result, freed, fields>>

\* The store is seen by readers without the lock before the lock is released.
NotifyStore(t) ==
    /\ At(t, "Notify.store", "Notify.unlock")
    /\ notified_yet' = TRUE
    /\ UNCHANGED <<object, workers, own, result, freed,
                   count, num_waiting, done, num_to_block, num_to_exit>>

NotifyUnlock(t) ==
    /\ Return(t, "Notify.unlock", FALSE)
    /\ Release(t)
    /\ UNCHANGED <<object, workers, freed, fields>>

\* HasBeenNotifiedInternal at the start of the three waits: without the lock.
HasBeenNotified(t) ==
    /\ \/ notified_yet /\ Return(t, "WaitForNotification", TRUE)
       \/ /\ ~notified_yet /\ At(t, "WaitForNotification", "LockWhen")
          /\ UNCHANGED result
    /\ UNCHANGED <<object, workers, own, freed, fields>>

\* LockWhen, or LockWhenWithTimeout that gives up, and the Unlock.
WaitUnlock(t) ==
    /\ \/ notified_yet
       \/ t # Main    \* the time is up
    /\ LockFree
    /\ Return(t, "LockWhen", notified_yet)
    /\ UNCHANGED <<object, workers, own, freed, fields>>

\* Mutant: the destructor does not take the lock.
NotificationDtorNoLock(t) ==
    /\ object = "Notification" /\ t = Main
    /\ \A u \in Threads : pc[u] \in {"returned", "Notify", "Notify.store", "Notify.unlock"}
    /\ result[t]
    /\ At(t, "returned", "gone")
    /\ freed' = TRUE
    /\ UNCHANGED <<object, workers, own, result, fields>>

\* ~Notification: Main was told, and nobody else still waits.
NotificationDtor(t) ==
    /\ object = "Notification" /\ t = Main
    /\ \A u \in Threads : pc[u] \in {"returned", "Notify", "Notify.store", "Notify.unlock"}
    /\ result[t]
    /\ LockFree
    /\ At(t, "returned", "gone")
    /\ freed' = TRUE
    /\ UNCHANGED <<object, workers, own, result, fields>>

(***************************************************************************)
(* BlockingCounter                                                         *)
(***************************************************************************)
\* Mutant: the value before the subtraction is compared with zero.
DecrementCountBefore(t) ==
    /\ count' = count - 1
    /\ \/ count = 0 /\ At(t, "DecrementCount", "DecrementCount.lock") /\ UNCHANGED result
       \/ count # 0 /\ Return(t, "DecrementCount", FALSE)
    /\ UNCHANGED <<object, workers, own, freed,
                   notified_yet, num_waiting, done, num_to_block, num_to_exit>>

DecrementCount(t) ==
    /\ count' = count - 1
    /\ \/ count = 1 /\ At(t, "DecrementCount", "DecrementCount.lock") /\ UNCHANGED result
       \/ count # 1 /\ Return(t, "DecrementCount", FALSE)
    /\ UNCHANGED <<object, workers, own, freed,
                   notified_yet, num_waiting, done, num_to_block, num_to_exit>>

SetDone(t) ==
    /\ At(t, "DecrementCount.lock", "DecrementCount.unlock")
    /\ Acquire(t)
    /\ done' = TRUE
    /\ UNCHANGED <<object, workers, result, freed,
                   notified_yet, count, num_waiting, num_to_block, num_to_exit>>

DecrementUnlock(t) ==
    /\ Return(t, "DecrementCount.unlock", TRUE)
    /\ Release(t)
    /\ UNCHANGED <<object, workers, freed, fields>>

\* Wait up to the Await.
WaitLock(t) ==
    /\ At(t, "Wait", "Wait.Await")
    /\ Acquire(t)
    /\ num_waiting' = num_waiting + 1
    /\ UNCHANGED <<object, workers, result, freed,
                   notified_yet, count, done, num_to_block, num_to_exit>>

\* Mutant: Wait returns when the last user is about to take the lock.
WaitAwaitEarly(t) ==
    /\ count <= 1 /\ AwaitDone(t)
    /\ Return(t, "Wait.Await", TRUE)
    /\ own' = [own EXCEPT ![t] = "free"]
    /\ freed' = TRUE
    /\ UNCHANGED <<object, workers, fields>>

\* The Await holds and Wait returns; the caller destroys the object.
WaitAwait(t) ==
    /\ done /\ AwaitDone(t)
    /\ Return(t, "Wait.Await", TRUE)
    /\ own' = [own EXCEPT ![t] = "free"]
    /\ freed' = TRUE
    /\ UNCHANGED <<object, workers, fields>>

(***************************************************************************)
(* Barrier                                                                 *)
(***************************************************************************)
BlockLock(t) ==
    /\ At(t, "Block", "Block.Await")
    /\ Acquire(t)
    /\ num_to_block' = num_to_block - 1
    /\ UNCHANGED <<object, workers, result, freed,
                   notified_yet, count, num_waiting, done, num_to_exit>>

\* Mutant: the count is compared before it is decremented.
BlockAwaitComparesFirst(t) ==
    /\ num_to_block = 0 /\ AwaitDone(t)
    /\ At(t, "Block.Await", "Block.unlock")
    /\ own' = [own EXCEPT ![t] = "kExclusive"]
    /\ num_to_exit' = num_to_exit - 1
    /\ result' = [result EXCEPT ![t] = num_to_exit = 0]
    /\ UNCHANGED <<object, workers, freed,
                   notified_yet, count, num_waiting, done, num_to_block>>

BlockAwait(t) ==
    /\ num_to_block = 0 /\ AwaitDone(t)
    /\ At(t, "Block.Await", "Block.unlock")
    /\ own' = [own EXCEPT ![t] = "kExclusive"]
    /\ num_to_exit' = num_to_exit - 1
    /\ result' = [result EXCEPT ![t] = num_to_exit - 1 = 0]
    /\ UNCHANGED <<object, workers, freed,
                   notified_yet, count, num_waiting, done, num_to_block>>

\* Block returns; the thread that got true deletes the barrier.
BlockReturn(t) ==
    /\ At(t, "Block.unlock", "returned")
    /\ Release(t)
    /\ freed' = (freed \/ result[t])
    /\ UNCHANGED <<object, workers, result, fields>>

Step(t) ==
    \/ NotifyLock(t) \/ NotifyStore(t) \/ NotifyUnlock(t)
    \/ HasBeenNotified(t) \/ WaitUnlock(t) \/ NotificationDtor(t)
    \/ DecrementCount(t) \/ SetDone(t) \/ DecrementUnlock(t) \/ WaitLock(t) \/ WaitAwait(t)
    \/ AwaitRelease(t)
    \/ BlockLock(t) \/ BlockAwait(t) \/ BlockReturn(t)

Next == \E t \in Threads : Step(t)

\* A thread that can step does; nobody obliges Main to delete a Notification.
Spec == Init /\ [][Next]_vars /\ \A t \in Threads : WF_vars(Step(t))

-----------------------------------------------------------------------------

Finished == {"returned", "gone"}

TypeOK ==
    /\ own \in [Threads -> {"free", "kShared", "kExclusive"}]
    /\ count \in 0..Cardinality(workers) /\ num_waiting \in 0..1
    /\ num_to_block \in 0..(Cardinality(workers) + 1)
    /\ num_to_exit \in 0..(Cardinality(workers) + 1)
    /\ {notified_yet, done, freed} \subseteq BOOLEAN

(***************************************************************************)
(* Once Main (or, for a Barrier, the thread whose Block returned true) has *)
(* destroyed the object, no other thread has a step on it left: not the    *)
(* notifier that has stored the flag but not released the lock, nor the    *)
(* last DecrementCount, nor a thread on its way out of Block.              *)
(***************************************************************************)
NoUseAfterFree == freed => \A t \in Threads : pc[t] \in Finished

(***************************************************************************)
(* What a return means.  WaitForNotification returned true: Notify was     *)
(* called.  BlockingCounter::Wait returned: every DecrementCount has       *)
(* counted, and exactly one returned true.  A Block returned: every thread *)
(* has come.                                                               *)
(***************************************************************************)
ReturnMeansReached ==
    \A t \in Threads : pc[t] \in Finished /\ t \in workers \cup {Main} =>
        /\ object = "Notification" /\ result[t] => notified_yet
        /\ object = "BlockingCounter" /\ t = Main =>
             /\ count = 0
             /\ workers # {} => Cardinality({w \in workers : result[w]}) = 1
        /\ object = "Barrier" => \A u \in workers \cup {Main} : pc[u] # "Block"

(***************************************************************************)
(* Of all calls of Block exactly one returns true, so the barrier is       *)
(* deleted once.                                                           *)
(***************************************************************************)
OneDeletes ==
    object = "Barrier" =>
        /\ Cardinality({t \in Threads : result[t]}) <= 1
        /\ (\A t \in Threads : pc[t] = "returned") => \E t \in Threads : result[t]
=============================================================================
