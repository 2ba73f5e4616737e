---------------------------- MODULE ObjectProofs ----------------------------
(***************************************************************************)
(* What MCObjects states of Notification, BlockingCounter and Barrier,     *)
(* proved for any number of threads.                                       *)
(*                                                                         *)
(* The argument.  The counters of a BlockingCounter and a Barrier are the  *)
(* numbers of threads that have not passed the point they count            *)
(* (CounterIInv, BarrierIInv), so the thread that brings one to zero is    *)
(* the last; the notifier of a Notification and the last user of a         *)
(* BlockingCounter are inside the lock after that point, and the thread    *)
(* that destroys the object has to take the lock after them (LockHolders,  *)
(* NotificationIInv).                                                      *)
(***************************************************************************)
EXTENDS MCObjects, FiniteSetTheorems, TLAPS

\* The cardinality that the instance takes from FiniteSets.
LEMMA ObjectCardinality == \A S : SO!Cardinality(S) = Cardinality(S)
  BY DEF SO!Cardinality, Cardinality

Everybody == workers \cup {Main}

Notifying == {"Notify", "Notify.store", "Notify.unlock"}

\* Where a call on each object can be.
ObjectPoints(o) ==
    IF o = "Notification" THEN Notifying \cup {"WaitForNotification", "LockWhen", "returned", "gone"}
    ELSE IF o = "BlockingCounter"
         THEN {"DecrementCount", "DecrementCount.lock", "DecrementCount.unlock",
               "Wait", "Wait.Await", "returned"}
         ELSE {"Block", "Block.Await", "Block.unlock", "returned"}

ObjectTypes ==
    /\ object \in {"Notification", "BlockingCounter", "Barrier"}
    /\ workers \subseteq Users \ {Main}
    /\ so_own \in [Users -> {"free", "kExclusive"}]
    /\ so_pc \in [Users -> ObjectPoints(object)]
    /\ \A t \in Users \ Everybody : so_pc[t] = "returned" /\ ~result[t]
    /\ result \in [Users -> BOOLEAN]
    /\ notified_yet \in BOOLEAN /\ done \in BOOLEAN /\ freed \in BOOLEAN

\* The lock is held in the critical sections, perhaps in Await, and by one thread.
LockHolders ==
    /\ \A t \in Users :
         /\ so_own[t] = "kExclusive" =>
              so_pc[t] \in {"Notify.store", "Notify.unlock", "DecrementCount.unlock",
                            "Wait.Await", "Block.Await", "Block.unlock"}
         /\ so_pc[t] \in {"Notify.store", "Notify.unlock", "DecrementCount.unlock",
                          "Block.unlock"} => so_own[t] = "kExclusive"
    /\ \A t, u \in Users : so_own[t] = "kExclusive" /\ so_own[u] = "kExclusive" => t = u

\* There is one notifier, and it has stored the flag when anybody was told so.
NotificationIInv ==
    object = "Notification" =>
        /\ \A t, u \in Users : so_pc[t] \in Notifying /\ so_pc[u] \in Notifying => t = u
        /\ so_pc[Main] \notin Notifying
        /\ \A t \in Users : so_pc[t] = "gone" => t = Main
        /\ notified_yet => \A t \in Users : so_pc[t] \notin {"Notify", "Notify.store"}
        /\ \A t \in Users : result[t] => notified_yet

\* The worker whose DecrementCount brought the count to 0.
IsLast(w) == so_pc[w] \in {"DecrementCount.lock", "DecrementCount.unlock"} \/ result[w]

CounterIInv ==
    IF object = "BlockingCounter" THEN
        /\ \A w \in workers : so_pc[w] \notin {"Wait", "Wait.Await"}
        /\ so_pc[Main] \in {"Wait", "Wait.Await", "returned"}
        /\ count = Cardinality({w \in workers : so_pc[w] = "DecrementCount"})
        /\ \A w, x \in workers : IsLast(w) /\ IsLast(x) => w = x
        /\ \A w \in workers : IsLast(w) => count = 0
        /\ \A w \in workers : result[w] => so_pc[w] = "returned"
        /\ count = 0 /\ workers # {} => \E w \in workers : IsLast(w)
        /\ done <=> workers = {} \/
             \E w \in workers : so_pc[w] = "DecrementCount.unlock" \/ result[w]
        /\ num_waiting = IF so_pc[Main] = "Wait" THEN 0 ELSE 1
        /\ so_pc[Main] = "returned" => freed /\ done
    ELSE count = Cardinality(workers) /\ num_waiting = 0

BarrierIInv ==
    IF object = "Barrier" THEN
        /\ num_to_block = Cardinality({t \in Everybody : so_pc[t] = "Block"})
        /\ num_to_exit = Cardinality({t \in Everybody : so_pc[t] \in {"Block", "Block.Await"}})
        /\ \A t \in Everybody : so_pc[t] \in {"Block.unlock", "returned"} => num_to_block = 0
        /\ \A t \in Users : result[t] => num_to_exit = 0 /\ so_pc[t] \in {"Block.unlock", "returned"}
        /\ \A t, u \in Users : result[t] /\ result[u] => t = u
        /\ num_to_exit = 0 => \E t \in Users : result[t]
    ELSE /\ num_to_block = Cardinality(workers) + 1
         /\ num_to_exit = Cardinality(workers) + 1

\* The inductive invariant.
ObjectIInv ==
    /\ ObjectTypes /\ LockHolders /\ NotificationIInv /\ CounterIInv /\ BarrierIInv
    /\ SO!NoUseAfterFree

\* A set of threads that loses one of them has one less.
LEMMA OneThreadLess ==
    ASSUME NEW S, IsFiniteSet(S), NEW t \in S, NEW R, R = S \ {t}
    PROVE  Cardinality(S) \in Nat /\ Cardinality(R) \in Nat
           /\ Cardinality(R) = Cardinality(S) - 1
  BY FS_RemoveElement, FS_CardinalityType

\* A set of no threads is empty.
LEMMA NoThreads ==
    ASSUME NEW S, IsFiniteSet(S)
    PROVE  Cardinality(S) \in Nat /\ (Cardinality(S) = 0 <=> S = {})
  BY FS_EmptySet, FS_CardinalityType

\* The users of an object are finitely many.
LEMMA FewUsers ==
    ASSUME ObjectTypes, NEW S, S \subseteq Everybody
    PROVE  IsFiniteSet(S) /\ S \subseteq Users
  BY ObjectAssumption, FS_Subset DEF ObjectTypes, Everybody

\* The initial states satisfy it.
LEMMA ObjectInitInv == SO!Init => ObjectIInv
<1> SUFFICES ASSUME SO!Init PROVE ObjectIInv
  OBVIOUS
<1> USE ObjectAssumption
<1>0. PICK notifier \in IF workers = {} THEN {Main} ELSE workers :
         so_pc = [t \in Users |->
                    IF object = "Notification" /\ t \in workers \ {notifier}
                    THEN "WaitForNotification" ELSE SO!Start(object, t, workers)]
  BY DEF SO!Init
<1>1. ObjectTypes
  BY <1>0 DEF SO!Init, SO!Lock!Init, ObjectTypes, ObjectPoints, Notifying, Everybody, SO!Start
<1>2. LockHolders
  BY <1>0 DEF SO!Init, SO!Lock!Init, LockHolders, SO!Start
<1>3. NotificationIInv
  BY <1>0, <1>1 DEF SO!Init, NotificationIInv, Notifying, SO!Start, ObjectTypes
<1>4. CounterIInv
  <2>1. CASE object = "BlockingCounter"
    <3>1. {w \in workers : so_pc[w] = "DecrementCount"} = workers
      BY <1>0, <1>1, <2>1 DEF SO!Start, ObjectTypes
    <3>2. count = Cardinality({w \in workers : so_pc[w] = "DecrementCount"})
      BY <3>1, ObjectCardinality DEF SO!Init
    <3>3. count = 0 => workers = {}
      BY <1>1, FewUsers, NoThreads, ObjectCardinality DEF SO!Init, Everybody
    <3>4. \A w \in workers : ~IsLast(w) /\ so_pc[w] = "DecrementCount"
      BY <1>0, <1>1, <2>1 DEF SO!Init, SO!Start, ObjectTypes, IsLast
    <3>5. so_pc[Main] = "Wait"
      BY <1>0, <1>1, <2>1 DEF SO!Start, ObjectTypes
    <3> QED BY <2>1, <3>2, <3>3, <3>4, <3>5 DEF CounterIInv, SO!Init, IsLast
  <2>2. CASE object # "BlockingCounter"
    BY <2>2, ObjectCardinality DEF CounterIInv, SO!Init
  <2> QED BY <2>1, <2>2
<1>5. BarrierIInv
  <2>1. CASE object = "Barrier"
    <3>1. \A t \in Everybody : t \in Users /\ so_pc[t] = "Block"
      BY <1>0, <1>1, <2>1 DEF SO!Start, ObjectTypes, Everybody
    <3>2. /\ {t \in Everybody : so_pc[t] = "Block"} = Everybody
          /\ {t \in Everybody : so_pc[t] \in {"Block", "Block.Await"}} = Everybody
      BY <3>1
    <3>3. Cardinality(Everybody) = Cardinality(workers) + 1 /\ Cardinality(workers) \in Nat
      BY <1>1, FewUsers, FS_AddElement, FS_CardinalityType DEF Everybody, ObjectTypes
    <3>4. num_to_block = Cardinality(workers) + 1 /\ num_to_exit = Cardinality(workers) + 1
      BY ObjectCardinality DEF SO!Init
    <3>5. \A t \in Users : ~result[t]
      BY DEF SO!Init
    <3>6. /\ num_to_block = Cardinality({t \in Everybody : so_pc[t] = "Block"})
          /\ num_to_exit = Cardinality({t \in Everybody : so_pc[t] \in {"Block", "Block.Await"}})
      BY <3>2, <3>3, <3>4
    <3>7. num_to_exit # 0
      BY <3>3, <3>4
    <3>8. \A t \in Everybody : so_pc[t] \notin {"Block.unlock", "returned"}
      BY <3>1
    <3> QED BY <2>1, <3>5, <3>6, <3>7, <3>8 DEF BarrierIInv
  <2>2. CASE object # "Barrier"
    BY <2>2, ObjectCardinality DEF BarrierIInv, SO!Init
  <2> QED BY <2>1, <2>2
<1>6. SO!NoUseAfterFree
  BY DEF SO!Init, SO!NoUseAfterFree
<1> QED BY <1>1, <1>2, <1>3, <1>4, <1>5, <1>6 DEF ObjectIInv

\* Once a worker was the last, none is left that has to count down.
LEMMA NoOneDecrements ==
    ASSUME ObjectTypes, CounterIInv, object = "BlockingCounter", count = 0
    PROVE  \A w \in workers : so_pc[w] # "DecrementCount"
<1>1. IsFiniteSet({w \in workers : so_pc[w] = "DecrementCount"})
  BY FewUsers DEF Everybody
<1> QED BY <1>1, NoThreads DEF CounterIInv

\* Every step on an object keeps it.
LEMMA ObjectNextInv == ObjectIInv /\ [SO!Next]_(SO!vars) => ObjectIInv'
<1> SUFFICES ASSUME ObjectIInv, [SO!Next]_(SO!vars) PROVE ObjectIInv'
  OBVIOUS
<1> USE ObjectAssumption DEF ObjectIInv
<1> USE DEF SO!At, SO!Return, SO!Acquire, SO!Release,
            SO!Lock!AcquireExclusive, SO!Lock!Release, SO!LockFree, SO!Holds,
            SO!AwaitDone, SO!AwaitCondition, SO!fields
<1>1. ASSUME NEW t \in Users, SO!NotifyLock(t) PROVE ObjectIInv'
  <2>0. object = "Notification" /\ t \in Everybody
    BY <1>1 DEF ObjectTypes, ObjectPoints, Notifying, SO!NotifyLock
  <2>1. ObjectTypes'
    BY <1>1, <2>0 DEF ObjectTypes, ObjectPoints, Notifying, Everybody,
       SO!NotifyLock
  <2>2. LockHolders'
    BY <1>1, <2>0 DEF ObjectTypes, LockHolders, SO!NotifyLock
  <2>3. NotificationIInv'
    BY <1>1, <2>0 DEF ObjectTypes, NotificationIInv, Notifying, SO!NotifyLock
  <2>4. CounterIInv'
    BY <1>1, <2>0 DEF ObjectTypes, CounterIInv, IsLast, LockHolders,
       SO!NotifyLock
  <2>5. BarrierIInv'
    BY <1>1, <2>0 DEF ObjectTypes, BarrierIInv, Everybody, LockHolders,
       SO!NotifyLock
  <2>6. SO!NoUseAfterFree'
    BY <1>1, <2>0 DEF ObjectTypes, ObjectPoints, Notifying, LockHolders,
       SO!NoUseAfterFree, SO!Finished, SO!NotifyLock
  <2> QED BY <2>1, <2>2, <2>3, <2>4, <2>5, <2>6
<1>2. ASSUME NEW t \in Users, SO!NotifyStore(t) PROVE ObjectIInv'
  <2>0. object = "Notification" /\ t \in Everybody
    BY <1>2 DEF ObjectTypes, ObjectPoints, Notifying, SO!NotifyStore
  <2>1. ObjectTypes'
    BY <1>2, <2>0 DEF ObjectTypes, ObjectPoints, Notifying, Everybody,
       SO!NotifyStore
  <2>2. LockHolders'
    BY <1>2, <2>0 DEF ObjectTypes, LockHolders, SO!NotifyStore
  <2>3. NotificationIInv'
    BY <1>2, <2>0 DEF ObjectTypes, NotificationIInv, Notifying, SO!NotifyStore
  <2>4. CounterIInv'
    BY <1>2, <2>0 DEF ObjectTypes, CounterIInv, IsLast, LockHolders,
       SO!NotifyStore
  <2>5. BarrierIInv'
    BY <1>2, <2>0 DEF ObjectTypes, BarrierIInv, Everybody, LockHolders,
       SO!NotifyStore
  <2>6. SO!NoUseAfterFree'
    BY <1>2, <2>0 DEF ObjectTypes, ObjectPoints, Notifying, LockHolders,
       SO!NoUseAfterFree, SO!Finished, SO!NotifyStore
  <2> QED BY <2>1, <2>2, <2>3, <2>4, <2>5, <2>6
<1>3. ASSUME NEW t \in Users, SO!NotifyUnlock(t) PROVE ObjectIInv'
  <2>0. object = "Notification" /\ t \in Everybody
    BY <1>3 DEF ObjectTypes, ObjectPoints, Notifying, SO!NotifyUnlock
  <2>1. ObjectTypes'
    BY <1>3, <2>0 DEF ObjectTypes, ObjectPoints, Notifying, Everybody,
       SO!NotifyUnlock
  <2>2. LockHolders'
    BY <1>3, <2>0 DEF ObjectTypes, LockHolders, SO!NotifyUnlock
  <2>3. NotificationIInv'
    BY <1>3, <2>0 DEF ObjectTypes, NotificationIInv, Notifying,
       SO!NotifyUnlock
  <2>4. CounterIInv'
    BY <1>3, <2>0 DEF ObjectTypes, CounterIInv, IsLast, LockHolders,
       SO!NotifyUnlock
  <2>5. BarrierIInv'
    BY <1>3, <2>0 DEF ObjectTypes, BarrierIInv, Everybody, LockHolders,
       SO!NotifyUnlock
  <2>6. SO!NoUseAfterFree'
    BY <1>3, <2>0 DEF ObjectTypes, ObjectPoints, Notifying, LockHolders,
       SO!NoUseAfterFree, SO!Finished, SO!NotifyUnlock
  <2> QED BY <2>1, <2>2, <2>3, <2>4, <2>5, <2>6
<1>4. ASSUME NEW t \in Users, SO!HasBeenNotified(t) PROVE ObjectIInv'
  <2>0. object = "Notification" /\ t \in Everybody
    BY <1>4 DEF ObjectTypes, ObjectPoints, Notifying, SO!HasBeenNotified
  <2>1. ObjectTypes'
    <3>1. /\ so_pc' \in [Users -> ObjectPoints(object)] /\ result' \in [Users -> BOOLEAN]
          /\ \A u \in Users : u # t => so_pc'[u] = so_pc[u] /\ result'[u] = result[u]
      BY <1>4, <2>0 DEF ObjectTypes, ObjectPoints, SO!HasBeenNotified
    <3>2. UNCHANGED <<object, workers, so_own, freed, notified_yet, done>>
      BY <1>4 DEF SO!HasBeenNotified
    <3> QED BY <2>0, <3>1, <3>2 DEF ObjectTypes, Everybody
  <2>2. LockHolders'
    BY <1>4, <2>0 DEF ObjectTypes, LockHolders, SO!HasBeenNotified
  <2>3. NotificationIInv'
    BY <1>4, <2>0 DEF ObjectTypes, NotificationIInv, Notifying,
       SO!HasBeenNotified
  <2>4. CounterIInv'
    BY <1>4, <2>0 DEF ObjectTypes, CounterIInv, IsLast, LockHolders,
       SO!HasBeenNotified
  <2>5. BarrierIInv'
    BY <1>4, <2>0 DEF ObjectTypes, BarrierIInv, Everybody, LockHolders,
       SO!HasBeenNotified
  <2>6. SO!NoUseAfterFree'
    BY <1>4, <2>0 DEF ObjectTypes, ObjectPoints, Notifying, LockHolders,
       SO!NoUseAfterFree, SO!Finished, SO!HasBeenNotified
  <2> QED BY <2>1, <2>2, <2>3, <2>4, <2>5, <2>6
<1>5. ASSUME NEW t \in Users, SO!WaitUnlock(t) PROVE ObjectIInv'
  <2>0. object = "Notification" /\ t \in Everybody
    BY <1>5 DEF ObjectTypes, ObjectPoints, Notifying, SO!WaitUnlock
  <2>1. ObjectTypes'
    BY <1>5, <2>0 DEF ObjectTypes, ObjectPoints, Notifying, Everybody,
       SO!WaitUnlock
  <2>2. LockHolders'
    BY <1>5, <2>0 DEF ObjectTypes, LockHolders, SO!WaitUnlock
  <2>3. NotificationIInv'
    BY <1>5, <2>0 DEF ObjectTypes, NotificationIInv, Notifying, SO!WaitUnlock
  <2>4. CounterIInv'
    BY <1>5, <2>0 DEF ObjectTypes, CounterIInv, IsLast, LockHolders,
       SO!WaitUnlock
  <2>5. BarrierIInv'
    BY <1>5, <2>0 DEF ObjectTypes, BarrierIInv, Everybody, LockHolders,
       SO!WaitUnlock
  <2>6. SO!NoUseAfterFree'
    BY <1>5, <2>0 DEF ObjectTypes, ObjectPoints, Notifying, LockHolders,
       SO!NoUseAfterFree, SO!Finished, SO!WaitUnlock
  <2> QED BY <2>1, <2>2, <2>3, <2>4, <2>5, <2>6
<1>6. ASSUME NEW t \in Users, SO!NotificationDtor(t) PROVE ObjectIInv'
  <2>0. object = "Notification" /\ t \in Everybody
    BY <1>6 DEF ObjectTypes, ObjectPoints, Notifying, SO!NotificationDtor
  <2>1. ObjectTypes'
    BY <1>6, <2>0 DEF ObjectTypes, ObjectPoints, Notifying, Everybody,
       SO!NotificationDtor
  <2>2. LockHolders'
    BY <1>6, <2>0 DEF ObjectTypes, LockHolders, SO!NotificationDtor
  <2>3. NotificationIInv'
    BY <1>6, <2>0 DEF ObjectTypes, NotificationIInv, Notifying,
       SO!NotificationDtor
  <2>4. CounterIInv'
    BY <1>6, <2>0 DEF ObjectTypes, CounterIInv, IsLast, LockHolders,
       SO!NotificationDtor
  <2>5. BarrierIInv'
    BY <1>6, <2>0 DEF ObjectTypes, BarrierIInv, Everybody, LockHolders,
       SO!NotificationDtor
  <2>6. SO!NoUseAfterFree'
    BY <1>6, <2>0 DEF ObjectTypes, LockHolders, NotificationIInv, SO!NoUseAfterFree,
       SO!Finished, SO!NotificationDtor
  <2> QED BY <2>1, <2>2, <2>3, <2>4, <2>5, <2>6
<1>7. ASSUME NEW t \in Users, SO!DecrementCount(t) PROVE ObjectIInv'
  <2>0. object = "BlockingCounter" /\ t \in Everybody
    BY <1>7 DEF ObjectTypes, ObjectPoints, Notifying, SO!DecrementCount
  <2>1. ObjectTypes'
    <3>1. /\ so_pc' \in [Users -> ObjectPoints(object)] /\ result' \in [Users -> BOOLEAN]
          /\ \A u \in Users : u # t => so_pc'[u] = so_pc[u] /\ result'[u] = result[u]
      BY <1>7, <2>0 DEF ObjectTypes, ObjectPoints, SO!DecrementCount
    <3>2. UNCHANGED <<object, workers, so_own, freed, notified_yet, done>>
      BY <1>7 DEF SO!DecrementCount
    <3> QED BY <2>0, <3>1, <3>2 DEF ObjectTypes, Everybody
  <2>2. LockHolders'
    BY <1>7, <2>0 DEF ObjectTypes, LockHolders, SO!DecrementCount
  <2>3. NotificationIInv'
    BY <1>7, <2>0 DEF ObjectTypes, NotificationIInv, Notifying,
       SO!DecrementCount
  <2>4. CounterIInv'
    <3> DEFINE D == {w \in workers : so_pc[w] = "DecrementCount"}
    <3>1. /\ so_pc[t] = "DecrementCount" /\ t \in workers /\ count' = count - 1
          /\ UNCHANGED <<object, workers, freed, done, num_waiting>>
          /\ \A w \in Users : w # t => so_pc'[w] = so_pc[w] /\ result'[w] = result[w]
          /\ t # Main
      BY <1>7, <2>0 DEF SO!DecrementCount, CounterIInv, ObjectTypes, Everybody
    <3>2. so_pc'[t] = (IF count = 1 THEN "DecrementCount.lock" ELSE "returned") /\ ~result'[t]
      BY <1>7, <3>1, <2>0 DEF SO!DecrementCount, ObjectTypes, CounterIInv, IsLast
    <3>3. D' = D \ {t} /\ t \in D /\ IsFiniteSet(D)
      BY <3>1, <3>2, FewUsers DEF ObjectTypes, Everybody
    <3>4. count = Cardinality(D)
      BY <2>0 DEF CounterIInv
    <3>5. /\ Cardinality(D) \in Nat /\ Cardinality(D') \in Nat
          /\ Cardinality(D') = Cardinality(D) - 1
      <4> HIDE DEF D
      <4> QED BY <3>3, OneThreadLess
    <3>6. count' = Cardinality(D') /\ count \in Nat /\ count' \in Nat
      BY <3>1, <3>4, <3>5
    <3>7. count # 0
      BY <3>1, <3>4, <3>5, <3>6
    <3>8. \A w \in workers : ~IsLast(w)
      BY <2>0, <3>7 DEF CounterIInv
    <3>9. /\ \A w \in workers : IsLast(w)' <=> w = t /\ count = 1
          /\ \A w \in workers : ~(so_pc'[w] = "DecrementCount.unlock" \/ result'[w])
      BY <3>1, <3>2, <3>8 DEF IsLast, ObjectTypes
    <3>10. workers # {} /\ ~done'
      BY <2>0, <3>1, <3>8 DEF CounterIInv, IsLast
    <3>11. so_pc'[Main] = so_pc[Main] /\ num_waiting' = num_waiting /\ Main \in Users
      BY <3>1
    <3>12. (count' = 0) <=> (count = 1)
      BY <3>1, <3>6
    <3>13. \A w \in workers : so_pc'[w] \notin {"Wait", "Wait.Await"}
      BY <2>0, <3>1, <3>2 DEF CounterIInv, ObjectTypes
    <3>14. so_pc[Main] # "returned"
      BY <2>0, <3>1, <3>10 DEF CounterIInv
    <3> QED
      BY SMTT(30), <2>0, <3>1, <3>6, <3>9, <3>10, <3>11, <3>12, <3>13, <3>14 DEF CounterIInv
  <2>5. BarrierIInv'
    BY <1>7, <2>0 DEF ObjectTypes, BarrierIInv, Everybody, LockHolders,
       SO!DecrementCount
  <2>6. SO!NoUseAfterFree'
    BY <1>7, <2>0 DEF ObjectTypes, ObjectPoints, Notifying, LockHolders,
       SO!NoUseAfterFree, SO!Finished, SO!DecrementCount
  <2> QED BY <2>1, <2>2, <2>3, <2>4, <2>5, <2>6
<1>8. ASSUME NEW t \in Users, SO!SetDone(t) PROVE ObjectIInv'
  <2>0. object = "BlockingCounter" /\ t \in Everybody
    BY <1>8 DEF ObjectTypes, ObjectPoints, Notifying, SO!SetDone
  <2>1. ObjectTypes'
    BY <1>8, <2>0 DEF ObjectTypes, ObjectPoints, Notifying, Everybody,
       SO!SetDone
  <2>2. LockHolders'
    BY <1>8, <2>0 DEF ObjectTypes, LockHolders, SO!SetDone
  <2>3. NotificationIInv'
    BY <1>8, <2>0 DEF ObjectTypes, NotificationIInv, Notifying, SO!SetDone
  <2>4. CounterIInv'
    <3>1. /\ so_pc[t] = "DecrementCount.lock" /\ t \in workers /\ done'
          /\ so_pc' = [so_pc EXCEPT ![t] = "DecrementCount.unlock"]
          /\ UNCHANGED <<object, workers, result, freed, count, num_waiting>>
      BY <1>8, <2>0 DEF SO!SetDone, CounterIInv, ObjectTypes, Everybody
    <3>2. {w \in workers' : so_pc'[w] = "DecrementCount"}
            = {w \in workers : so_pc[w] = "DecrementCount"}
      BY <3>1 DEF ObjectTypes
    <3> QED BY <2>0, <3>1, <3>2 DEF CounterIInv, IsLast, ObjectTypes
  <2>5. BarrierIInv'
    BY <1>8, <2>0 DEF ObjectTypes, BarrierIInv, Everybody, LockHolders,
       SO!SetDone
  <2>6. SO!NoUseAfterFree'
    BY <1>8, <2>0 DEF ObjectTypes, ObjectPoints, Notifying, LockHolders,
       SO!NoUseAfterFree, SO!Finished, SO!SetDone
  <2> QED BY <2>1, <2>2, <2>3, <2>4, <2>5, <2>6
<1>9. ASSUME NEW t \in Users, SO!DecrementUnlock(t) PROVE ObjectIInv'
  <2>0. object = "BlockingCounter" /\ t \in Everybody
    BY <1>9 DEF ObjectTypes, ObjectPoints, Notifying, SO!DecrementUnlock
  <2>1. ObjectTypes'
    BY <1>9, <2>0 DEF ObjectTypes, ObjectPoints, Notifying, Everybody,
       SO!DecrementUnlock
  <2>2. LockHolders'
    BY <1>9, <2>0 DEF ObjectTypes, LockHolders, SO!DecrementUnlock
  <2>3. NotificationIInv'
    BY <1>9, <2>0 DEF ObjectTypes, NotificationIInv, Notifying,
       SO!DecrementUnlock
  <2>4. CounterIInv'
    <3>1. /\ so_pc[t] = "DecrementCount.unlock" /\ t \in workers
          /\ so_pc' = [so_pc EXCEPT ![t] = "returned"]
          /\ result' = [result EXCEPT ![t] = TRUE]
          /\ UNCHANGED <<object, workers, freed, done, count, num_waiting>>
      BY <1>9, <2>0 DEF SO!DecrementUnlock, CounterIInv, ObjectTypes, Everybody
    <3>2. {w \in workers' : so_pc'[w] = "DecrementCount"}
            = {w \in workers : so_pc[w] = "DecrementCount"}
      BY <3>1 DEF ObjectTypes
    <3>3. \A w \in workers : IsLast(w)' <=> IsLast(w)
      BY <3>1 DEF IsLast, ObjectTypes
    <3> QED BY <2>0, <3>1, <3>2, <3>3 DEF CounterIInv, IsLast, ObjectTypes
  <2>5. BarrierIInv'
    BY <1>9, <2>0 DEF ObjectTypes, BarrierIInv, Everybody, LockHolders,
       SO!DecrementUnlock
  <2>6. SO!NoUseAfterFree'
    BY <1>9, <2>0 DEF ObjectTypes, ObjectPoints, Notifying, LockHolders,
       SO!NoUseAfterFree, SO!Finished, SO!DecrementUnlock
  <2> QED BY <2>1, <2>2, <2>3, <2>4, <2>5, <2>6
<1>10. ASSUME NEW t \in Users, SO!WaitLock(t) PROVE ObjectIInv'
  <2>0. object = "BlockingCounter" /\ t \in Everybody
    BY <1>10 DEF ObjectTypes, ObjectPoints, Notifying, SO!WaitLock
  <2>1. ObjectTypes'
    BY <1>10, <2>0 DEF ObjectTypes, ObjectPoints, Notifying, Everybody,
       SO!WaitLock
  <2>2. LockHolders'
    BY <1>10, <2>0 DEF ObjectTypes, LockHolders, SO!WaitLock
  <2>3. NotificationIInv'
    BY <1>10, <2>0 DEF ObjectTypes, NotificationIInv, Notifying, SO!WaitLock
  <2>4. CounterIInv'
    <3>1. /\ so_pc[t] = "Wait" /\ t = Main /\ num_waiting' = num_waiting + 1
          /\ so_pc' = [so_pc EXCEPT ![t] = "Wait.Await"]
          /\ UNCHANGED <<object, workers, result, freed, done, count>>
      BY <1>10, <2>0 DEF SO!WaitLock, CounterIInv, ObjectTypes, Everybody
    <3>2. {w \in workers' : so_pc'[w] = "DecrementCount"}
            = {w \in workers : so_pc[w] = "DecrementCount"}
      BY <3>1 DEF ObjectTypes
    <3> QED BY <2>0, <3>1, <3>2 DEF CounterIInv, IsLast, ObjectTypes
  <2>5. BarrierIInv'
    BY <1>10, <2>0 DEF ObjectTypes, BarrierIInv, Everybody, LockHolders,
       SO!WaitLock
  <2>6. SO!NoUseAfterFree'
    BY <1>10, <2>0 DEF ObjectTypes, ObjectPoints, Notifying, LockHolders,
       SO!NoUseAfterFree, SO!Finished, SO!WaitLock
  <2> QED BY <2>1, <2>2, <2>3, <2>4, <2>5, <2>6
<1>11. ASSUME NEW t \in Users, SO!WaitAwait(t) PROVE ObjectIInv'
  <2>0. object = "BlockingCounter" /\ t \in Everybody
    BY <1>11 DEF ObjectTypes, ObjectPoints, Notifying, SO!WaitAwait
  <2>1. ObjectTypes'
    BY <1>11, <2>0 DEF ObjectTypes, ObjectPoints, Notifying, Everybody,
       SO!WaitAwait
  <2>2. LockHolders'
    BY <1>11, <2>0 DEF ObjectTypes, LockHolders, SO!WaitAwait
  <2>3. NotificationIInv'
    BY <1>11, <2>0 DEF ObjectTypes, NotificationIInv, Notifying, SO!WaitAwait
  <2>4. CounterIInv'
    <3>1. /\ so_pc[t] = "Wait.Await" /\ t = Main /\ done /\ freed'
          /\ so_pc' = [so_pc EXCEPT ![t] = "returned"]
          /\ \A w \in workers : result'[w] = result[w]
          /\ UNCHANGED <<object, workers, done, count, num_waiting>>
      BY <1>11, <2>0 DEF SO!WaitAwait, CounterIInv, ObjectTypes, Everybody
    <3>2. \A w \in workers : so_pc'[w] = so_pc[w] /\ (IsLast(w)' <=> IsLast(w))
      BY <3>1 DEF IsLast, ObjectTypes
    <3>3. {w \in workers' : so_pc'[w] = "DecrementCount"}
            = {w \in workers : so_pc[w] = "DecrementCount"}
      BY <3>1, <3>2
    <3>4. so_pc'[Main] = "returned" /\ num_waiting' = 1
      BY <2>0, <3>1, ObjectAssumption DEF CounterIInv, ObjectTypes, ObjectAssumption
    <3>5. done' <=> workers' = {} \/
            \E w \in workers' : so_pc'[w] = "DecrementCount.unlock" \/ result'[w]
      BY <2>0, <3>1, <3>2 DEF CounterIInv
    <3>6. \A w \in workers' :
            /\ so_pc'[w] \notin {"Wait", "Wait.Await"} /\ (IsLast(w)' => count' = 0)
            /\ result'[w] => so_pc'[w] = "returned"
      BY <2>0, <3>1, <3>2 DEF CounterIInv
    <3> QED BY <2>0, <3>1, <3>2, <3>3, <3>4, <3>5, <3>6 DEF CounterIInv
  <2>5. BarrierIInv'
    BY <1>11, <2>0 DEF ObjectTypes, BarrierIInv, Everybody, LockHolders,
       SO!WaitAwait
  <2>6. SO!NoUseAfterFree'
    <3>1. done /\ t = Main /\ \A u \in Users : so_own[u] = "kExclusive" => u = t
      BY <1>11, <2>0 DEF ObjectTypes, LockHolders, CounterIInv, Everybody, SO!WaitAwait
    <3>2. \A w \in workers : so_pc[w] # "DecrementCount.unlock"
      BY <3>1 DEF ObjectTypes, LockHolders
    <3>3. \A w \in workers : so_pc[w] # "DecrementCount"
      BY <2>0, <3>1, <3>2, NoOneDecrements DEF CounterIInv, IsLast
    <3>4. \A w \in workers : so_pc[w] # "DecrementCount.lock"
      BY <2>0, <3>1, <3>2 DEF CounterIInv, IsLast
    <3>5. \A w \in workers : so_pc[w] = "returned"
      BY <2>0, <3>2, <3>3, <3>4 DEF ObjectTypes, ObjectPoints, CounterIInv
    <3> QED
      BY <1>11, <3>1, <3>5 DEF SO!WaitAwait, SO!NoUseAfterFree, SO!Finished, ObjectTypes,
         Everybody
  <2> QED BY <2>1, <2>2, <2>3, <2>4, <2>5, <2>6
<1>12. ASSUME NEW t \in Users, SO!AwaitRelease(t) PROVE ObjectIInv'
  <2>1. ObjectTypes'
    BY <1>12 DEF ObjectTypes, ObjectPoints, Notifying, Everybody,
       SO!AwaitRelease
  <2>2. LockHolders'
    BY <1>12 DEF ObjectTypes, LockHolders, SO!AwaitRelease
  <2>3. NotificationIInv'
    BY <1>12 DEF ObjectTypes, NotificationIInv, Notifying, SO!AwaitRelease
  <2>4. CounterIInv'
    BY <1>12 DEF ObjectTypes, CounterIInv, IsLast, LockHolders,
       SO!AwaitRelease
  <2>5. BarrierIInv'
    BY <1>12 DEF ObjectTypes, BarrierIInv, Everybody, LockHolders,
       SO!AwaitRelease
  <2>6. SO!NoUseAfterFree'
    BY <1>12 DEF ObjectTypes, ObjectPoints, Notifying, LockHolders,
       SO!NoUseAfterFree, SO!Finished, SO!AwaitRelease
  <2> QED BY <2>1, <2>2, <2>3, <2>4, <2>5, <2>6
<1>13. ASSUME NEW t \in Users, SO!BlockLock(t) PROVE ObjectIInv'
  <2>0. object = "Barrier" /\ t \in Everybody
    BY <1>13 DEF ObjectTypes, ObjectPoints, Notifying, SO!BlockLock
  <2>1. ObjectTypes'
    BY <1>13, <2>0 DEF ObjectTypes, ObjectPoints, Notifying, Everybody,
       SO!BlockLock
  <2>2. LockHolders'
    BY <1>13, <2>0 DEF ObjectTypes, LockHolders, SO!BlockLock
  <2>3. NotificationIInv'
    BY <1>13, <2>0 DEF ObjectTypes, NotificationIInv, Notifying, SO!BlockLock
  <2>4. CounterIInv'
    BY <1>13, <2>0 DEF ObjectTypes, CounterIInv, IsLast, LockHolders,
       SO!BlockLock
  <2>5. BarrierIInv'
    <3> DEFINE B == {u \in Everybody : so_pc[u] = "Block"}
               X == {u \in Everybody : so_pc[u] \in {"Block", "Block.Await"}}
    <3>1. /\ so_pc[t] = "Block" /\ num_to_block' = num_to_block - 1
          /\ so_pc' = [so_pc EXCEPT ![t] = "Block.Await"]
          /\ UNCHANGED <<object, workers, result, num_to_exit>>
      BY <1>13 DEF SO!BlockLock
    <3>2. B' = B \ {t} /\ t \in B /\ X' = X /\ IsFiniteSet(B)
      BY <2>0, <3>1, FewUsers DEF ObjectTypes, Everybody
    <3>3. num_to_block' = Cardinality(B') /\ num_to_block \in Nat /\ num_to_block # 0
      BY <2>0, <3>1, <3>2, OneThreadLess DEF BarrierIInv
    <3>4. \A u \in Everybody : so_pc[u] \notin {"Block.unlock", "returned"}
      BY <2>0, <3>3 DEF BarrierIInv
    <3> QED BY <2>0, <3>1, <3>2, <3>3, <3>4 DEF BarrierIInv, ObjectTypes, Everybody
  <2>6. SO!NoUseAfterFree'
    BY <1>13, <2>0 DEF ObjectTypes, ObjectPoints, Notifying, LockHolders,
       SO!NoUseAfterFree, SO!Finished, SO!BlockLock
  <2> QED BY <2>1, <2>2, <2>3, <2>4, <2>5, <2>6
<1>14. ASSUME NEW t \in Users, SO!BlockAwait(t) PROVE ObjectIInv'
  <2>0. object = "Barrier" /\ t \in Everybody
    BY <1>14 DEF ObjectTypes, ObjectPoints, Notifying, SO!BlockAwait
  <2>1. ObjectTypes'
    BY <1>14, <2>0 DEF ObjectTypes, ObjectPoints, Notifying, Everybody,
       SO!BlockAwait
  <2>2. LockHolders'
    BY <1>14, <2>0 DEF ObjectTypes, LockHolders, SO!BlockAwait
  <2>3. NotificationIInv'
    BY <1>14, <2>0 DEF ObjectTypes, NotificationIInv, Notifying, SO!BlockAwait
  <2>4. CounterIInv'
    BY <1>14, <2>0 DEF ObjectTypes, CounterIInv, IsLast, LockHolders,
       SO!BlockAwait
  <2>5. BarrierIInv'
    <3> DEFINE B == {u \in Everybody : so_pc[u] = "Block"}
               X == {u \in Everybody : so_pc[u] \in {"Block", "Block.Await"}}
    <3>1. /\ so_pc[t] = "Block.Await" /\ num_to_exit' = num_to_exit - 1
          /\ so_pc' = [so_pc EXCEPT ![t] = "Block.unlock"] /\ num_to_block = 0
          /\ UNCHANGED <<object, workers, num_to_block>>
      BY <1>14 DEF SO!BlockAwait
    <3>2. X' = X \ {t} /\ t \in X /\ B' = B /\ IsFiniteSet(X)
      BY <2>0, <3>1, FewUsers DEF ObjectTypes, Everybody
    <3>3. num_to_exit' = Cardinality(X') /\ num_to_exit \in Nat /\ num_to_exit # 0
      <4>1. num_to_exit = Cardinality(X)
        BY <2>0 DEF BarrierIInv
      <4>2. /\ Cardinality(X) \in Nat /\ Cardinality(X') \in Nat
            /\ Cardinality(X') = Cardinality(X) - 1
        <5> HIDE DEF X
        <5> QED BY <3>2, OneThreadLess
      <4> QED BY <3>1, <4>1, <4>2
    <3>4. \A u \in Users : ~result[u]
      BY <2>0, <3>3 DEF BarrierIInv
    <3>5. \A u \in Users : result'[u] <=> u = t /\ num_to_exit' = 0
      BY <1>14, <3>1, <3>4 DEF SO!BlockAwait, ObjectTypes
    <3>6. \A u \in Users : result'[u] => so_pc'[u] = "Block.unlock"
      BY <2>0, <3>1, <3>5 DEF ObjectTypes, Everybody
    <3>7. num_to_block' = Cardinality(B') /\ num_to_block' = 0 /\ Everybody' = Everybody
      BY <2>0, <3>1, <3>2 DEF BarrierIInv, Everybody
    <3>8. object' = "Barrier" /\ t \in Users
      BY <2>0, <3>1
    <3> QED BY <3>3, <3>5, <3>6, <3>7, <3>8 DEF BarrierIInv
  <2>6. SO!NoUseAfterFree'
    BY <1>14, <2>0 DEF ObjectTypes, ObjectPoints, Notifying, LockHolders,
       SO!NoUseAfterFree, SO!Finished, SO!BlockAwait
  <2> QED BY <2>1, <2>2, <2>3, <2>4, <2>5, <2>6
<1>15. ASSUME NEW t \in Users, SO!BlockReturn(t) PROVE ObjectIInv'
  <2>0. object = "Barrier" /\ t \in Everybody
    BY <1>15 DEF ObjectTypes, ObjectPoints, Notifying, SO!BlockReturn
  <2>1. ObjectTypes'
    BY <1>15, <2>0 DEF ObjectTypes, ObjectPoints, Notifying, Everybody,
       SO!BlockReturn
  <2>2. LockHolders'
    BY <1>15, <2>0 DEF ObjectTypes, LockHolders, SO!BlockReturn
  <2>3. NotificationIInv'
    BY <1>15, <2>0 DEF ObjectTypes, NotificationIInv, Notifying,
       SO!BlockReturn
  <2>4. CounterIInv'
    BY <1>15, <2>0 DEF ObjectTypes, CounterIInv, IsLast, LockHolders,
       SO!BlockReturn
  <2>5. BarrierIInv'
    <3>1. /\ so_pc[t] = "Block.unlock" /\ so_pc' = [so_pc EXCEPT ![t] = "returned"]
          /\ UNCHANGED <<object, workers, result, num_to_block, num_to_exit>>
      BY <1>15 DEF SO!BlockReturn
    <3>2. /\ {u \in Everybody : so_pc'[u] = "Block"} = {u \in Everybody : so_pc[u] = "Block"}
          /\ {u \in Everybody : so_pc'[u] \in {"Block", "Block.Await"}}
               = {u \in Everybody : so_pc[u] \in {"Block", "Block.Await"}}
          /\ Everybody' = Everybody
      BY <3>1 DEF ObjectTypes, Everybody
    <3> QED BY <2>0, <3>1, <3>2 DEF BarrierIInv, ObjectTypes
  <2>6. SO!NoUseAfterFree'
    <3>1. CASE ~result[t]
      BY <1>15, <3>1 DEF ObjectTypes, SO!NoUseAfterFree, SO!Finished, SO!BlockReturn
    <3>2. CASE result[t]
      <4>1. num_to_exit = 0
        BY <2>0, <3>2 DEF BarrierIInv
      <4>2. \A u \in Everybody : so_pc[u] \notin {"Block", "Block.Await"}
        BY <2>0, <4>1, FewUsers, NoThreads DEF BarrierIInv
      <4>3. \A u \in Users : so_pc[u] = "Block.unlock" => u = t
        BY <1>15 DEF LockHolders, SO!BlockReturn
      <4>4. \A u \in Users : u # t => so_pc[u] = "returned"
        BY <2>0, <4>2, <4>3 DEF ObjectTypes, ObjectPoints
      <4> QED BY <1>15, <4>4 DEF SO!BlockReturn, SO!NoUseAfterFree, SO!Finished, ObjectTypes
    <3> QED BY <3>1, <3>2
  <2> QED BY <2>1, <2>2, <2>3, <2>4, <2>5, <2>6
<1>16. CASE UNCHANGED SO!vars
  <2>1. ObjectTypes'
    BY <1>16 DEF SO!vars, ObjectTypes, Everybody
  <2>2. LockHolders'
    BY <1>16 DEF SO!vars, LockHolders
  <2>3. NotificationIInv'
    BY <1>16 DEF SO!vars, NotificationIInv
  <2>4. CounterIInv'
    BY <1>16 DEF SO!vars, CounterIInv, IsLast
  <2>5. BarrierIInv'
    BY <1>16 DEF SO!vars, BarrierIInv, Everybody
  <2>6. SO!NoUseAfterFree'
    BY <1>16 DEF SO!vars, SO!NoUseAfterFree
  <2> QED BY <2>1, <2>2, <2>3, <2>4, <2>5, <2>6
<1> QED
  BY <1>1, <1>2, <1>3, <1>4, <1>5, <1>6, <1>7, <1>8, <1>9, <1>10, <1>11,
     <1>12, <1>13, <1>14, <1>15, <1>16 DEF SO!Next, SO!Step

\* A set in which any two elements are the same has at most one.
LEMMA AtMostOneThread ==
    ASSUME NEW S, IsFiniteSet(S), \A t, u \in S : t = u
    PROVE  /\ Cardinality(S) \in Nat /\ Cardinality(S) <= 1
           /\ S # {} => Cardinality(S) = 1
<1>1. CASE S = {}
  BY <1>1, FS_EmptySet
<1>2. CASE S # {}
  <2>1. PICK t : S = {t}
    BY <1>2
  <2> QED BY <2>1, FS_Singleton, <1>2
<1> QED BY <1>1, <1>2

\* The inductive invariant implies what the run checks.
LEMMA ObjectIInvImplies == ObjectIInv => ObjectInv
<1> SUFFICES ASSUME ObjectIInv PROVE ObjectInv
  OBVIOUS
<1> USE ObjectAssumption DEF ObjectIInv
<1>0. /\ IsFiniteSet(Everybody) /\ IsFiniteSet(workers) /\ IsFiniteSet(Users)
      /\ Cardinality(workers) \in Nat /\ Cardinality(Everybody) = Cardinality(workers) + 1
  <2>1. IsFiniteSet(Everybody) /\ IsFiniteSet(workers)
    BY FewUsers DEF Everybody
  <2> QED BY <2>1, FS_AddElement, FS_CardinalityType DEF Everybody, ObjectTypes
<1>1. SO!TypeOK
  <2>1. count \in 0..Cardinality(workers) /\ num_waiting \in 0..1
    <3>1. CASE object = "BlockingCounter"
      <4> DEFINE D == {w \in workers : so_pc[w] = "DecrementCount"}
      <4>1. Cardinality(D) \in Nat /\ Cardinality(D) <= Cardinality(workers)
        BY <1>0, FS_Subset, FS_CardinalityType
      <4>2. count = Cardinality(D) /\ num_waiting \in 0..1
        BY <3>1 DEF CounterIInv
      <4> QED BY <1>0, <4>1, <4>2
    <3>2. CASE object # "BlockingCounter"
      BY <1>0, <3>2 DEF CounterIInv
    <3> QED BY <3>1, <3>2
  <2>2. /\ num_to_block \in 0..(Cardinality(workers) + 1)
        /\ num_to_exit \in 0..(Cardinality(workers) + 1)
    <3>1. CASE object = "Barrier"
      <4> DEFINE B == {t \in Everybody : so_pc[t] = "Block"}
                 X == {t \in Everybody : so_pc[t] \in {"Block", "Block.Await"}}
      <4>1. Cardinality(B) \in Nat /\ Cardinality(B) <= Cardinality(Everybody)
        BY <1>0, FS_Subset, FS_CardinalityType
      <4>2. Cardinality(X) \in Nat /\ Cardinality(X) <= Cardinality(Everybody)
        BY <1>0, FS_Subset, FS_CardinalityType
      <4>3. num_to_block = Cardinality(B) /\ num_to_exit = Cardinality(X)
        BY <3>1 DEF BarrierIInv
      <4> QED BY <1>0, <4>1, <4>2, <4>3
    <3>2. CASE object # "Barrier"
      BY <1>0, <3>2 DEF BarrierIInv
    <3> QED BY <3>1, <3>2
  <2>3. so_own \in [Users -> {"free", "kShared", "kExclusive"}]
    BY DEF ObjectTypes
  <2>4. {notified_yet, done, freed} \subseteq BOOLEAN
    BY Zenon DEF ObjectTypes
  <2> QED BY <2>1, <2>2, <2>3, <2>4, ObjectCardinality DEF SO!TypeOK
<1>2. SO!ReturnMeansReached
  <2> SUFFICES ASSUME NEW t \in Users, so_pc[t] \in SO!Finished, t \in Everybody
               PROVE  /\ object = "Notification" /\ result[t] => notified_yet
                      /\ object = "BlockingCounter" /\ t = Main =>
                           /\ count = 0
                           /\ workers # {} => Cardinality({w \in workers : result[w]}) = 1
                      /\ object = "Barrier" => \A u \in Everybody : so_pc[u] # "Block"
    BY ObjectCardinality DEF SO!ReturnMeansReached, Everybody
  <2>1. object = "Notification" /\ result[t] => notified_yet
    BY DEF NotificationIInv
  <2>2. ASSUME object = "BlockingCounter", t = Main
        PROVE  /\ count = 0
               /\ workers # {} => Cardinality({w \in workers : result[w]}) = 1
    <3>1. freed /\ done
      BY <2>2 DEF CounterIInv, SO!Finished
    <3>2. \A w \in workers : so_pc[w] \in SO!Finished /\ so_pc[w] # "DecrementCount"
      BY <3>1 DEF SO!NoUseAfterFree, SO!Finished, ObjectTypes
    <3>3. count = 0
      <4>1. {w \in workers : so_pc[w] = "DecrementCount"} = {}
        BY <3>2
      <4> QED BY <2>2, <4>1, FS_EmptySet DEF CounterIInv
    <3>4. \A w \in workers : IsLast(w) <=> result[w]
      BY <3>2 DEF IsLast, SO!Finished
    <3>5. workers # {} => Cardinality({w \in workers : result[w]}) = 1
      <4> DEFINE L == {w \in workers : result[w]}
      <4>1. \A w, x \in L : w = x
        BY <2>2, <3>4 DEF CounterIInv
      <4>2. workers # {} => L # {}
        BY <2>2, <3>3, <3>4 DEF CounterIInv
      <4>3. IsFiniteSet(L)
        BY <1>0, FS_Subset
      <4> HIDE DEF L
      <4>4. workers # {} => Cardinality(L) = 1
        BY <4>1, <4>2, <4>3, AtMostOneThread
      <4> QED BY <4>4 DEF L
    <3> QED BY <3>3, <3>5
  <2>3. ASSUME object = "Barrier" PROVE \A u \in Everybody : so_pc[u] # "Block"
    <3>1. num_to_block = 0
      BY <2>3 DEF BarrierIInv, SO!Finished, ObjectTypes, ObjectPoints
    <3>2. IsFiniteSet({u \in Everybody : so_pc[u] = "Block"})
      BY <1>0, FS_Subset
    <3> QED BY <2>3, <3>1, <3>2, NoThreads DEF BarrierIInv
  <2> QED BY <2>1, <2>2, <2>3
<1>3. SO!OneDeletes
  <2> SUFFICES ASSUME object = "Barrier"
               PROVE  /\ Cardinality({t \in Users : result[t]}) <= 1
                      /\ (\A t \in Users : so_pc[t] = "returned") => \E t \in Users : result[t]
    BY ObjectCardinality DEF SO!OneDeletes
  <2>1. Cardinality({t \in Users : result[t]}) <= 1
    <3> DEFINE L == {t \in Users : result[t]}
    <3>1. IsFiniteSet(L) /\ \A t, u \in L : t = u
      BY <1>0, FS_Subset DEF BarrierIInv
    <3> HIDE DEF L
    <3>2. Cardinality(L) <= 1
      BY <3>1, AtMostOneThread
    <3> QED BY <3>2 DEF L
  <2>2. ASSUME \A t \in Users : so_pc[t] = "returned" PROVE \E t \in Users : result[t]
    <3>1. {t \in Everybody : so_pc[t] \in {"Block", "Block.Await"}} = {}
      BY <2>2 DEF Everybody, ObjectTypes
    <3>2. num_to_exit = 0
      BY <3>1, FS_EmptySet DEF BarrierIInv
    <3> QED BY <3>2 DEF BarrierIInv
  <2> QED BY <2>1, <2>2
<1> QED BY <1>1, <1>2, <1>3 DEF ObjectInv

\* Whatever the number of threads, nobody uses a Notification, a BlockingCounter
\* or a Barrier that was destroyed by the thread that was told it may; a return
\* means what its documentation says; one Block of a Barrier returns true.
THEOREM ObjectInvariant == SO!Spec => []ObjectInv
<1>1. SO!Init => ObjectIInv
  BY ObjectInitInv
<1>2. ObjectIInv /\ [SO!Next]_(SO!vars) => ObjectIInv'
  BY ObjectNextInv
<1>3. ObjectIInv => ObjectInv
  BY ObjectIInvImplies
<1> QED BY <1>1, <1>2, <1>3, PTL DEF SO!Spec

=============================================================================
