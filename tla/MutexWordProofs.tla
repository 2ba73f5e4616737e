-------------------------- MODULE MutexWordProofs ---------------------------
(***************************************************************************)
(* Proofs about MutexWord, for any finite set of threads.                  *)
(***************************************************************************)
EXTENDS MutexWord, FiniteSetTheorems, TLAPS

\* The set of readers is finite, so counting it is meaningful.
LEMMA ReadersFinite ==
    /\ IsFiniteSet(Readers)
    /\ IsFiniteSet(Readers')
    /\ Cardinality(Readers) \in Nat
<1>1. IsFiniteSet(Readers) /\ IsFiniteSet(Readers')
  BY ThreadsFinite, FS_Subset, Zenon DEF Readers
<1> QED BY <1>1, FS_CardinalityType

\* Counting one reader more, one reader less, and the last one.
LEMMA AddReader ==
    ASSUME NEW t, t \notin Readers, Readers' = Readers \cup {t}
    PROVE  Cardinality(Readers') = Cardinality(Readers) + 1
  BY ReadersFinite, FS_AddElement

LEMMA RemoveReader ==
    ASSUME NEW t, t \in Readers, Readers' = Readers \ {t}
    PROVE  Cardinality(Readers') = Cardinality(Readers) - 1
  BY ReadersFinite, FS_RemoveElement

LEMMA LastReader ==
    ASSUME NEW t, t \in Readers
    PROVE  /\ Cardinality(Readers) # 0
           /\ Cardinality(Readers) = 1 <=> Readers = {t}
<1>1. Cardinality(Readers) # 0
  BY ReadersFinite, FS_EmptySet
<1>2. Cardinality(Readers) = 1 <=> \E x : Readers = {x}
  BY ReadersFinite, FS_Singleton
<1> QED BY <1>1, <1>2

LEMMA NoReader == Readers = {} => Cardinality(Readers) = 0
  BY FS_EmptySet

LEMMA NoReaderNext == Readers' = {} => Cardinality(Readers') = 0
  BY FS_EmptySet

\* Initially the word is zero and nobody has anything.
LEMMA InitInv == Init => WordInv
<1> SUFFICES ASSUME Init PROVE WordInv
  OBVIOUS
<1>1. Readers = {}
  BY DEF Init, Readers
<1>2. TypeOK
  BY DEF Init, TypeOK, Bits, Held, Places
<1>3. SpinTells /\ WriterTells /\ ReaderTells
  BY DEF Init, SpinTells, WriterTells, ReaderTells, Spinners, Writers
<1>4. WordTellsHolder
  BY <1>1, <1>3, NoReader DEF Init, WordTellsHolder, Layout
<1> QED BY <1>2, <1>4 DEF Init, WordInv, SpinStable, QueueUsers

\* What holding the lock shared, or exclusively, says of the others and of the
\* word.
LEMMA HoldsShared ==
    ASSUME WordInv, NEW t \in Threads, own[t] = "kShared"
    PROVE  /\ t \in Readers
           /\ "Reader" \in bits /\ "Writer" \notin bits
           /\ \A u \in Threads : own[u] # "kExclusive" /\ at[u] # "remove"
  BY DEF WordInv, WordTellsHolder, Layout, ReaderTells, WriterTells, Writers,
         Readers

LEMMA HoldsExclusive ==
    ASSUME WordInv, NEW t \in Threads, own[t] = "kExclusive"
    PROVE  /\ "Writer" \in bits /\ "Reader" \notin bits
           /\ Readers = {} /\ readers = 0
           /\ \A u \in Threads : u # t => own[u] = "free" /\ at[u] # "remove"
           /\ \A u \in Threads : at[u] # "share"
<1>1. "Writer" \in bits /\ "Reader" \notin bits
  BY DEF WordInv, WordTellsHolder, Layout, WriterTells, Writers
<1>2. \A u \in Threads : own[u] # "kShared" /\ at[u] # "share"
  BY <1>1 DEF WordInv, WordTellsHolder, ReaderTells
<1>3. \A u \in Threads : u # t => own[u] # "kExclusive" /\ at[u] # "remove"
  BY DEF WordInv, WordTellsHolder, WriterTells, Writers
<1>4. Readers = {} /\ readers = 0
  BY <1>2, NoReader DEF Readers, WordInv, WordTellsHolder
<1> QED BY <1>1, <1>2, <1>3, <1>4 DEF WordInv, TypeOK, Held

\* A thread that has kMuSpin has it alone.
LEMMA HasSpin ==
    ASSUME WordInv, NEW t \in Threads, at[t] # "out"
    PROVE  /\ "Spin" \in bits
           /\ \A u \in Threads : u # t => at[u] = "out"
  BY DEF WordInv, WordTellsHolder, SpinTells, Spinners

\* When UnlockSlow is past its test for other readers, there are none: the
\* thread is the only one that has anything.
LEMMA LastHolder ==
    ASSUME WordInv, NEW t \in Threads, at[t] = "spin", "Wait" \in v[t],
           ~NotLastReader(t)
    PROVE  \A u \in Threads : u # t => own[u] = "free" /\ at[u] = "out"
<1>1. \A u \in Threads : u # t => at[u] = "out"
  BY HasSpin
<1>2. CASE own[t] = "kExclusive"
  BY <1>1, <1>2, HoldsExclusive
<1>3. CASE own[t] = "kShared"
  <2>1. t \in Readers /\ "Reader" \in v[t]
    BY <1>3, HoldsShared DEF WordInv, SpinStable
  <2>2. Cardinality(Readers) = 1
    BY <2>1, LastReader, ReadersFinite DEF NotLastReader, WordInv, WordTellsHolder
  <2>3. Readers = {t}
    BY <2>1, <2>2, LastReader
  <2> QED BY <1>1, <1>3, <2>3, HoldsShared DEF Readers, WordInv, TypeOK, Held
<1> QED BY <1>2, <1>3 DEF WordInv, SpinStable, TypeOK, Held

\* Every step keeps the inductive invariant.
LEMMA NextInv == WordInv /\ [Next]_vars => WordInv'
<1> SUFFICES ASSUME WordInv, [Next]_vars PROVE WordInv'
  OBVIOUS
<1> USE DEF WordInv, TypeOK, Bits, Held, Places
<1>0. readers = Cardinality(Readers) /\ Readers \subseteq Threads
  BY DEF WordTellsHolder, Readers
<1>1. ASSUME NEW t \in Threads, LockExclusive(t) PROVE WordInv'
  <2>1. Readers' = Readers
    BY <1>1 DEF LockExclusive, Readers
  <2>2. readers' = Cardinality(Readers')
    BY <1>0, <1>1, <2>1 DEF LockExclusive
  <2>3. SpinTells' /\ WriterTells' /\ ReaderTells'
    BY <1>1, HasSpin
    DEF LockExclusive, SpinTells, WriterTells, ReaderTells, WordTellsHolder, Spinners,
        Writers, SpinStable, QueueUsers
  <2>4. TypeOK' /\ QueueUsers'
    BY <1>0, <1>1, ReadersFinite DEF LockExclusive, QueueUsers
  <2>5. SpinStable'
    BY <1>1, HasSpin, HoldsShared, HoldsExclusive DEF LockExclusive, SpinStable
  <2>9. Layout'
    BY <1>1, HasSpin, HoldsShared, HoldsExclusive 
    DEF LockExclusive, WordTellsHolder, Layout, ReaderTells, WriterTells, Writers, SpinStable
  <2> QED BY <2>2, <2>3, <2>4, <2>5, <2>9 DEF WordTellsHolder
<1>2. ASSUME NEW t \in Threads, LockShared(t) PROVE WordInv'
  <2>1. t \notin Readers /\ Readers' = Readers \cup {t}
    BY <1>2 DEF LockShared, Readers, QueueUsers
  <2>2. readers' = Cardinality(Readers')
    BY <1>0, <1>2, <2>1, AddReader DEF LockShared
  <2>3. SpinTells' /\ WriterTells' /\ ReaderTells'
    BY <1>2, HasSpin
    DEF LockShared, SpinTells, WriterTells, ReaderTells, WordTellsHolder, Spinners,
        Writers, SpinStable, QueueUsers
  <2>4. TypeOK' /\ QueueUsers'
    BY <1>0, <1>2, ReadersFinite DEF LockShared, QueueUsers
  <2>5. SpinStable'
    BY <1>2, HasSpin, HoldsShared, HoldsExclusive DEF LockShared, SpinStable
  <2>9. Layout'
    BY <1>2, HasSpin, HoldsShared, HoldsExclusive 
    DEF LockShared, WordTellsHolder, Layout, ReaderTells, WriterTells, Writers, SpinStable
  <2> QED BY <2>2, <2>3, <2>4, <2>5, <2>9 DEF WordTellsHolder
<1>3. ASSUME NEW t \in Threads, FirstWaiter(t) PROVE WordInv'
  <2>1. Readers' = Readers
    BY <1>3 DEF FirstWaiter, Readers
  <2>2. readers' = Cardinality(Readers')
    BY <1>0, <1>3, <2>1 DEF FirstWaiter
  <2>3. SpinTells' /\ WriterTells' /\ ReaderTells'
    BY <1>3, HasSpin
    DEF FirstWaiter, SpinTells, WriterTells, ReaderTells, WordTellsHolder, Spinners,
        Writers, SpinStable, QueueUsers
  <2>4. TypeOK' /\ QueueUsers'
    BY <1>0, <1>3, ReadersFinite DEF FirstWaiter, QueueUsers
  <2>5. SpinStable'
    BY <1>3, HasSpin, HoldsShared, HoldsExclusive DEF FirstWaiter, SpinStable
  <2>9. Layout'
    BY <1>3, HasSpin, HoldsShared, HoldsExclusive 
    DEF FirstWaiter, WordTellsHolder, Layout, ReaderTells, WriterTells, Writers, SpinStable
  <2> QED BY <2>2, <2>3, <2>4, <2>5, <2>9 DEF WordTellsHolder
<1>4. ASSUME NEW t \in Threads, ShareBegin(t) PROVE WordInv'
  <2>1. Readers' = Readers
    BY <1>4 DEF ShareBegin, Readers
  <2>2. readers' = Cardinality(Readers')
    BY <1>0, <1>4, <2>1 DEF ShareBegin
  <2>3. SpinTells' /\ WriterTells' /\ ReaderTells'
    BY <1>4, HasSpin
    DEF ShareBegin, SpinTells, WriterTells, ReaderTells, WordTellsHolder, Spinners,
        Writers, SpinStable, QueueUsers
  <2>4. TypeOK' /\ QueueUsers'
    BY <1>0, <1>4, ReadersFinite DEF ShareBegin, QueueUsers
  <2>5. SpinStable'
    BY <1>4, HasSpin, HoldsShared, HoldsExclusive DEF ShareBegin, SpinStable
  <2>9. Layout'
    BY <1>4, HasSpin, HoldsShared, HoldsExclusive 
    DEF ShareBegin, WordTellsHolder, Layout, ReaderTells, WriterTells, Writers, SpinStable
  <2> QED BY <2>2, <2>3, <2>4, <2>5, <2>9 DEF WordTellsHolder
<1>5. ASSUME NEW t \in Threads, ShareEnd(t) PROVE WordInv'
  <2>1. t \notin Readers /\ Readers' = Readers \cup {t}
    BY <1>5 DEF ShareEnd, Readers, QueueUsers
  <2>2. readers' = Cardinality(Readers')
    BY <1>0, <1>5, <2>1, AddReader DEF ShareEnd
  <2>3. SpinTells' /\ WriterTells' /\ ReaderTells'
    BY <1>5, HasSpin
    DEF ShareEnd, SpinTells, WriterTells, ReaderTells, WordTellsHolder, Spinners,
        Writers, SpinStable, QueueUsers
  <2>4. TypeOK' /\ QueueUsers'
    BY <1>0, <1>5, ReadersFinite DEF ShareEnd, QueueUsers
  <2>5. SpinStable'
    BY <1>5, HasSpin, HoldsShared, HoldsExclusive DEF ShareEnd, SpinStable
  <2>9. Layout'
    BY <1>5, HasSpin, HoldsShared, HoldsExclusive 
    DEF ShareEnd, WordTellsHolder, Layout, ReaderTells, WriterTells, Writers, SpinStable
  <2> QED BY <2>2, <2>3, <2>4, <2>5, <2>9 DEF WordTellsHolder
<1>6. ASSUME NEW t \in Threads, EnqueueBegin(t) PROVE WordInv'
  <2>1. Readers' = Readers
    BY <1>6 DEF EnqueueBegin, Readers
  <2>2. readers' = Cardinality(Readers')
    BY <1>0, <1>6, <2>1 DEF EnqueueBegin
  <2>3. SpinTells' /\ WriterTells' /\ ReaderTells'
    BY <1>6, HasSpin
    DEF EnqueueBegin, SpinTells, WriterTells, ReaderTells, WordTellsHolder, Spinners,
        Writers, SpinStable, QueueUsers
  <2>4. TypeOK' /\ QueueUsers'
    BY <1>0, <1>6, ReadersFinite DEF EnqueueBegin, QueueUsers
  <2>5. SpinStable'
    BY <1>6, HasSpin, HoldsShared, HoldsExclusive DEF EnqueueBegin, SpinStable
  <2>9. Layout'
    BY <1>6, HasSpin, HoldsShared, HoldsExclusive 
    DEF EnqueueBegin, WordTellsHolder, Layout, ReaderTells, WriterTells, Writers, SpinStable
  <2> QED BY <2>2, <2>3, <2>4, <2>5, <2>9 DEF WordTellsHolder
<1>7. ASSUME NEW t \in Threads, EnqueueEnd(t) PROVE WordInv'
  <2>1. Readers' = Readers
    BY <1>7 DEF EnqueueEnd, Readers
  <2>2. readers' = Cardinality(Readers')
    BY <1>0, <1>7, <2>1 DEF EnqueueEnd
  <2>3. SpinTells' /\ WriterTells' /\ ReaderTells'
    BY <1>7, HasSpin
    DEF EnqueueEnd, SpinTells, WriterTells, ReaderTells, WordTellsHolder, Spinners,
        Writers, SpinStable, QueueUsers
  <2>4. TypeOK' /\ QueueUsers'
    BY <1>0, <1>7, ReadersFinite DEF EnqueueEnd, QueueUsers
  <2>5. SpinStable'
    BY <1>7, HasSpin, HoldsShared, HoldsExclusive DEF EnqueueEnd, SpinStable
  <2>9. Layout'
    BY <1>7, HasSpin, HoldsShared, HoldsExclusive 
    DEF EnqueueEnd, WordTellsHolder, Layout, ReaderTells, WriterTells, Writers, SpinStable
  <2> QED BY <2>2, <2>3, <2>4, <2>5, <2>9 DEF WordTellsHolder
<1>8. ASSUME NEW t \in Threads, RemoveBegin(t) PROVE WordInv'
  <2>1. Readers' = Readers
    BY <1>8 DEF RemoveBegin, Readers
  <2>2. readers' = Cardinality(Readers')
    BY <1>0, <1>8, <2>1 DEF RemoveBegin
  <2>3. SpinTells' /\ WriterTells' /\ ReaderTells'
    BY <1>8, HasSpin
    DEF RemoveBegin, SpinTells, WriterTells, ReaderTells, WordTellsHolder, Spinners,
        Writers, SpinStable, QueueUsers
  <2>4. TypeOK' /\ QueueUsers'
    BY <1>0, <1>8, ReadersFinite DEF RemoveBegin, QueueUsers
  <2>5. SpinStable'
    BY <1>8, HasSpin, HoldsShared, HoldsExclusive DEF RemoveBegin, SpinStable
  <2>9. Layout'
    BY <1>8, HasSpin, HoldsShared, HoldsExclusive 
    DEF RemoveBegin, WordTellsHolder, Layout, ReaderTells, WriterTells, Writers, SpinStable
  <2> QED BY <2>2, <2>3, <2>4, <2>5, <2>9 DEF WordTellsHolder
<1>9. ASSUME NEW t \in Threads, RemoveEnd(t) PROVE WordInv'
  <2>0. \A u \in Threads : own[u] = "free" /\ (u # t => at[u] = "out")
    BY <1>9, HasSpin DEF RemoveEnd, WordTellsHolder, Layout, WriterTells,
             Writers, ReaderTells, QueueUsers
  <2>1. Readers' = {}
    BY <1>9, <2>0 DEF RemoveEnd, Readers
  <2>2. readers' = Cardinality(Readers')
    BY <1>9, <2>1, NoReaderNext DEF RemoveEnd
  <2>3. SpinTells' /\ WriterTells' /\ ReaderTells'
    BY <1>9, <2>0, HasSpin
    DEF RemoveEnd, SpinTells, WriterTells, ReaderTells, WordTellsHolder, Spinners,
        Writers, SpinStable, QueueUsers
  <2>4. TypeOK' /\ QueueUsers'
    BY <1>0, <1>9, <2>0, ReadersFinite DEF RemoveEnd, QueueUsers
  <2>5. SpinStable'
    BY <1>9, <2>0, HasSpin, HoldsShared, HoldsExclusive DEF RemoveEnd, SpinStable
  <2>9. Layout'
    BY <1>9, <2>0, HasSpin, HoldsShared, HoldsExclusive 
    DEF RemoveEnd, WordTellsHolder, Layout, ReaderTells, WriterTells, Writers, SpinStable
  <2> QED BY <2>2, <2>3, <2>4, <2>5, <2>9 DEF WordTellsHolder
<1>10. ASSUME NEW t \in Threads, UnlockFastWriter(t) PROVE WordInv'
  <2>0. own[t] = "kExclusive"
    BY <1>10, HoldsShared DEF UnlockFastWriter
  <2>1. Readers' = Readers
    BY <1>10, <2>0 DEF UnlockFastWriter, Readers
  <2>2. readers' = Cardinality(Readers')
    BY <1>0, <1>10, <2>1 DEF UnlockFastWriter
  <2>3. SpinTells' /\ WriterTells' /\ ReaderTells'
    BY <1>10, <2>0, HoldsExclusive, HasSpin
    DEF UnlockFastWriter, SpinTells, WriterTells, ReaderTells, WordTellsHolder, Spinners,
        Writers, SpinStable, QueueUsers
  <2>4. TypeOK' /\ QueueUsers'
    BY <1>0, <1>10, <2>0, HoldsExclusive, ReadersFinite DEF UnlockFastWriter, QueueUsers
  <2>5. SpinStable'
    BY <1>10, <2>0, HoldsExclusive, HasSpin, HoldsShared, HoldsExclusive DEF UnlockFastWriter, SpinStable
  <2>9. Layout'
    BY <1>10, <2>0, HoldsExclusive, HasSpin, HoldsShared, HoldsExclusive 
    DEF UnlockFastWriter, WordTellsHolder, Layout, ReaderTells, WriterTells, Writers, SpinStable
  <2> QED BY <2>2, <2>3, <2>4, <2>5, <2>9 DEF WordTellsHolder
<1>11. ASSUME NEW t \in Threads, UnlockFastReader(t) PROVE WordInv'
  <2>0. own[t] = "kShared"
    BY <1>11, HoldsExclusive DEF UnlockFastReader, SpinStable
  <2>1. t \in Readers /\ Readers' = Readers \ {t}
    BY <1>11, <2>0 DEF UnlockFastReader, Readers
  <2>2. readers' = Cardinality(Readers')
    BY <1>0, <1>11, <2>1, RemoveReader DEF UnlockFastReader
  <2>6. readers # 0 /\ (readers = 1 <=> Readers = {t})
    BY <1>0, <2>1, LastReader
  <2>7. readers # 1 => \E u \in Threads : u # t /\ own[u] = "kShared"
    BY <2>1, <2>6 DEF Readers
  <2>8. readers = 1 => \A u \in Threads : u # t => own[u] = "free"
    BY <2>0, <2>6, HoldsShared DEF Readers
  <2>3. SpinTells' /\ WriterTells' /\ ReaderTells'
    BY <1>11, <2>0, <2>6, <2>7, <2>8, HoldsShared, HasSpin
    DEF UnlockFastReader, SpinTells, WriterTells, ReaderTells, WordTellsHolder, Spinners,
        Writers, SpinStable, QueueUsers
  <2>4. TypeOK' /\ QueueUsers'
    BY <1>0, <1>11, <2>0, <2>6, <2>7, <2>8, HoldsShared, ReadersFinite DEF UnlockFastReader, QueueUsers
  <2>5. SpinStable'
    BY <1>11, <2>0, <2>6, <2>7, <2>8, HoldsShared, HasSpin, HoldsShared, HoldsExclusive DEF UnlockFastReader, SpinStable
  <2>9. Layout'
    BY <1>11, <2>0, <2>6, <2>7, <2>8, HoldsShared, HasSpin, HoldsShared, HoldsExclusive 
    DEF UnlockFastReader, WordTellsHolder, Layout, ReaderTells, WriterTells, Writers, SpinStable
  <2> QED BY <2>2, <2>3, <2>4, <2>5, <2>9 DEF WordTellsHolder
<1>12. ASSUME NEW t \in Threads, UnlockTakeSpin(t) PROVE WordInv'
  <2>1. Readers' = Readers
    BY <1>12 DEF UnlockTakeSpin, Readers
  <2>2. readers' = Cardinality(Readers')
    BY <1>0, <1>12, <2>1 DEF UnlockTakeSpin
  <2>3. SpinTells' /\ WriterTells' /\ ReaderTells'
    BY <1>12, HasSpin
    DEF UnlockTakeSpin, SpinTells, WriterTells, ReaderTells, WordTellsHolder, Spinners,
        Writers, SpinStable, QueueUsers
  <2>4. TypeOK' /\ QueueUsers'
    BY <1>0, <1>12, ReadersFinite DEF UnlockTakeSpin, QueueUsers
  <2>5. SpinStable'
    BY <1>12, HasSpin, HoldsShared, HoldsExclusive DEF UnlockTakeSpin, SpinStable
  <2>9. Layout'
    BY <1>12, HasSpin, HoldsShared, HoldsExclusive 
    DEF UnlockTakeSpin, WordTellsHolder, Layout, ReaderTells, WriterTells, Writers, SpinStable
  <2> QED BY <2>2, <2>3, <2>4, <2>5, <2>9 DEF WordTellsHolder
<1>13. ASSUME NEW t \in Threads, UnlockNoWaiters(t) PROVE WordInv'
  <2>1. CASE own[t] = "kExclusive"
    <3>1. Readers' = {}
      BY <1>13, <2>1, HoldsExclusive DEF UnlockNoWaiters, Leave, Readers
    <3>2. readers' = Cardinality(Readers')
      BY <1>13, <2>1, <3>1, NoReaderNext, HoldsExclusive DEF UnlockNoWaiters
    <3>3. SpinTells' /\ WriterTells' /\ ReaderTells'
      BY <1>13, <2>1, HoldsExclusive, HasSpin
      DEF UnlockNoWaiters, Leave, SpinTells, WriterTells, ReaderTells, WordTellsHolder, Spinners, Writers
    <3>4. TypeOK' /\ QueueUsers'
      BY <1>13, <2>1, HasSpin, HoldsExclusive DEF UnlockNoWaiters, Leave, QueueUsers
    <3>5. SpinStable' /\ Layout'
      BY <1>13, <2>1, HasSpin, HoldsExclusive DEF UnlockNoWaiters, Leave, SpinStable, WordTellsHolder, Layout
    <3> QED BY <3>2, <3>3, <3>4, <3>5 DEF WordTellsHolder
  <2>2. CASE own[t] = "kShared"
    <3>1. t \in Readers /\ Readers' = Readers \ {t}
      BY <1>13, <2>2 DEF UnlockNoWaiters, Leave, Readers
    <3>2. readers \in Nat \ {0} /\ (readers = 1 <=> Readers = {t})
      BY <1>0, <3>1, LastReader
    <3>3. readers' = Cardinality(Readers')
      BY <1>0, <1>13, <3>1, <3>2, RemoveReader DEF UnlockNoWaiters
    <3>4. readers # 1 => \E u \in Threads : u # t /\ own[u] = "kShared"
      BY <3>1, <3>2 DEF Readers
    <3>5. readers = 1 => \A u \in Threads : u # t => own[u] = "free"
      BY <2>2, <3>2, HoldsShared DEF Readers
    <3>6. SpinTells' /\ WriterTells'
      BY <1>13, <2>2, HoldsShared, HasSpin
      DEF UnlockNoWaiters, Leave, SpinTells, WriterTells, WordTellsHolder, Spinners, Writers
    <3>7. ReaderTells'
      BY <1>13, <2>2, <3>4, <3>5, HoldsShared, HasSpin DEF UnlockNoWaiters, Leave, ReaderTells
    <3>8. TypeOK' /\ QueueUsers'
      BY <1>13, <3>2, HasSpin DEF UnlockNoWaiters, Leave, QueueUsers
    <3>9. SpinStable' /\ Layout'
      BY <1>13, <2>2, HasSpin, HoldsShared DEF UnlockNoWaiters, Leave, SpinStable, WordTellsHolder, Layout
    <3> QED BY <3>3, <3>6, <3>7, <3>8, <3>9 DEF WordTellsHolder
  <2> QED BY <1>13, <2>1, <2>2 DEF UnlockNoWaiters, SpinStable
<1>14. ASSUME NEW t \in Threads, UnlockNotLastReader(t) PROVE WordInv'
  <2>0. own[t] = "kShared"
    BY <1>14, HoldsExclusive DEF UnlockNotLastReader, Leave, NotLastReader, SpinStable
  <2>1. t \in Readers /\ Readers' = Readers \ {t}
    BY <1>14, <2>0 DEF UnlockNotLastReader, Leave, NotLastReader, Readers
  <2>2. readers' = Cardinality(Readers')
    BY <1>0, <1>14, <2>1, RemoveReader DEF UnlockNotLastReader
  <2>6. readers # 0 /\ (readers = 1 <=> Readers = {t})
    BY <1>0, <2>1, LastReader
  <2>7. readers # 1 => \E u \in Threads : u # t /\ own[u] = "kShared"
    BY <2>1, <2>6 DEF Readers
  <2>8. readers = 1 => \A u \in Threads : u # t => own[u] = "free"
    BY <2>0, <2>6, HoldsShared DEF Readers
  <2>3. SpinTells' /\ WriterTells' /\ ReaderTells'
    <3> USE <1>14, <2>0, HasSpin DEF UnlockNotLastReader, Leave, NotLastReader, SpinStable,
            WordTellsHolder
    <3>1. SpinTells'
      BY DEF SpinTells, Spinners
    <3>2. WriterTells'
      BY HoldsShared DEF WriterTells, Writers
    <3>3. ReaderTells'
      BY <2>6, <2>7, <2>8, HoldsShared DEF ReaderTells
    <3> QED BY <3>1, <3>2, <3>3
  <2>4. TypeOK' /\ QueueUsers'
    BY <1>0, <1>14, <2>0, <2>6, <2>7, <2>8, HoldsShared, ReadersFinite DEF UnlockNotLastReader, Leave, NotLastReader, QueueUsers
  <2>5. SpinStable'
    BY <1>14, <2>0, <2>6, <2>7, <2>8, HoldsShared, HasSpin, HoldsShared, HoldsExclusive DEF UnlockNotLastReader, Leave, NotLastReader, SpinStable
  <2>9. Layout'
    BY <1>14, <2>0, <2>6, <2>7, <2>8, HoldsShared, HasSpin, HoldsShared, HoldsExclusive 
    DEF UnlockNotLastReader, Leave, NotLastReader, WordTellsHolder, Layout, ReaderTells, WriterTells, Writers, SpinStable
  <2> QED BY <2>2, <2>3, <2>4, <2>5, <2>9 DEF WordTellsHolder
<1>15. ASSUME NEW t \in Threads, UnlockAndWake(t) PROVE WordInv'
  <2>0. \A u \in Threads : own'[u] = "free" /\ at'[u] = "out"
    BY <1>15, LastHolder DEF UnlockAndWake, Leave
  <2>1. Readers' = {}
    BY <2>0 DEF Readers
  <2>2. readers' = Cardinality(Readers')
    BY <1>15, <2>1, NoReaderNext DEF UnlockAndWake
  <2>3. SpinTells' /\ WriterTells' /\ ReaderTells'
    BY <1>15, <2>0, HasSpin
    DEF UnlockAndWake, Leave, SpinTells, WriterTells, ReaderTells, WordTellsHolder, Spinners,
        Writers, SpinStable, QueueUsers
  <2>4. TypeOK' /\ QueueUsers'
    BY <1>0, <1>15, <2>0, ReadersFinite DEF UnlockAndWake, Leave, QueueUsers
  <2>5. SpinStable'
    BY <1>15, <2>0, HasSpin, HoldsShared, HoldsExclusive DEF UnlockAndWake, Leave, SpinStable
  <2>9. Layout'
    BY <1>15, <2>0, HasSpin, HoldsShared, HoldsExclusive 
    DEF UnlockAndWake, Leave, WordTellsHolder, Layout, ReaderTells, WriterTells, Writers, SpinStable
  <2> QED BY <2>2, <2>3, <2>4, <2>5, <2>9 DEF WordTellsHolder
<1>16. ASSUME NEW t \in Threads, UnlockNobody(t) PROVE WordInv'
  <2>0. \A u \in Threads : own'[u] = "free" /\ at'[u] = "out"
    BY <1>16, LastHolder DEF UnlockNobody, Leave
  <2>1. Readers' = {}
    BY <2>0 DEF Readers
  <2>2. readers' = Cardinality(Readers')
    BY <1>16, <2>1, NoReaderNext DEF UnlockNobody
  <2>3. SpinTells' /\ WriterTells' /\ ReaderTells'
    BY <1>16, <2>0, HasSpin
    DEF UnlockNobody, Leave, SpinTells, WriterTells, ReaderTells, WordTellsHolder, Spinners,
        Writers, SpinStable, QueueUsers
  <2>4. TypeOK' /\ QueueUsers'
    BY <1>0, <1>16, <2>0, ReadersFinite DEF UnlockNobody, Leave, QueueUsers
  <2>5. SpinStable'
    BY <1>16, <2>0, HasSpin, HoldsShared, HoldsExclusive DEF UnlockNobody, Leave, SpinStable
  <2>9. Layout'
    BY <1>16, <2>0, HasSpin, HoldsShared, HoldsExclusive 
    DEF UnlockNobody, Leave, WordTellsHolder, Layout, ReaderTells, WriterTells, Writers, SpinStable
  <2> QED BY <2>2, <2>3, <2>4, <2>5, <2>9 DEF WordTellsHolder
<1>17. ASSUME NEW t \in Threads, UnlockStartWalk(t) PROVE WordInv'
  <2>1. Readers' = Readers
    BY <1>17 DEF UnlockStartWalk, Readers
  <2>2. readers' = Cardinality(Readers')
    BY <1>0, <1>17, <2>1 DEF UnlockStartWalk
  <2>3. SpinTells' /\ WriterTells' /\ ReaderTells'
    BY <1>17, HasSpin
    DEF UnlockStartWalk, SpinTells, WriterTells, ReaderTells, WordTellsHolder, Spinners,
        Writers, SpinStable, QueueUsers
  <2>4. TypeOK' /\ QueueUsers'
    BY <1>0, <1>17, ReadersFinite DEF UnlockStartWalk, QueueUsers
  <2>5. SpinStable'
    BY <1>17, HasSpin, HoldsShared, HoldsExclusive DEF UnlockStartWalk, SpinStable
  <2>9. Layout'
    BY SMTT(30), <1>17, HasSpin, HoldsShared, HoldsExclusive 
    DEF UnlockStartWalk, WordTellsHolder, Layout, ReaderTells, WriterTells, Writers, SpinStable
  <2> QED BY <2>2, <2>3, <2>4, <2>5, <2>9 DEF WordTellsHolder
<1>18. CASE SetEvent
  <2>1. Readers' = Readers
    BY <1>18 DEF SetEvent, Readers
  <2>2. readers' = Cardinality(Readers')
    BY <1>0, <1>18, <2>1 DEF SetEvent
  <2>3. SpinTells' /\ WriterTells' /\ ReaderTells'
    BY <1>18 DEF SetEvent, SpinTells, WriterTells, ReaderTells, WordTellsHolder,
              Spinners, Writers
  <2>4. TypeOK' /\ SpinStable' /\ QueueUsers'
    BY <1>18 DEF SetEvent, SpinTells, WordTellsHolder, Spinners, SpinStable,
              QueueUsers
  <2> QED BY <1>18, <2>2, <2>3, <2>4 DEF WordTellsHolder, Layout, SetEvent
<1>19. CASE UNCHANGED vars
  BY <1>19 DEF vars, WordTellsHolder, Layout, SpinTells, WriterTells, ReaderTells,
              Spinners, Writers, Readers, SpinStable, QueueUsers
<1> QED BY <1>1, <1>2, <1>3, <1>4, <1>5, <1>6, <1>7, <1>8, <1>9, <1>10, <1>11, <1>12, <1>13, <1>14, <1>15, <1>16, <1>17, <1>18, <1>19
        DEF Next, Step

----------------------------------------------------------------------------

\* The word protocol keeps the inductive invariant for ever.
THEOREM WordInvariant == Spec => []WordInv
<1>1. Init => WordInv
  BY InitInv
<1>2. WordInv /\ [Next]_vars => WordInv'
  BY NextInv
<1> QED BY <1>1, <1>2, PTL DEF Spec

\* kMuSpin, kMuWriter, kMuReader and the reader count always tell exactly who
\* has the spinlock, who writes and who reads.
THEOREM WordHolder == Spec => []WordTellsHolder
<1>1. WordInv => WordTellsHolder
  BY DEF WordInv
<1> QED BY <1>1, WordInvariant, PTL

\* The word does not change under UnlockSlow while it has kMuSpin and there
\* are waiters, so its plain stores overwrite nobody's update.
THEOREM WordSpinStable == Spec => []SpinStable
<1>1. WordInv => SpinStable
  BY DEF WordInv
<1> QED BY <1>1, WordInvariant, PTL

\* The lock excludes: a thread that holds it exclusively holds it alone.
THEOREM WordMutualExclusion == Spec => []MutualExclusion
<1>1. WordInv => MutualExclusion
  BY HoldsExclusive DEF MutualExclusion
<1> QED BY <1>1, WordInvariant, PTL

\* No store of the Mutex code loses kMuEvent once EnableDebugLog has set it.
THEOREM WordEventKept == Spec => EventKept
<1>1. WordInv /\ [Next]_vars => [("Event" \in bits) => ("Event" \in bits')]_vars
  <2> SUFFICES ASSUME WordInv, Next, "Event" \in bits PROVE "Event" \in bits'
    OBVIOUS
  <2>1. CASE SetEvent
    BY <2>1 DEF SetEvent
  <2>2. ASSUME NEW t \in Threads, at[t] = "spin", "Wait" \in v[t]
        PROVE  "Event" \in v[t]
    BY <2>2 DEF WordInv, SpinStable
  <2>3. ASSUME NEW t \in Threads, Step(t) PROVE "Event" \in bits'
    BY <2>2, <2>3
    DEF Step, LockExclusive, LockShared, FirstWaiter, ShareBegin, ShareEnd,
        EnqueueBegin, EnqueueEnd, RemoveBegin, RemoveEnd, UnlockFastWriter,
        UnlockFastReader, UnlockTakeSpin, UnlockNoWaiters, UnlockNotLastReader,
        UnlockAndWake, UnlockNobody, UnlockStartWalk
  <2> QED BY <2>1, <2>3 DEF Next
<1> QED BY <1>1, WordInvariant, PTL DEF Spec, EventKept

\* The word protocol implements the readers/writer lock: an acquisition of the
\* code is an acquisition allowed by RWLock, a release a release, and every
\* other step on the word leaves what the threads hold alone.
THEOREM WordImplementsRWLock == Spec => ImplementsRWLock
<1>1. Init => RW!Init
  BY DEF Init, RW!Init
<1>2. WordInv /\ [Next]_vars => [RW!Next]_own
  <2> SUFFICES ASSUME WordInv, Next, own' # own PROVE RW!Next
    BY DEF vars
  <2>1. PICK t \in Threads : Step(t)
    BY DEF Next, SetEvent
  <2>2. CASE LockExclusive(t)
    <3>1. \A u \in Threads : own[u] = "free"
      BY <2>2 DEF LockExclusive, WordInv, TypeOK, Held, WordTellsHolder,
                  Layout, WriterTells, Writers, ReaderTells
    <3> QED BY <2>2, <3>1 DEF LockExclusive, RW!Next, RW!AcquireExclusive
  <2>3. CASE LockShared(t) \/ ShareEnd(t)
    <3>1. own[t] = "free" /\ \A u \in Threads : own[u] # "kExclusive"
      BY <2>3 DEF LockShared, ShareEnd, WordInv, QueueUsers, WordTellsHolder,
                  Layout, WriterTells, Writers, ReaderTells
    <3>2. own' = [own EXCEPT ![t] = "kShared"]
      BY <2>3 DEF LockShared, ShareEnd
    <3> QED BY <3>1, <3>2 DEF RW!Next, RW!AcquireShared
  <2>4. CASE own' = [own EXCEPT ![t] = "free"]
    <3>1. own[t] # "free"
      BY <2>4 DEF WordInv, TypeOK
    <3> QED BY <2>4, <3>1 DEF RW!Next, RW!Release
  <2> QED
    BY <2>1, <2>2, <2>3, <2>4
    DEF Step, FirstWaiter, ShareBegin, EnqueueBegin, EnqueueEnd, RemoveBegin,
        RemoveEnd, UnlockFastWriter, UnlockFastReader, UnlockTakeSpin,
        UnlockNoWaiters, UnlockNotLastReader, UnlockAndWake, UnlockNobody,
        UnlockStartWalk, Leave
<1> QED BY <1>1, <1>2, WordInvariant, PTL DEF Spec, ImplementsRWLock, RW!Spec
=============================================================================
