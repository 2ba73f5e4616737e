------------------------ MODULE SequenceLockProofs ------------------------
(***************************************************************************)
(* TryRead never returns a torn or a stale value, for any number of        *)
(* readers, of words and of writes.                                        *)
(***************************************************************************)
EXTENDS SequenceLock, TLAPS

\* SeqInv holds initially.
LEMMA SeqInvInit == Init => SeqInv
BY SequenceLockAssumption DEF Init, SeqInv, TypeOK, Value, Index, Odd, kUninitialized

\* The parity of the counter through the steps of the writer.
LEMMA Parity ==
    ASSUME NEW n \in Int
    PROVE  /\ Odd(n) <=> ~Odd(n + 1)
           /\ Odd(n) <=> Odd(n + 2)
           /\ ~Odd(0)
BY DEF Odd

\* Every step of the writer preserves SeqInv.
LEMMA WriterInv == SeqInv /\ WriterStep => SeqInv'
<1> SUFFICES ASSUME SeqInv, WriterStep PROVE SeqInv'
  OBVIOUS
<1> USE SequenceLockAssumption DEF SeqInv, TypeOK, Value, Index, kUninitialized, reader
<1>0. lock_ \in Int
  OBVIOUS
<1>1. CASE MarkInitialized
  <2>1. ~Odd(0)
    BY Parity
  <2> QED
    BY <1>1, <2>1 DEF MarkInitialized
<1>2. CASE WriteBegin
  <2>1. ~Odd(lock_) /\ Odd(lock_ + 1)
    BY <1>0, <1>2, Parity DEF WriteBegin
  <2>2. TypeOK' /\ lock_' < MaxSeq /\ lock_' # kUninitialized
    BY <1>2 DEF WriteBegin
  <2>3. \A r \in Readers : pc'[r] = "copy" =>
           seq_before'[r] < lock_' /\ ~Odd(seq_before'[r]) /\ at'[r] >= 1
    BY <1>2 DEF WriteBegin
  <2> QED
    BY <1>2, <2>1, <2>2, <2>3 DEF WriteBegin
<1>3. CASE RelaxedCopyToAtomic
  <2>1. \A r \in Readers : pc[r] = "copy" => seq_before[r] # lock_
    BY <1>3 DEF RelaxedCopyToAtomic
  <2>2. TypeOK'
    BY <1>3 DEF RelaxedCopyToAtomic
  <2>3. \A i \in Index : i < next' => words'[i] = src'[i]
    BY <1>3 DEF RelaxedCopyToAtomic
  <2> QED
    BY <1>3, <2>1, <2>2, <2>3 DEF RelaxedCopyToAtomic
<1>4. CASE WriteEnd
  <2>1. Odd(lock_) /\ ~Odd(lock_ + 1)
    BY <1>0, <1>4, Parity DEF WriteEnd
  <2>2. words = src
    BY <1>4 DEF WriteEnd
  <2>3. TypeOK'
    BY <1>4 DEF WriteEnd
  <2>4. \A r \in Readers : pc'[r] = "copy" =>
           seq_before'[r] < lock_' /\ ~Odd(seq_before'[r]) /\ at'[r] >= 1
    BY <1>4 DEF WriteEnd
  <2> QED
    BY <1>4, <2>1, <2>2, <2>3, <2>4 DEF WriteEnd
<1>5. CASE IncrementModificationCount
  <2>1. ~Odd(lock_ + 2)
    BY <1>0, <1>5, Parity DEF IncrementModificationCount
  <2>2. \A r \in Readers : pc'[r] = "copy" =>
           seq_before'[r] < lock_' /\ ~Odd(seq_before'[r]) /\ at'[r] >= 1
    BY <1>5 DEF IncrementModificationCount
  <2> QED
    BY <1>5, <2>1, <2>2 DEF IncrementModificationCount
<1> QED
  BY <1>1, <1>2, <1>3, <1>4, <1>5 DEF WriterStep

\* Every step of a reader preserves SeqInv.
LEMMA ReaderInv == ASSUME NEW r \in Readers PROVE SeqInv /\ ReaderStep(r) => SeqInv'
<1> SUFFICES ASSUME SeqInv, ReaderStep(r) PROVE SeqInv'
  OBVIOUS
<1> USE SequenceLockAssumption DEF SeqInv, TypeOK, Value, Index, kUninitialized, writer
<1>1. CASE TryRead(r)
  <2>1. CASE Odd(lock_)
    BY ZenonT(30), <1>1, <2>1 DEF TryRead, Odd
  <2>2. CASE ~Odd(lock_)
    <3>1. lock_ \in 0..MaxSeq
      BY <2>2 DEF Odd
    <3>0. seq_before' = [seq_before EXCEPT ![r] = lock_]
          /\ pc' = [pc EXCEPT ![r] = "copy"] /\ at' = [at EXCEPT ![r] = 1]
          /\ UNCHANGED <<lock_, words, src, next, written, dst>>
      BY <1>1, <2>2 DEF TryRead
    <3>2. TypeOK'
      BY <3>0, <3>1
    <3>3. ASSUME NEW q \in Readers, pc'[q] = "copy"
          PROVE  /\ seq_before'[q] <= lock_ /\ ~Odd(seq_before'[q])
                 /\ at'[q] >= 1
                 /\ lock_ = seq_before'[q] => \A i \in Index : i < at'[q] => dst[q][i] = words[i]
      BY <2>2, <3>0, <3>1, <3>3
    <3> QED
      BY <3>0, <3>2, <3>3
  <2> QED
    BY <2>1, <2>2
<1>2. CASE RelaxedCopyFromAtomic(r)
  <2>1. TypeOK'
    BY <1>2 DEF RelaxedCopyFromAtomic
  <2>2. ASSUME lock_ = seq_before[r], NEW i \in Index, i < at'[r]
        PROVE  dst'[r][i] = words[i]
    BY <1>2, <2>2 DEF RelaxedCopyFromAtomic
  <2> QED
    BY <1>2, <2>1, <2>2 DEF RelaxedCopyFromAtomic
<1>3. CASE TryReadReturn(r)
  BY <1>3 DEF TryReadReturn
<1> QED
  BY <1>1, <1>2, <1>3 DEF ReaderStep

\* The inductive invariant holds of every behaviour.
THEOREM SequenceLockInvariant == Spec => []SeqInv
<1>1. SeqInv /\ UNCHANGED vars => SeqInv'
  BY DEF SeqInv, TypeOK, vars, writer, reader
<1>2. SeqInv /\ [Next]_vars => SeqInv'
  BY <1>1, WriterInv, ReaderInv DEF Next
<1> QED
  BY SeqInvInit, <1>2, PTL DEF Spec

\* A successful TryRead returns one whole value, the last one written.
THEOREM SequenceLockReadsWholeValue == Spec => ReadsWholeValue
<1>1. ASSUME SeqInv, Next, NEW r \in Readers, pc[r] = "copy", pc'[r] = "true"
      PROVE  lock_ # kUninitialized /\ dst[r] = written
  <2>1. TryReadReturn(r)
    BY <1>1 DEF SeqInv, TypeOK, Next, WriterStep, ReaderStep, MarkInitialized, WriteBegin,
                RelaxedCopyToAtomic, WriteEnd, IncrementModificationCount, reader, writer,
                TryRead, RelaxedCopyFromAtomic, TryReadReturn
  <2>2. seq_before[r] = lock_ /\ at[r] = kNumWords + 1
    BY <1>1, <2>1 DEF TryReadReturn, SeqInv, TypeOK
  <2>3. next = 0 /\ lock_ # kUninitialized
    BY <1>1, <2>2 DEF SeqInv, TypeOK, kUninitialized
  <2>4. \A i \in Index : dst[r][i] = words[i]
    BY <1>1, <2>2, SequenceLockAssumption DEF SeqInv, TypeOK, Index
  <2> QED
    BY <1>1, <2>3, <2>4 DEF SeqInv, TypeOK, Value
<1>2. SeqInv /\ [Next]_vars =>
        [\A r \in Readers : pc[r] = "copy" /\ pc'[r] = "true" =>
            lock_ # kUninitialized /\ dst[r] = written]_vars
  BY <1>1
<1> QED
  BY SequenceLockInvariant, <1>2, PTL DEF Spec, ReadsWholeValue
===========================================================================
