--------------------------- MODULE SequenceLock ---------------------------
(***************************************************************************)
(* SequenceLock (absl/flags/internal/sequence_lock.h): words that one      *)
(* writer at a time stores and any number of readers load without a lock.  *)
(* A step is one atomic access; the fences of the code make the order of   *)
(* the steps the order of the program.                                     *)
(***************************************************************************)
EXTENDS Integers

CONSTANTS
    Readers,
    kNumWords,   \* words of the value
    Values,      \* what a word may hold
    MaxSeq       \* bound on lock_

ASSUME SequenceLockAssumption == kNumWords \in Nat \ {0} /\ MaxSeq \in Nat

VARIABLES
    lock_, words,
    src, next,               \* the writer: what it copies, and the next word
    pc, seq_before, dst, at, \* the readers: TryRead and its copy
    written                  \* the value stored by the last complete Write

writer == <<lock_, words, src, next, written>>
reader == <<pc, seq_before, dst, at>>
vars == <<writer, reader>>

Index == 1..kNumWords
Value == [Index -> Values]

kUninitialized == -1
Odd(n) == n % 2 = 1

\* Before the first Write the words hold anything.
Init ==
    /\ lock_ = kUninitialized
    /\ words \in Value /\ src = words /\ written = words
    /\ next = 0
    /\ pc = [r \in Readers |-> "idle"]
    /\ seq_before = [r \in Readers |-> 0]
    /\ dst = [r \in Readers |-> words]
    /\ at = [r \in Readers |-> 0]

\* The flag's Init stores the default value, without a Write.
MarkInitialized ==
    /\ lock_ = kUninitialized /\ next = 0
    /\ lock_' = 0
    /\ words' \in Value /\ written' = words'
    /\ UNCHANGED <<src, next, reader>>

\* Write: calls are synchronized by the caller.
WriteBegin ==
    /\ next = 0 /\ lock_ # kUninitialized /\ lock_ + 2 <= MaxSeq
    /\ lock_' = lock_ + 1
    /\ src' \in Value
    /\ next' = 1
    /\ UNCHANGED <<words, written, reader>>

\* One store of RelaxedCopyToAtomic
RelaxedCopyToAtomic ==
    /\ next \in Index
    /\ words' = [words EXCEPT ![next] = src[next]]
    /\ next' = next + 1
    /\ UNCHANGED <<lock_, src, written, reader>>

\* Mutant: the counter is back to what it was.
WriteEndSameCount ==
    /\ next = kNumWords + 1
    /\ lock_' = lock_ - 1
    /\ next' = 0
    /\ written' = src
    /\ UNCHANGED <<words, src, reader>>

WriteEnd ==
    /\ next = kNumWords + 1
    /\ lock_' = lock_ + 1
    /\ next' = 0
    /\ written' = src
    /\ UNCHANGED <<words, src, reader>>

\* Synchronized with Write by the caller, too.
IncrementModificationCount ==
    /\ next = 0 /\ lock_ # kUninitialized /\ lock_ + 2 <= MaxSeq
    /\ lock_' = lock_ + 2
    /\ UNCHANGED <<words, src, next, written, reader>>

\* Mutant: a reader does not mind a Write in progress.
TryReadAnyway(r) ==
    /\ pc[r] \in {"idle", "true", "false"}
    /\ seq_before' = [seq_before EXCEPT ![r] = lock_]
    /\ pc' = [pc EXCEPT ![r] = "copy"]
    /\ at' = [at EXCEPT ![r] = 1]
    /\ UNCHANGED <<writer, dst>>

TryRead(r) ==
    /\ pc[r] \in {"idle", "true", "false"}
    /\ IF Odd(lock_)
       THEN pc' = [pc EXCEPT ![r] = "false"] /\ UNCHANGED <<seq_before, at>>
       ELSE /\ seq_before' = [seq_before EXCEPT ![r] = lock_]
            /\ pc' = [pc EXCEPT ![r] = "copy"]
            /\ at' = [at EXCEPT ![r] = 1]
    /\ UNCHANGED <<writer, dst>>

\* One load of RelaxedCopyFromAtomic
RelaxedCopyFromAtomic(r) ==
    /\ pc[r] = "copy" /\ at[r] \in Index
    /\ dst' = [dst EXCEPT ![r][at[r]] = words[at[r]]]
    /\ at' = [at EXCEPT ![r] = @ + 1]
    /\ UNCHANGED <<writer, pc, seq_before>>

TryReadReturn(r) ==
    /\ pc[r] = "copy" /\ at[r] = kNumWords + 1
    /\ pc' = [pc EXCEPT ![r] = IF seq_before[r] = lock_ THEN "true" ELSE "false"]
    /\ UNCHANGED <<writer, seq_before, dst, at>>

WriterStep ==
    MarkInitialized \/ WriteBegin \/ RelaxedCopyToAtomic \/ WriteEnd \/ IncrementModificationCount

ReaderStep(r) == TryRead(r) \/ RelaxedCopyFromAtomic(r) \/ TryReadReturn(r)

Next == WriterStep \/ \E r \in Readers : ReaderStep(r)

Spec == Init /\ [][Next]_vars

-----------------------------------------------------------------------------

TypeOK ==
    /\ lock_ \in {kUninitialized} \cup 0..MaxSeq
    /\ words \in Value /\ src \in Value /\ written \in Value
    /\ next \in 0..(kNumWords + 1)
    /\ pc \in [Readers -> {"idle", "copy", "true", "false"}]
    /\ seq_before \in [Readers -> 0..MaxSeq]
    /\ dst \in [Readers -> Value]
    /\ at \in [Readers -> 0..(kNumWords + 1)]

(***************************************************************************)
(* TryRead returns true only with the value of one Write, entire, and the  *)
(* last one complete when it returns.                                      *)
(***************************************************************************)
ReadsWholeValue ==
    [][\A r \in Readers : pc[r] = "copy" /\ pc'[r] = "true" =>
          lock_ # kUninitialized /\ dst[r] = written]_vars

\* What makes it so, inductively: the counter is odd exactly while the words
\* are in transition, and as long as the counter is what a reader saw, the
\* words it has copied are the words that are there.
SeqInv ==
    /\ TypeOK
    /\ next = 0 => lock_ = kUninitialized \/ ~Odd(lock_)
    /\ next = 0 => written = words
    /\ next # 0 => lock_ # kUninitialized /\ Odd(lock_) /\ lock_ < MaxSeq
    /\ next # 0 => \A i \in Index : i < next => words[i] = src[i]
    /\ \A r \in Readers : pc[r] = "copy" =>
         /\ seq_before[r] <= lock_ /\ ~Odd(seq_before[r])
         /\ at[r] >= 1
         /\ lock_ = seq_before[r] => \A i \in Index : i < at[r] => dst[r][i] = words[i]
===========================================================================
