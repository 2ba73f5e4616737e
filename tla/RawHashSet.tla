---------------------------- MODULE RawHashSet ----------------------------
(***************************************************************************)
(* raw_hash_set (absl/container/internal/raw_hash_set.h, raw_hash_set.cc): *)
(* the table behind flat_hash_map and its relatives.  An element is its    *)
(* hash: elements of the same hash differ by their slot only.              *)
(*                                                                         *)
(* PerTableSalt changes with every allocation; in debug builds an element  *)
(* may go to the last free slot of a group instead of the first.  Both are *)
(* chosen freely, the direction once per hash and operation.               *)
(***************************************************************************)
EXTENDS Integers, Sequences, FiniteSets, SequencesExt, Bitwise

CONSTANTS
    kWidth,        \* Group::kWidth
    Hashes,
    Limits         \* bounds, of which each behaviour follows one: see Init

VARIABLES c, limits, elements, erases

vars == <<c, limits, elements, erases>>

kEmpty    == -128
kDeleted  == -2
kSentinel == -1
NoElement == -1
NumClonedBytes == kWidth - 1

IsFull(b)           == b >= 0
IsEmptyOrDeleted(b) == b < kSentinel
H1(hash, salt) == (hash \div 128) ^^ salt
H2(hash)       == hash % 128

is_small(cap) == cap < kWidth - 1

CapacityToGrowth(cap) == IF kWidth = 8 /\ cap = 7 THEN 6 ELSE cap - cap \div 8

GrowthToLowerboundCapacity(growth) ==
    IF kWidth = 8 /\ growth = 7 THEN 8
    ELSE growth + (IF growth = 0 THEN 0 ELSE (growth - 1) \div 7)

NormalizeCapacity(n) == Min({cap \in {2^k - 1 : k \in 1..10} : n <= cap})
NextCapacity(n) == 2 * n + 1

-----------------------------------------------------------------------------

\* Mutant: the clone of a control byte is left as it was.
SetCtrlNoClone(t, i, h) == [t EXCEPT !.ctrl[i] = h]

SetCtrl(t, i, h) ==
    LET mask == t.cap + 1
    IN  [t EXCEPT !.ctrl[i] = h,
                  !.ctrl[((i - NumClonedBytes) % mask) + (NumClonedBytes % mask)] = h]

\* initialize_slots and ResetCtrl: the table is empty but for its size.
Fresh(cap, size, salt) ==
    [cap |-> cap, size |-> size, salt |-> salt,
     growth_left |-> IF cap = 0 THEN 0 ELSE CapacityToGrowth(cap) - size,
     ctrl |-> [i \in 0..(cap + NumClonedBytes) |-> IF i = cap THEN kSentinel ELSE kEmpty],
     slots |-> [i \in 0..(cap - 1) |-> NoElement]]

\* The n-th group of the probe sequence of a hash.
probe(t, hash, n) == (H1(hash, t.salt) + kWidth * ((n * (n + 1)) \div 2)) % (t.cap + 1)
Probes(t) == 0..(t.cap \div kWidth)

MaskEmpty(t, pos)          == {k \in 0..(kWidth - 1) : t.ctrl[pos + k] = kEmpty}
MaskEmptyOrDeleted(t, pos) == {k \in 0..(kWidth - 1) : IsEmptyOrDeleted(t.ctrl[pos + k])}

find_first_non_full(t, hash, backwards) ==
    LET n == Min({m \in Probes(t) : MaskEmptyOrDeleted(t, probe(t, hash, m)) # {}})
        mask == MaskEmptyOrDeleted(t, probe(t, hash, n))
        bit == IF ~is_small(t.cap) /\ backwards[hash] THEN Max(mask) ELSE Min(mask)
    IN  (probe(t, hash, n) + bit) % (t.cap + 1)

\* find of the element in slot i.
Finds(t, i) ==
    \E n \in Probes(t) :
        /\ \E k \in 0..(kWidth - 1) :
             /\ (probe(t, t.slots[i], n) + k) % (t.cap + 1) = i
             /\ t.ctrl[probe(t, t.slots[i], n) + k] = H2(t.slots[i])
        /\ \A m \in 0..(n - 1) : MaskEmpty(t, probe(t, t.slots[i], m)) = {}

Place(t, i, hash) == [SetCtrl(t, i, H2(hash)) EXCEPT !.slots[i] = hash]

FullSlots(t) == {i \in 0..(t.cap - 1) : IsFull(t.ctrl[i])}

-----------------------------------------------------------------------------

RECURSIVE Reinsert(_, _, _, _)
Reinsert(new, old, i, backwards) ==
    IF i = old.cap THEN new
    ELSE Reinsert(IF IsFull(old.ctrl[i])
                  THEN Place(new, find_first_non_full(new, old.slots[i], backwards), old.slots[i])
                  ELSE new, old, i + 1, backwards)

resize(t, cap, salt, backwards) == Reinsert(Fresh(cap, t.size, salt), t, 0, backwards)

ConvertDeletedToEmptyAndFullToDeleted(t) ==
    LET Convert(b) == IF IsFull(b) THEN kDeleted ELSE kEmpty
    IN  [t EXCEPT !.ctrl = [i \in DOMAIN t.ctrl |->
            IF i = t.cap THEN kSentinel ELSE Convert(t.ctrl[IF i < t.cap THEN i ELSE i - t.cap - 1])]]

\* The body of the loop of DropDeletesWithoutResize at slot i, to which the
\* loop returns after a swap.
RECURSIVE DropLoop(_, _, _)
DropLoop(t, i, backwards) ==
    IF i = t.cap THEN t
    ELSE IF t.ctrl[i] # kDeleted THEN DropLoop(t, i + 1, backwards)
    ELSE LET hash  == t.slots[i]
             new_i == find_first_non_full(t, hash, backwards)
             probe_index(pos) == ((pos - probe(t, hash, 0)) % (t.cap + 1)) \div kWidth
         IN  IF probe_index(new_i) = probe_index(i)
             THEN DropLoop(SetCtrl(t, i, H2(hash)), i + 1, backwards)
             ELSE IF t.ctrl[new_i] = kEmpty
             THEN DropLoop([SetCtrl(Place(t, new_i, hash), i, kEmpty) EXCEPT !.slots[i] = NoElement],
                           i + 1, backwards)
             ELSE DropLoop([Place(t, new_i, hash) EXCEPT !.slots[i] = t.slots[new_i]], i, backwards)

\* Mutant: growth_left is not computed anew.
DropDeletesKeepGrowth(t, backwards) ==
    DropLoop(ConvertDeletedToEmptyAndFullToDeleted(t), 0, backwards)

DropDeletesWithoutResize(t, backwards) ==
    [DropLoop(ConvertDeletedToEmptyAndFullToDeleted(t), 0, backwards)
        EXCEPT !.growth_left = CapacityToGrowth(t.cap) - t.size]

rehash_and_grow_if_necessary(t, salt, backwards) ==
    IF t.cap > kWidth /\ t.size * 32 <= t.cap * 25
    THEN DropDeletesWithoutResize(t, backwards)
    ELSE resize(t, NextCapacity(t.cap), salt, backwards)

\* prepare_insert and emplace_at; rehashes is
\* should_rehash_for_bug_detection_on_insert.
prepare_insert(t, hash, rehashes, salt, backwards) ==
    LET t1 == IF rehashes
              THEN resize(t, IF t.growth_left > 0 THEN t.cap ELSE NextCapacity(t.cap), salt, backwards)
              ELSE t
        Stuck == ~rehashes /\ t1.growth_left = 0 /\ t1.ctrl[find_first_non_full(t1, hash, backwards)] # kDeleted
        t2 == IF Stuck THEN rehash_and_grow_if_necessary(t1, salt, backwards) ELSE t1
        target == find_first_non_full(t2, hash, backwards)
    IN  [Place(t2, target, hash) EXCEPT
            !.size = @ + 1,
            !.growth_left = @ - (IF t2.ctrl[target] = kEmpty THEN 1 ELSE 0)]

\* Mutant: a run of exactly kWidth bytes without an empty one is overlooked.
was_never_fullOffByOne(t, i) ==
    LET before == MaskEmpty(t, (i - kWidth) % (t.cap + 1))
        after  == MaskEmpty(t, i)
    IN  before # {} /\ after # {} /\ Min(after) + (kWidth - 1 - Max(before)) <= kWidth

was_never_full(t, i) ==
    LET before == MaskEmpty(t, (i - kWidth) % (t.cap + 1))
        after  == MaskEmpty(t, i)
    IN  before # {} /\ after # {} /\ Min(after) + (kWidth - 1 - Max(before)) < kWidth

EraseMetaOnly(t, i) ==
    [SetCtrl(t, i, IF was_never_full(t, i) THEN kEmpty ELSE kDeleted) EXCEPT
        !.size = @ - 1,
        !.growth_left = @ + (IF was_never_full(t, i) THEN 1 ELSE 0),
        !.slots[i] = NoElement]

-----------------------------------------------------------------------------

\* What the table becomes when elements are inserted, one after the other.
RECURSIVE Inserted(_, _, _, _)
Inserted(t, hashes, salt, backwards) ==
    IF hashes = << >> THEN {t}
    ELSE UNION {Inserted(u, Tail(hashes), salt, backwards) :
                    u \in {prepare_insert(t, Head(hashes), FALSE, salt, backwards)}}

\* The constructor from a range: limits.initial elements into a table of
\* limits.buckets slots.  The other fields bound what happens next.
Init ==
    /\ limits \in Limits
    /\ \E salt \in limits.salts, backwards \in limits.directions :
         c \in Inserted(Fresh(limits.buckets, 0, salt), limits.initial, salt, backwards)
    /\ elements = [h \in Hashes |-> Len(SelectSeq(limits.initial, LAMBDA e : e = h))]
    /\ erases = 0

\* insert of an element that is not in the table.
insert ==
    \E h \in Hashes, salt \in limits.salts, backwards \in limits.directions, rehashes \in limits.rehashes :
        /\ elements[h] < limits.counts[h]
        /\ \E t \in {prepare_insert(c, h, rehashes, salt, backwards)} :
             t.cap <= limits.capacity /\ c' = t
        /\ elements' = [elements EXCEPT ![h] = @ + 1]
        /\ UNCHANGED <<limits, erases>>

erase ==
    \E i \in FullSlots(c) :
        /\ erases < limits.erases
        /\ c' = EraseMetaOnly(c, i)
        /\ elements' = [elements EXCEPT ![c.slots[i]] = @ - 1]
        /\ erases' = erases + 1
        /\ UNCHANGED limits

\* clear of a table below 128 slots reuses the array.
clear ==
    /\ c.cap # 0 /\ c.cap < 128 /\ erases < limits.erases
    /\ c' = Fresh(c.cap, 0, c.salt)
    /\ elements' = [h \in Hashes |-> 0]
    /\ erases' = erases + 1
    /\ UNCHANGED limits

rehash ==
    \E n \in limits.sizes, salt \in limits.salts, backwards \in limits.directions :
        \E m \in {NormalizeCapacity(n | GrowthToLowerboundCapacity(c.size))} :
            /\ ~ (n = 0 /\ c.cap = 0)
            /\ m <= limits.capacity
            /\ c' = IF n = 0 /\ c.size = 0 THEN Fresh(0, 0, salt)
                    ELSE IF n = 0 \/ m > c.cap THEN resize(c, m, salt, backwards)
                    ELSE c
            /\ UNCHANGED <<limits, elements, erases>>

reserve ==
    \E n \in limits.sizes, salt \in limits.salts, backwards \in limits.directions :
        \E m \in {NormalizeCapacity(GrowthToLowerboundCapacity(n))} :
            /\ n > c.size + c.growth_left
            /\ m <= limits.capacity
            /\ c' = resize(c, m, salt, backwards)
            /\ UNCHANGED <<limits, elements, erases>>

Next == insert \/ erase \/ clear \/ rehash \/ reserve

Spec == Init /\ [][Next]_vars

-----------------------------------------------------------------------------

TypeOK ==
    /\ c.ctrl \in [0..(c.cap + NumClonedBytes) -> {kEmpty, kDeleted, kSentinel} \cup {H2(h) : h \in Hashes}]
    /\ c.slots \in [0..(c.cap - 1) -> Hashes \cup {NoElement}]
    /\ c.growth_left \in Nat /\ c.size \in Nat

(***************************************************************************)
(* Every element that was inserted and not erased is in the table once and *)
(* find reaches it, past the tombstones and holes that erase and the two   *)
(* kinds of rehash leave; a search for anything else comes to an end.      *)
(***************************************************************************)
EveryElementFound ==
    /\ \A i \in FullSlots(c) : Finds(c, i)
    /\ \A h \in Hashes : Cardinality({i \in FullSlots(c) : c.slots[i] = h}) = elements[h]
    /\ \A h \in Hashes : \E n \in Probes(c) : MaskEmpty(c, probe(c, h, n)) # {}

(***************************************************************************)
(* growth_left is what the load factor leaves after elements and           *)
(* tombstones, and is never less than nothing.                             *)
(***************************************************************************)
GrowthIsCounted ==
    c.cap # 0 =>
        /\ c.growth_left >= 0
        /\ c.growth_left = CapacityToGrowth(c.cap) - c.size
                           - Cardinality({i \in 0..(c.cap - 1) : c.ctrl[i] = kDeleted})

(***************************************************************************)
(* The control bytes past the sentinel repeat the first ones, so that a    *)
(* group that wraps around sees what the table holds.                      *)
(***************************************************************************)
ClonesAgree ==
    /\ c.ctrl[c.cap] = kSentinel
    /\ \A i \in 0..(NumClonedBytes - 1) :
         c.ctrl[c.cap + 1 + i] = IF i < c.cap THEN c.ctrl[i] ELSE kEmpty
=============================================================================
