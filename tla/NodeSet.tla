------------------------------ MODULE NodeSet ------------------------------
(***************************************************************************)
(* NodeSet of graphcycles.cc: the hash set of node indices behind in and   *)
(* out, with linear probing, deleted cells, and growth at three quarters.  *)
(* Table cells are numbered from 0.                                        *)
(***************************************************************************)
EXTENDS Integers, FiniteSets, Sequences

CONSTANTS
    kInline,     \* initial size, a power of two
    MaxTable,    \* bound: size of the table
    Values

VARIABLES
    table_, occupied_,
    elements     \* the set the table stands for

vars == <<table_, occupied_, elements>>

kEmpty == -1
kDel   == -2

Hash(a, size) == (a * 41) % size

Size(table) == Cardinality(DOMAIN table)

EmptyTable(size) == [i \in 0..(size - 1) |-> kEmpty]

RECURSIVE Probe(_, _, _, _, _)

\* The loop of FindIndex, from cell i with the first deleted cell seen so far;
\* -1 when a full turn finds no end (the loop would not end).
Probe(table, v, i, deleted_index, left) ==
    IF left = 0 THEN -1
    ELSE IF table[i] = v THEN i
    ELSE IF table[i] = kEmpty THEN (IF deleted_index # -1 THEN deleted_index ELSE i)
    ELSE Probe(table, v, (i + 1) % Size(table),
               IF table[i] = kDel /\ deleted_index = -1 THEN i ELSE deleted_index, left - 1)

FindIndex(table, v) == Probe(table, v, Hash(v, Size(table)), -1, Size(table))

contains(table, v) == FindIndex(table, v) # -1 /\ table[FindIndex(table, v)] = v

\* Double when 75% full.
Full(occupied, size) == occupied >= size - size \div 4

RECURSIVE InsertAll(_, _)

\* Grow: the elements of the old table, in the order of its cells, go to one
\* of twice the size; none of these insertions grows it again.
InsertAll(table, cells) ==
    IF cells = << >> THEN table
    ELSE InsertAll(IF Head(cells) >= 0 THEN [table EXCEPT ![FindIndex(table, Head(cells))] = Head(cells)]
                   ELSE table, Tail(cells))

Grow(table) ==
    InsertAll(EmptyTable(2 * Size(table)), [k \in 1..Size(table) |-> table[k - 1]])

insert(v) ==
    LET i == FindIndex(table_, v)
        t == [table_ EXCEPT ![i] = v]
        o == occupied_ + (IF table_[i] = kEmpty THEN 1 ELSE 0)
    IN  /\ i # -1 /\ table_[i] # v
        /\ \/ ~Full(o, Size(t)) /\ table_' = t /\ occupied_' = o
           \/ /\ Full(o, Size(t)) /\ Size(t) < MaxTable
              /\ table_' = Grow(t)
              /\ occupied_' = Cardinality({c \in DOMAIN t : t[c] >= 0})
        /\ elements' = elements \cup {v}

\* Mutant: an erased cell is empty again.
eraseEmpties(v) ==
    LET i == FindIndex(table_, v)
    IN  /\ i # -1 /\ table_[i] = v
        /\ table_' = [table_ EXCEPT ![i] = kEmpty]
        /\ elements' = elements \ {v}
        /\ UNCHANGED occupied_

erase(v) ==
    LET i == FindIndex(table_, v)
    IN  /\ i # -1 /\ table_[i] = v
        /\ table_' = [table_ EXCEPT ![i] = kDel]
        /\ elements' = elements \ {v}
        /\ UNCHANGED occupied_

clear ==
    /\ table_' = EmptyTable(kInline) /\ occupied_' = 0
    /\ elements' = {}

Init == table_ = EmptyTable(kInline) /\ occupied_ = 0 /\ elements = {}

Next == (\E v \in Values : insert(v) \/ erase(v)) \/ clear

Spec == Init /\ [][Next]_vars

-----------------------------------------------------------------------------

(***************************************************************************)
(* The table is the set: every element is found, once, and nothing else is;*)
(* FindIndex always comes to an end, since a cell stays empty however many *)
(* elements come and go.                                                   *)
(***************************************************************************)
TableIsSet ==
    /\ \A v \in Values : contains(table_, v) <=> v \in elements
    /\ \A v \in Values : FindIndex(table_, v) # -1
    /\ Cardinality({c \in DOMAIN table_ : table_[c] >= 0}) = Cardinality(elements)
=============================================================================
