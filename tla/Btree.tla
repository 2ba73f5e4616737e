------------------------------- MODULE Btree -------------------------------
(***************************************************************************)
(* The B-tree of btree_set, btree_map and their multi versions             *)
(* (container/internal/btree.h).  A node holds its children, which stands  *)
(* for the parent pointers and positions; an iterator is the path to a     *)
(* node and a position in it; and the node that rightmost() points to is   *)
(* marked.  Only the order of the values matters: at rest the values of    *)
(* the tree are 2, 4, ... in this order, and a value to insert is an odd   *)
(* number between two of them.                                             *)
(***************************************************************************)
EXTENDS Integers, Sequences, SequencesExt

CONSTANTS
    kNodeSlots,
    Starts,         \* bounds: sizes of the tree to start with, how it has grown,
                    \* the greatest size, and how many calls follow
    RangeLengths    \* how many values are erased at a time

kMinNodeValues == kNodeSlots \div 2

VARIABLES
    root, size,
    limits,         \* bounds on the size and on the number of calls
    kept            \* no call has put a value in the wrong place or lost one,
                    \* returned the wrong iterator or failed an assertion

vars == <<root, size, limits, kept>>

-----------------------------------------------------------------------------
(* Nodes, with children and positions counted from 0 *)

Leaf(max, keys, rightmost) ==
    [max |-> max, keys |-> keys, kids |-> << >>, rightmost |-> rightmost]
Internal(keys, kids) ==
    [max |-> kNodeSlots, keys |-> keys, kids |-> kids, rightmost |-> FALSE]
EmptyNode == Leaf(0, << >>, TRUE)

is_leaf(n) == n.kids = << >>
count(n) == Len(n.keys)
child(n, i) == n.kids[i + 1]
key(n, i) == n.keys[i + 1]

Take(s, n) == SubSeq(s, 1, n)
Drop(s, n) == SubSeq(s, n + 1, Len(s))

RECURSIVE At(_, _)
At(n, path) == IF path = << >> THEN n ELSE At(child(n, path[1]), Tail(path))

RECURSIVE Put(_, _, _)
Put(n, path, new) ==
    IF path = << >> THEN new
    ELSE [n EXCEPT !.kids[path[1] + 1] = Put(@, Tail(path), new)]

RECURSIVE Values(_)
Values(n) ==
    IF is_leaf(n) THEN n.keys
    ELSE Values(child(n, 0)) \o
         FlattenSeq([i \in DOMAIN n.keys |-> <<n.keys[i]>> \o Values(child(n, i))])

emplace_value(n, i, v) == [n EXCEPT !.keys = InsertAt(@, i + 1, v)]

\* Moves values of child i + 1 of p, and their subtrees, to child i.
rebalance_right_to_left(p, i, to_move) ==
    LET left == child(p, i)
        right == child(p, i + 1)
    IN  [p EXCEPT
            !.keys[i + 1] = key(right, to_move - 1),
            !.kids[i + 1] = [left EXCEPT
                !.keys = @ \o <<key(p, i)>> \o Take(right.keys, to_move - 1),
                !.kids = @ \o (IF is_leaf(left) THEN << >> ELSE Take(right.kids, to_move))],
            !.kids[i + 2] = [right EXCEPT
                !.keys = Drop(@, to_move),
                !.kids = IF is_leaf(right) THEN << >> ELSE Drop(@, to_move)]]

rebalance_left_to_right(p, i, to_move) ==
    LET left == child(p, i)
        right == child(p, i + 1)
        stay == count(left) - to_move
    IN  [p EXCEPT
            !.keys[i + 1] = key(left, stay),
            !.kids[i + 1] = [left EXCEPT
                !.keys = Take(@, stay),
                !.kids = IF is_leaf(left) THEN << >> ELSE Take(@, stay + 1)],
            !.kids[i + 2] = [right EXCEPT
                !.keys = Drop(left.keys, stay + 1) \o <<key(p, i)>> \o @,
                !.kids = (IF is_leaf(right) THEN << >> ELSE Drop(left.kids, stay + 1)) \o @]]

\* The new node gets most of the values, none or half of them; the last value
\* that stays moves up.
split(p, i, insert_position) ==
    LET n == child(p, i)
        moved == IF insert_position = 0 THEN count(n) - 1
                 ELSE IF insert_position = kNodeSlots THEN 0 ELSE count(n) \div 2
        stay == count(n) - moved - 1
        dest == [max |-> kNodeSlots, keys |-> Drop(n.keys, stay + 1),
                 kids |-> IF is_leaf(n) THEN << >> ELSE Drop(n.kids, stay + 1),
                 rightmost |-> n.rightmost]
    IN  [p EXCEPT
            !.keys = InsertAt(@, i + 1, key(n, stay)),
            !.kids = InsertAt([@ EXCEPT ![i + 1] =
                        [n EXCEPT !.keys = Take(@, stay), !.rightmost = FALSE,
                                  !.kids = IF is_leaf(n) THEN << >> ELSE Take(@, stay + 1)]],
                        i + 2, dest)]

\* Mutant: rightmost() is left pointing to a node that is deleted.
merge_nodesDangling(p, i) ==
    LET left == child(p, i)
        right == child(p, i + 1)
    IN  [p EXCEPT
            !.keys = RemoveAt(@, i + 1),
            !.kids = RemoveAt([@ EXCEPT ![i + 1] =
                        [left EXCEPT !.keys = @ \o <<key(p, i)>> \o right.keys,
                                     !.kids = @ \o right.kids]], i + 2)]

merge_nodes(p, i) ==
    LET left == child(p, i)
        right == child(p, i + 1)
    IN  [p EXCEPT
            !.keys = RemoveAt(@, i + 1),
            !.kids = RemoveAt([@ EXCEPT ![i + 1] =
                        [left EXCEPT !.keys = @ \o <<key(p, i)>> \o right.keys,
                                     !.kids = @ \o right.kids,
                                     !.rightmost = @ \/ right.rightmost]], i + 2)]

-----------------------------------------------------------------------------
(* Iterators *)

Iter(path, pos) == [path |-> path, pos |-> pos]
Node(r, it) == At(r, it.path)

RECURSIVE RightEnd(_, _)
RightEnd(r, path) ==
    IF is_leaf(At(r, path)) THEN path ELSE RightEnd(r, Append(path, count(At(r, path))))

RECURSIVE LeftEnd(_, _)
LeftEnd(r, path) == IF is_leaf(At(r, path)) THEN path ELSE LeftEnd(r, Append(path, 0))

end(r) == Iter(RightEnd(r, << >>), count(At(r, RightEnd(r, << >>))))

\* Goes up from the end, or the start, of a node.
RECURSIVE Ascend(_, _)
Ascend(r, it) ==
    IF it.pos = count(Node(r, it)) /\ it.path # << >>
    THEN Ascend(r, Iter(Front(it.path), Last(it.path))) ELSE it

RECURSIVE Descend(_, _)
Descend(r, it) ==
    IF it.pos < 0 /\ it.path # << >>
    THEN Descend(r, Iter(Front(it.path), Last(it.path) - 1)) ELSE it

increment(r, it) ==
    IF ~is_leaf(Node(r, it)) THEN Iter(LeftEnd(r, Append(it.path, it.pos + 1)), 0)
    ELSE LET next == Iter(it.path, it.pos + 1)
             up == Ascend(r, next)
         IN  IF up.pos = count(Node(r, up)) THEN next ELSE up

decrement(r, it) ==
    IF ~is_leaf(Node(r, it))
    THEN LET path == RightEnd(r, Append(it.path, it.pos)) IN Iter(path, count(At(r, path)) - 1)
    ELSE LET next == Iter(it.path, it.pos - 1)
             up == Descend(r, next)
         IN  IF up.pos < 0 THEN next ELSE up

\* internal_locate, from the node at path: the value, or where in a leaf it
\* belongs.
RECURSIVE internal_locate(_, _, _)
internal_locate(r, path, k) ==
    LET n == At(r, path)
        pos == Len(SelectSeq(n.keys, LAMBDA x : x < k))
    IN  IF is_leaf(n) \/ (pos < count(n) /\ key(n, pos) = k) THEN Iter(path, pos)
        ELSE internal_locate(r, Append(path, pos), k)

-----------------------------------------------------------------------------
(* Making room *)

Result(r, it, ok) == [root |-> r, iter |-> it, ok |-> ok]

\* The left sibling takes to_move values, and the iterator follows its value.
RoomOnLeft(r, it, to_move) ==
    LET up == Front(it.path)
        i == Last(it.path)
        left == At(r, Append(up, i - 1))
        pos == it.pos - to_move
    IN  Result(Put(r, up, rebalance_right_to_left(At(r, up), i - 1, to_move)),
               IF pos < 0 THEN Iter(Append(up, i - 1), pos + count(left) + to_move + 1)
                          ELSE Iter(it.path, pos),
               count(Node(r, it)) >= count(left) /\ to_move <= count(Node(r, it)))

RoomOnRight(r, it, to_move) ==
    LET up == Front(it.path)
        i == Last(it.path)
        right == At(r, Append(up, i + 1))
        stay == count(Node(r, it)) - to_move
    IN  Result(Put(r, up, rebalance_left_to_right(At(r, up), i, to_move)),
               IF it.pos > stay THEN Iter(Append(up, i + 1), it.pos - stay - 1) ELSE it,
               count(Node(r, it)) >= count(right) /\ to_move <= count(Node(r, it)))

SplitInto(r, it, ok, p) ==
    LET up == Front(it.path)
        i == Last(it.path)
        stay == count(child(p, i))
    IN  Result(Put(r, up, p),
               IF it.pos > stay THEN Iter(Append(up, i + 1), it.pos - stay - 1) ELSE it, ok)

Split(r, it, ok) == SplitInto(r, it, ok, split(At(r, Front(it.path)), Last(it.path), it.pos))

\* The node is at the position that the iterator for its parent has kept track of.
SplitBelow(above, pos) ==
    Split(above.root, Iter(Append(above.iter.path, above.iter.pos), pos), above.ok)

\* When the parent is full, room is made there first.
RECURSIVE rebalance_or_split(_, _)
rebalance_or_split(r, it) ==
    IF it.path = << >>
    THEN Split(Internal(<< >>, <<r>>), Iter(<<0>>, it.pos), count(r) = kNodeSlots)
    ELSE
    LET i == Last(it.path)
        up == Front(it.path)
        parent == At(r, up)
        left == child(parent, i - 1)
        right == child(parent, i + 1)
        to_left == Max({1, (kNodeSlots - count(left)) \div (IF it.pos < kNodeSlots THEN 2 ELSE 1)})
        to_right == Max({1, (kNodeSlots - count(right)) \div (IF it.pos > 0 THEN 2 ELSE 1)})
    IN  CASE i > 0 /\ count(left) < kNodeSlots
                   /\ (it.pos - to_left >= 0 \/ count(left) + to_left < kNodeSlots) ->
               RoomOnLeft(r, it, to_left)
          [] OTHER ->
        CASE i < count(parent) /\ count(right) < kNodeSlots
                   /\ (it.pos <= count(Node(r, it)) - to_right \/ count(right) + to_right < kNodeSlots) ->
               RoomOnRight(r, it, to_right)
          [] OTHER ->
        IF count(parent) = kNodeSlots
        THEN SplitBelow(rebalance_or_split(r, Iter(up, i)), it.pos)
        ELSE Split(r, it, TRUE)

\* A root that is smaller than a full node grows.
Room(r, it) ==
    LET max == Node(r, it).max
    IN  IF count(Node(r, it)) < max THEN Result(r, it, TRUE)
        ELSE IF max < kNodeSlots
        THEN Result([r EXCEPT !.max = Min({kNodeSlots, 2 * max})], it, it.path = << >>)
        ELSE rebalance_or_split(r, it)

Emplaced(room, v) ==
    LET n == Node(room.root, room.iter)
    IN  Result(Put(room.root, room.iter.path, emplace_value(n, room.iter.pos, v)), room.iter,
               room.ok /\ is_leaf(n) /\ count(n) < n.max)

\* A value for an internal position goes to the end of the leaf before it.
internal_emplace(r, position, v) ==
    LET before == decrement(r, position)
    IN  Emplaced(Room(r, IF is_leaf(Node(r, position)) THEN position
                         ELSE Iter(before.path, before.pos + 1)), v)

-----------------------------------------------------------------------------
(* Erasing *)

\* Yields also whether nodes were merged.
try_merge_or_rebalance(r, it) ==
    LET up == Front(it.path)
        i == Last(it.path)
        parent == At(r, up)
        n == Node(r, it)
        left == child(parent, i - 1)
        right == child(parent, i + 1)
        from_right == Min({(count(right) - count(n)) \div 2, count(right) - 1})
        from_left == Min({(count(left) - count(n)) \div 2, count(left) - 1})
        Then(p, at, merged) == [root |-> Put(r, up, p), iter |-> at, merged |-> merged]
    IN  CASE i > 0 /\ 1 + count(left) + count(n) <= kNodeSlots ->
               Then(merge_nodes(parent, i - 1), Iter(Append(up, i - 1), it.pos + 1 + count(left)), TRUE)
          [] OTHER ->
        CASE i < count(parent) /\ 1 + count(n) + count(right) <= kNodeSlots ->
               Then(merge_nodes(parent, i), it, TRUE)
          [] OTHER ->
        CASE i < count(parent) /\ count(right) > kMinNodeValues /\ (count(n) = 0 \/ it.pos > 0) ->
               Then(rebalance_right_to_left(parent, i, from_right), it, FALSE)
          [] OTHER ->
        CASE i > 0 /\ count(left) > kMinNodeValues /\ (count(n) = 0 \/ it.pos < count(n)) ->
               Then(rebalance_left_to_right(parent, i - 1, from_left), Iter(it.path, it.pos + from_left), FALSE)
          [] OTHER -> Then(parent, it, FALSE)

try_shrink(r) ==
    IF count(r) > 0 THEN r ELSE IF is_leaf(r) THEN EmptyNode ELSE child(r, 0)

Shrunk(r, res) ==
    Result(try_shrink(r),
           IF count(r) = 0 /\ ~is_leaf(r) THEN Iter(Tail(res.path), res.pos) ELSE res, TRUE)

\* The loop of rebalance_after_delete.  Its result moves with the nodes: it is the
\* iterator on the first iteration, and later a position that is reached by the
\* given path from the child the iterator is at.
RECURSIVE Rebalance(_, _, _, _, _), GoUp(_, _)
Rebalance(r, it, first, below, pos) ==
    LET Res(i) == IF first THEN i ELSE Iter(i.path \o <<i.pos>> \o below, pos)
        Tried(tried) == IF tried.merged THEN GoUp(tried, Res(tried.iter))
                        ELSE Result(tried.root, Res(tried.iter), TRUE)
    IN  IF it.path = << >> THEN Shrunk(r, Res(it))
        ELSE IF count(Node(r, it)) >= kMinNodeValues THEN Result(r, Res(it), TRUE)
        ELSE Tried(try_merge_or_rebalance(r, it))

GoUp(tried, res) ==
    LET up == Front(tried.iter.path)
    IN  Rebalance(tried.root, Iter(up, Last(tried.iter.path)), FALSE,
                  Drop(res.path, Len(up) + 1), res.pos)

\* From the end of a node the result moves on to the next value.
OffEnd(done) ==
    LET n == Node(done.root, done.iter)
    IN  IF done.root = EmptyNode THEN Result(EmptyNode, end(EmptyNode), TRUE)
        ELSE IF done.iter.pos = count(n)
        THEN Result(done.root, increment(done.root, Iter(done.iter.path, count(n) - 1)), TRUE)
        ELSE done

rebalance_after_delete(r, it) == OffEnd(Rebalance(r, it, TRUE, << >>, 0))

\* Values of an internal node take the children behind them along.
remove_values(n, i, to_erase) ==
    [n EXCEPT !.keys = Take(@, i) \o Drop(@, i + to_erase),
              !.kids = IF is_leaf(n) THEN << >> ELSE Take(@, i + 1) \o Drop(@, i + 1 + to_erase)]

Advanced(done, ok) == Result(done.root, increment(done.root, done.iter), done.ok /\ ok)

\* A value in an internal node is replaced by the last one of the leaf before it.
erase(r, it) ==
    LET before == decrement(r, it)
        leaf == Node(r, before)
        filled == Put(r, it.path, [Node(r, it) EXCEPT !.keys[it.pos + 1] = key(leaf, before.pos)])
    IN  IF is_leaf(Node(r, it))
        THEN rebalance_after_delete(Put(r, it.path, remove_values(Node(r, it), it.pos, 1)), it)
        ELSE Advanced(rebalance_after_delete(
                        Put(filled, before.path, remove_values(leaf, before.pos, 1)), before),
                      is_leaf(leaf))

\* The loop of erase_range: what there is to erase in a leaf goes at once.
RECURSIVE EraseFrom(_, _)
EraseFrom(done, n) ==
    LET here == Node(done.root, done.iter)
        to_erase == Min({n, count(here) - done.iter.pos})
    IN  IF n = 0 THEN done
        ELSE IF is_leaf(here)
        THEN EraseFrom(rebalance_after_delete(
                         Put(done.root, done.iter.path, remove_values(here, done.iter.pos, to_erase)),
                         done.iter), n - to_erase)
        ELSE EraseFrom(erase(done.root, done.iter), n - 1)

\* The n values from begin up to last: a range within one node goes at once, also
\* in an internal node.
erase_range(r, begin, last, n) ==
    IF n = size THEN Result(EmptyNode, end(EmptyNode), TRUE)
    ELSE IF begin.path = last.path
    THEN rebalance_after_delete(
           Put(r, begin.path, remove_values(Node(r, begin), begin.pos, last.pos - begin.pos)), begin)
    ELSE EraseFrom(Result(r, begin, TRUE), n)

-----------------------------------------------------------------------------
(* The calls.  Afterwards the values are renamed to 2, 4, ... again.        *)

RECURSIVE Renamed(_, _, _)
Renamed(n, from, by) ==
    LET Name(x) == IF x < from THEN x ELSE 2 * ((x + by) \div 2)
    IN  [n EXCEPT !.keys = [i \in DOMAIN @ |-> Name(@[i])],
                  !.kids = [i \in DOMAIN @ |-> Renamed(@[i], from, by)]]

Increasing(s) == \A i \in 2..Len(s) : s[i - 1] < s[i]

\* The call's outcome is as it should be: these values in their order, and an
\* iterator to the given one, or to the end.
Kept(done, found, values, at) ==
    /\ done.ok
    /\ Increasing(found) /\ Range(found) = values
    /\ IF at \in values THEN key(Node(done.root, done.iter), done.iter.pos) = at
                         ELSE done.iter = end(done.root)

\* by: the number of values that have been added, doubled.
Finish(done, values, at, by) ==
    /\ \E found \in {Values(done.root)} :
         /\ kept' = (kept /\ Kept(done, found, values, at))
         /\ size' = Len(found)
    /\ root' = Renamed(done.root, at, by)
    /\ limits.calls # 0 /\ limits' = [limits EXCEPT !.calls = IF @ > 0 THEN @ - 1 ELSE @]

Stored == {2 * i : i \in 1..size}

Root == IF size = 0 THEN Leaf(1, << >>, TRUE) ELSE root

insert_unique(v) ==
    /\ size < limits.size
    /\ \E done \in {internal_emplace(Root, internal_locate(Root, << >>, v), v)} :
         Finish(done, Stored \cup {v}, v, 2)

\* The iterator to the value that a call looks up.
Find(v) == IF v \in Stored THEN internal_locate(root, << >>, v) ELSE end(Root)

\* insert_hint_unique with a good hint, and insert_multi: before the next value,
\* wherever that is.
insert_hint(v) ==
    /\ size < limits.size
    /\ \E done \in {internal_emplace(Root, Find(v + 1), v)} :
         Finish(done, Stored \cup {v}, v, 2)

Erase(v, n) ==
    /\ v + 2 * (n - 1) \in Stored
    /\ \E done \in {IF n = 1 THEN erase(root, Find(v))
                      ELSE erase_range(root, Find(v), Find(v + 2 * n), n)} :
         Finish(done, Stored \ {v + 2 * i : i \in 0..(n - 1)}, v + 2 * n, -2 * n)

\* The tree into which 2, 4, ..., 2n are inserted from the back or from the front.
RECURSIVE Grown(_, _, _)
Grown(n, i, at) ==
    LET v == IF at = "back" THEN 2 * i ELSE 2 * (n - i + 1)
    IN  IF i = 0 THEN {Leaf(1, << >>, TRUE)}
        ELSE {internal_emplace(r, internal_locate(r, << >>, v), v).root : r \in Grown(n, i - 1, at)}

Init ==
    /\ \E start \in Starts :
         /\ root \in IF start.initial = 0 THEN {EmptyNode}
                      ELSE Grown(start.initial, start.initial, start.at)
         /\ size = start.initial
         /\ limits = [size |-> start.size, calls |-> start.calls]
    /\ kept = TRUE

Next ==
    \/ \E v \in 0..size : insert_unique(2 * v + 1) \/ insert_hint(2 * v + 1)
    \/ \E v \in Stored : \E n \in RangeLengths : Erase(v, n)

Spec == Init /\ [][Next]_vars

-----------------------------------------------------------------------------

RECURSIVE Depths(_)
Depths(n) ==
    IF is_leaf(n) THEN {0} ELSE UNION {{d + 1 : d \in Depths(n.kids[i])} : i \in DOMAIN n.kids}

RECURSIVE Paths(_, _)
Paths(n, path) ==
    {path} \cup UNION {Paths(n.kids[i], Append(path, i - 1)) : i \in DOMAIN n.kids}

\* Every call leaves exactly the values it should in their order and returns an
\* iterator to the value inserted or after those erased, whatever was split,
\* merged or rebalanced on the way, and no assertion fails (internal_emplace,
\* erase, erase_range).
CallsKeepOrder == kept

\* What verify() asserts: all leaves are equally deep, no node is empty or has
\* more values than slots, and rightmost() is the last leaf.
Verified ==
    /\ \E d \in Depths(root) : Depths(root) = {d}
    /\ size = 0 <=> root = EmptyNode
    /\ \A path \in Paths(root, << >>) : LET n == At(root, path) IN
         /\ size > 0 => count(n) \in 1..n.max
         /\ n.max = kNodeSlots \/ path = << >>
         /\ ~is_leaf(n) => Len(n.kids) = count(n) + 1
         /\ n.rightmost <=> path = RightEnd(root, << >>)
=============================================================================
