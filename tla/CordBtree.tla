----------------------------- MODULE CordBtree ------------------------------
(***************************************************************************)
(* The tree a Cord keeps its bytes in (strings/internal/cord_rep_btree.cc  *)
(* and .h) and the Cord operations on it (strings/cord.cc).  A cord holds  *)
(* one reference to a node; a node is a data edge (flat, external or a     *)
(* substring of one) or a btree node with up to kMaxCapacity edges of one  *)
(* height.  Copying a cord copies a reference, so nodes are shared between *)
(* cords, and every change of a cord must copy what others can see and may *)
(* change in place what they cannot: the reference counts decide.          *)
(*                                                                         *)
(* A heap is a sequence of nodes; a node freed during a call stays behind  *)
(* with ref = 0 until the call ends, when the live nodes are numbered      *)
(* again in the order the cords reach them.  A byte is the pair            *)
(* <<node, position>> of where it lies when a call starts; the bytes a     *)
(* call brings are <<0, 1>>, <<0, 2>>, ...  The slack at either end of     *)
(* edges_ is left out: edges is the sequence between begin() and end().    *)
(* Cords are large enough not to be stored inline, and carry no checksum.  *)
(***************************************************************************)
EXTENDS Integers, Sequences, SequencesExt, FiniteSets

CONSTANTS
  kMaxCapacity,    \* edges of a btree node
  kMaxHeight,      \* height above which a tree is rebuilt
  kMaxFlatLength,  \* bytes of a flat
  DataLengths,     \* lengths of the data passed to a call
  MaxBytes,        \* bound on the length of a cord
  Starts,          \* the cords to start from: see Init
  SharedTop        \* TRUE if GetAppendBuffer may meet a shared node of one edge

VARIABLES heap, root, calls, kept

vars == <<heap, root, calls, kept>>

Null == 0
Cords == {1, 2}
Deleted == [ref |-> 0, tag |-> "none", length |-> 0, start |-> 0,
            height |-> 0, edges |-> <<>>, data |-> <<>>]

-----------------------------------------------------------------------------
(* Nodes and their reference counts. *)

\* The result of an operation: the heap it leaves, the node it returns and
\* what its caller has to do with that node.
Result(h, r, action) == [h |-> h, r |-> r, action |-> action]
New(h, node) == Result(Append(h, node), Len(h) + 1, "self")

IsOne(h, i) == h[i].ref = 1
IsBtree(h, i) == h[i].tag = "btree"
IsFlat(h, i) == h[i].tag = "flat"
IsSubstring(h, i) == h[i].tag = "substring"
IsDataEdge(h, i) == h[i].tag \in {"flat", "external", "substring"}

Ref(h, i) == [h EXCEPT ![i].ref = @ + 1]
RefAll(h, edges) == FoldLeft(Ref, h, edges)
Delete(h, i) == [h EXCEPT ![i] = Deleted]

\* CordRep::Unref with Destroy: the last reference takes the edges along.
RECURSIVE Unref(_, _)
Unref(h, i) ==
  IF h[i].ref > 1 THEN [h EXCEPT ![i].ref = @ - 1]
  ELSE FoldLeft(Unref, Delete(h, i), h[i].edges)
UnrefAll(h, edges) == FoldLeft(Unref, h, edges)

Length(h, edges) == FoldLeft(LAMBDA n, e : n + h[e].length, 0, edges)
Before(h, i, k) == Length(h, SubSeq(h[i].edges, 1, k - 1))

NewFlat(h, data) ==
  New(h, [Deleted EXCEPT !.ref = 1, !.tag = "flat", !.length = Len(data),
                         !.data = data])
NewExternal(h, data) ==
  New(h, [Deleted EXCEPT !.ref = 1, !.tag = "external", !.length = Len(data),
                         !.data = data])
NewNode(h, height, edges) ==
  New(h, [Deleted EXCEPT !.ref = 1, !.tag = "btree", !.height = height,
                         !.length = Length(h, edges), !.edges = edges])

\* New(rep) and New(front, back): the node above the given ones.
NewAbove(h, edges) ==
  NewNode(h, IF IsBtree(h, edges[1]) THEN h[edges[1]].height + 1 ELSE 0, edges)

\* CopyRaw and the references of the edges the copy keeps.
CopyEdges(h, i, edges, length) ==
  New(RefAll(h, edges),
      [h[i] EXCEPT !.ref = 1, !.edges = edges, !.length = length])
Copy(h, i) == CopyEdges(h, i, h[i].edges, h[i].length)
CopyToEndFrom(h, i, begin, length) ==
  CopyEdges(h, i, SubSeq(h[i].edges, begin, Len(h[i].edges)), length)
CopyBeginTo(h, i, end, length) ==
  CopyEdges(h, i, SubSeq(h[i].edges, 1, end), length)

-----------------------------------------------------------------------------
(* Substrings.  Each consumes the reference it is given. *)

NewSubstring(h, rep, offset, n) ==
  New(h, [Deleted EXCEPT !.ref = 1, !.tag = "substring", !.length = n,
                         !.start = offset, !.edges = <<rep>>])

CreateSubstring(h, rep, offset, n) ==
  IF IsSubstring(h, rep)
  THEN NewSubstring(Unref(Ref(h, h[rep].edges[1]), rep), h[rep].edges[1],
                    offset + h[rep].start, n)
  ELSE NewSubstring(h, rep, offset, n)

MakeSubstring(h, rep, offset, n) ==
  IF n = h[rep].length THEN Result(h, rep, "self")
  ELSE CreateSubstring(h, rep, offset, n)

\* CordRepSubstring::Substring: leaves the caller's reference alone.
Substring(h, rep, pos, n) == MakeSubstring(Ref(h, rep), rep, pos, n)

ResizeEdge(h, edge, length, is_mutable) ==
  IF length >= h[edge].length THEN Result(h, edge, "self")
  ELSE IF is_mutable /\ h[edge].tag \in {"flat", "substring"}
       THEN Result([h EXCEPT ![edge].length = length], edge, "self")
       ELSE CreateSubstring(h, edge, 0, length)

-----------------------------------------------------------------------------
(* Positions: an edge of a node and a number of bytes within it. *)

Position(index, n) == [index |-> index, n |-> n]
Edges(h, i) == 1 .. Len(h[i].edges)

AtEdge(h, i, k, offset) == Position(k, offset - Before(h, i, k))

IndexOf(h, i, offset) ==
  AtEdge(h, i, CHOOSE k \in Edges(h, i) :
                 Before(h, i, k) <= offset /\ offset < Before(h, i, k + 1), offset)

\* IndexBefore and IndexOfLength: the edge that holds the offset'th byte.
IndexBefore(h, i, offset) ==
  AtEdge(h, i, CHOOSE k \in Edges(h, i) :
                 Before(h, i, k) < offset /\ offset <= Before(h, i, k + 1), offset)

BeyondEdge(h, i, k, offset) == Position(k, Before(h, i, k) - offset)
IndexBeyond(h, i, offset) ==
  BeyondEdge(h, i, CHOOSE k \in 1 .. Len(h[i].edges) + 1 :
                     /\ Before(h, i, k) >= offset
                     /\ \A j \in 1 .. k - 1 : Before(h, i, j) < offset, offset)

-----------------------------------------------------------------------------
(* StackOperations: changes at the first or the last edge of every level.  *)
(* A stack is the nodes from the root down; share_depth is how many of     *)
(* them, from the root, only this cord can reach.                          *)

Edge(h, side, i) ==
  IF side = "back" THEN Last(h[i].edges) ELSE Head(h[i].edges)

RECURSIVE BuildStack(_, _, _, _)
BuildStack(h, side, i, depth) ==
  IF depth = 0 THEN <<i>>
  ELSE <<i>> \o BuildStack(h, side, Edge(h, side, i), depth - 1)

share_depth(h, stack) ==
  CHOOSE d \in 0 .. Len(stack) :
    /\ \A k \in 1 .. d : IsOne(h, stack[k])
    /\ d < Len(stack) => ~IsOne(h, stack[d + 1])

ToOpResult(h, i, owned) ==
  IF owned THEN Result(h, i, "self") ELSE [Copy(h, i) EXCEPT !.action = "copied"]

\* Add<edge_type>(edges) and the length they bring.
Add(o, side, edges, delta) ==
  [o EXCEPT !.h[o.r].edges = IF side = "back" THEN @ \o edges ELSE edges \o @,
            !.h[o.r].length = @ + delta]

AddEdge(h, side, i, owned, edge, delta) ==
  IF Len(h[i].edges) >= kMaxCapacity
  THEN [NewAbove(h, <<edge>>) EXCEPT !.action = "popped"]
  ELSE Add(ToOpResult(h, i, owned), side, <<edge>>, delta)

\* The edges other than the one on this side, and all with that one replaced.
Unchanged(edges, side) == IF side = "back" THEN Front(edges) ELSE Tail(edges)
WithEdge(edges, side, edge) ==
  IF side = "back" THEN Append(Front(edges), edge) ELSE <<edge>> \o Tail(edges)

\* Mutant: the copy does not take references on the edges it shares.
SetEdgeUnreferenced(h, side, i, owned, edge, delta) ==
  LET set == [h[i] EXCEPT !.edges = WithEdge(@, side, edge), !.length = @ + delta]
  IN  IF owned
      THEN Result([Unref(h, Edge(h, side, i)) EXCEPT ![i] = set], i, "self")
      ELSE [New(h, [set EXCEPT !.ref = 1]) EXCEPT !.action = "copied"]

SetEdge(h, side, i, owned, edge, delta) ==
  LET set == [h[i] EXCEPT !.edges = WithEdge(@, side, edge), !.length = @ + delta]
  IN  IF owned
      THEN Result([Unref(h, Edge(h, side, i)) EXCEPT ![i] = set], i, "self")
      ELSE [New(RefAll(h, Unchanged(h[i].edges, side)), [set EXCEPT !.ref = 1])
              EXCEPT !.action = "copied"]

\* Rebuild(stack, tree, consume): hands the data edges of a tree, in order, to
\* the rightmost nodes of the tree being built, stack[1] being its leaf.
\* Pushed places one edge at a level; a full node makes way for a new one.
RECURSIVE Pushed(_, _, _, _)
Topped(o, stack) == [h |-> o.h, stack |-> Append(stack, o.r)]
PlaceAdded(o, level, add, length) ==
  IF add.action = "self"
  THEN [h |-> FoldLeft(LAMBDA g, i : [g EXCEPT ![i].length = @ + length],
                       add.h, SubSeq(o.stack, level + 1, Len(o.stack))),
        stack |-> o.stack]
  ELSE IF level < Len(o.stack)
  THEN Pushed([h |-> add.h, stack |-> [o.stack EXCEPT ![level] = add.r]],
              level + 1, add.r, length)
  ELSE Topped(NewAbove(add.h, <<o.stack[level], add.r>>),
              [o.stack EXCEPT ![level] = add.r])
Pushed(o, level, edge, length) ==
  PlaceAdded(o, level,
             AddEdge(o.h, "back", o.stack[level], TRUE, edge, length), length)

RECURSIVE RebuildInto(_, _, _)
RebuildInto(o, i, consume) ==
  LET owned == consume /\ IsOne(o.h, i)
      pushed ==
        IF o.h[i].height = 0
        THEN FoldLeft(LAMBDA p, e : Pushed(p, 1, e, p.h[e].length),
                      IF owned THEN o ELSE [o EXCEPT !.h = RefAll(@, o.h[i].edges)],
                      o.h[i].edges)
        ELSE FoldLeft(LAMBDA p, e : RebuildInto(p, e, owned), o, o.h[i].edges)
  IN  [pushed EXCEPT !.h = IF owned THEN Delete(@, i)
                           ELSE IF consume THEN Unref(@, i) ELSE @]

TopOf(o) == Result(o.h, Last(o.stack), "self")
Rebuild(h, tree) ==
  TopOf(RebuildInto([h |-> NewNode(h, 0, <<>>).h, stack |-> <<Len(h) + 1>>],
                    tree, TRUE))

Raised(o) == IF o.h[o.r].height > kMaxHeight THEN Rebuild(o.h, o.r) ELSE o

Finalize(o, side, tree) ==
  IF o.action = "popped"
  THEN Raised(NewAbove(o.h, IF side = "back" THEN <<tree, o.r>> ELSE <<o.r, tree>>))
  ELSE Result(IF o.action = "copied" THEN Unref(o.h, tree) ELSE o.h, o.r, "self")

\* Carries a result up the stack above it.
RECURSIVE Unwind(_, _, _, _, _, _)
Unwind(o, side, tree, stack, share, length) ==
  IF stack = <<>> THEN Finalize(o, side, tree)
  ELSE IF o.action = "self"
  THEN Result(FoldLeft(LAMBDA g, i : [g EXCEPT ![i].length = @ + length],
                       o.h, stack), Head(stack), "self")
  ELSE Unwind(IF o.action = "popped"
              THEN AddEdge(o.h, side, Last(stack), Len(stack) <= share, o.r, length)
              ELSE SetEdge(o.h, side, Last(stack), Len(stack) <= share, o.r, length),
              side, tree, Front(stack), share, length)

-----------------------------------------------------------------------------
(* Adding a data edge, bytes or another tree to a tree. *)

AddedRep(h, side, tree, stack, rep) ==
  Unwind(AddEdge(h, side, Last(stack), share_depth(h, stack) = Len(stack), rep,
                 h[rep].length),
         side, tree, Front(stack), share_depth(h, stack), h[rep].length)
AddCordRep(h, side, tree, rep) ==
  AddedRep(h, side, tree, BuildStack(h, side, tree, h[tree].height), rep)

\* The loops of AddData and NewLeaf: flats for as much of the data as goes into
\* `room` edges, taken from the end of the data that meets the tree.
RECURSIVE Flats(_, _, _, _, _)
Flats(h, side, data, room, flats) ==
  IF data = <<>> \/ room = 0 THEN [h |-> h, flats |-> flats, data |-> data]
  ELSE LET n == IF Len(data) < kMaxFlatLength THEN Len(data) ELSE kMaxFlatLength
           at == IF side = "back" THEN 0 ELSE Len(data) - n
       IN  Flats(NewFlat(h, SubSeq(data, at + 1, at + n)).h, side,
                 SubSeq(data, 1, at) \o SubSeq(data, at + n + 1, Len(data)),
                 room - 1,
                 IF side = "back" THEN Append(flats, Len(h) + 1)
                 ELSE <<Len(h) + 1>> \o flats)

\* The rest of the data, in new leaves; every stack but the first is owned.
RECURSIVE AddLeaves(_, _, _, _, _, _)
AddMore(o, side, data) ==
  IF data = <<>> THEN o
  ELSE AddLeaves(o.h, side, o.r, BuildStack(o.h, side, o.r, o.h[o.r].height),
                 o.h[o.r].height + 1, data)
AddLeaf(f, side, tree, stack, share, n) ==
  AddMore(Unwind([NewNode(f.h, 0, f.flats) EXCEPT !.action = "popped"], side,
                 tree, Front(stack), share, n - Len(f.data)), side, f.data)
AddLeaves(h, side, tree, stack, share, data) ==
  AddLeaf(Flats(h, side, data, kMaxCapacity, <<>>), side, tree, stack, share,
          Len(data))

FilledLeaf(f, o, side, tree, stack, share, n) ==
  Unwind(Add(o, side, f.flats, n), side, tree, Front(stack), share, n)

Propagated(o, side, depth, data) ==
  AddLeaves(o.h, side, o.r, BuildStack(o.h, side, o.r, depth), depth + 1, data)

AddFlats(o, f, side, tree, stack, share, data) ==
  IF f.data = <<>>
  THEN FilledLeaf(f, [o EXCEPT !.h = f.h], side, tree, stack, share, Len(data))
  ELSE Propagated(FilledLeaf(f, [o EXCEPT !.h = f.h], side, tree, stack, share,
                             Len(data) - Len(f.data)),
                  side, Len(stack) - 1, f.data)

InLeaf(o, side, tree, stack, share, data) ==
  AddFlats(o, Flats(o.h, side, data, kMaxCapacity - Len(o.h[o.r].edges), <<>>),
           side, tree, stack, share, data)

AddToStack(h, side, tree, stack, share, data) ==
  IF Len(h[Last(stack)].edges) < kMaxCapacity
  THEN InLeaf(ToOpResult(h, Last(stack), share = Len(stack)), side, tree, stack,
              share, data)
  ELSE AddLeaves(h, side, tree, stack, share, data)

AddStack(h, side, tree, stack, data) ==
  AddToStack(h, side, tree, stack, share_depth(h, stack), data)
AddData(h, side, tree, data) ==
  AddStack(h, side, tree, BuildStack(h, side, tree, h[tree].height), data)

\* What becomes of src once its edges are in dst.
Emptied(h, src) ==
  IF IsOne(h, src) THEN Delete(h, src) ELSE Unref(RefAll(h, h[src].edges), src)

MergeAt(h, side, dst, src, stack, share) ==
  LET at == Last(stack)
      add == Add(ToOpResult(h, at, share = Len(stack)), side, h[src].edges,
                 h[src].length)
  IN  Unwind(IF Len(h[at].edges) + Len(h[src].edges) <= kMaxCapacity
             THEN [add EXCEPT !.h = Emptied(@, src)]
             ELSE Result(h, src, "popped"),
             side, dst, Front(stack), share, h[src].length)
MergeStack(h, side, dst, src, stack) ==
  MergeAt(h, side, dst, src, stack, share_depth(h, stack))
Merge(h, side, dst, src) ==
  MergeStack(h, side, dst, src,
             BuildStack(h, side, dst, h[dst].height - h[src].height))

MergeTrees(h, left, right) ==
  IF h[left].height >= h[right].height THEN Merge(h, "back", left, right)
  ELSE Merge(h, "front", right, left)

-----------------------------------------------------------------------------
(* Parts of a tree.  These leave the tree itself as it is. *)

RECURSIVE SuffixOf(_, _, _)
WithFirst(sub, cut) ==
  Result([cut.h EXCEPT ![sub].edges = <<cut.r>> \o @], sub, "self")
AddCutEdge(sub, edge, leaf, n) ==
  WithFirst(sub.r, IF leaf
                   THEN Substring(sub.h, edge, sub.h[edge].length - n, n)
                   ELSE SuffixOf(sub.h, edge, sub.h[edge].length - n))
SuffixFrom(sub, h, i, pos) ==
  IF pos.n = 0 THEN sub
  ELSE AddCutEdge(sub, h[i].edges[pos.index - 1], h[i].height = 0, pos.n)
SuffixAt(h, i, pos, len) ==
  SuffixFrom(CopyToEndFrom(h, i, pos.index, len), h, i, pos)
SuffixOf(h, i, offset) ==
  SuffixAt(h, i, IndexBeyond(h, i, offset), h[i].length - offset)

\* A node is dropped while what is wanted lies in its last edge.
RECURSIVE CopySuffix(_, _, _)
CopySuffix(h, i, offset) ==
  LET back == Last(h[i].edges)
      len == h[i].length - offset
  IN  IF h[back].length >= len
      THEN IF h[i].height = 0 THEN Substring(h, back, h[back].length - len, len)
           ELSE CopySuffix(h, back, h[back].length - len)
      ELSE IF offset = 0 THEN Result(Ref(h, i), i, "self")
      ELSE SuffixOf(h, i, offset)

RECURSIVE PrefixOf(_, _, _)
WithLast(sub, cut) ==
  Result([cut.h EXCEPT ![sub].edges = Append(@, cut.r)], sub, "self")
PrefixTo(sub, h, i, pos) ==
  IF pos.n = 0 THEN sub
  ELSE WithLast(sub.r, IF h[i].height = 0
                       THEN Substring(sub.h, h[i].edges[pos.index], 0, pos.n)
                       ELSE PrefixOf(sub.h, h[i].edges[pos.index], pos.n))
PrefixAt(h, i, pos, n) ==
  PrefixTo(CopyBeginTo(h, i, pos.index - 1, n), h, i, pos)
PrefixOf(h, i, n) == PrefixAt(h, i, IndexOf(h, i, n), n)

RECURSIVE CopyPrefix(_, _, _, _)
CopyPrefix(h, i, n, allow_folding) ==
  LET front == Head(h[i].edges)
  IN  IF allow_folding /\ h[front].length >= n
      THEN IF h[i].height = 0 THEN Substring(h, front, 0, n)
           ELSE CopyPrefix(h, front, n, TRUE)
      ELSE IF h[i].length = n THEN Result(Ref(h, i), i, "self")
      ELSE PrefixOf(h, i, n)

\* The height of an edge a copy returned, -1 for a data edge.
HeightOf(h, i) == IF IsBtree(h, i) THEN h[i].height ELSE 0 - 1

RECURSIVE RaiseTo(_, _)
RaiseTo(o, height) ==
  IF HeightOf(o.h, o.r) < height THEN RaiseTo(NewAbove(o.h, <<o.r>>), height)
  ELSE o

\* The n bytes from edge front to edge back: the suffix of the one and the
\* prefix of the other, at the same height, around the edges between them.
Larger(a, b) == IF a > b THEN a ELSE b
Between(h, i, front, back) == SubSeq(h[i].edges, front.index + 1, back.index - 1)
Compose(first, last, between, height, n) ==
  New(RefAll(last.h, between),
      [Deleted EXCEPT !.ref = 1, !.tag = "btree", !.height = height, !.length = n,
                      !.edges = <<first>> \o between \o <<last.r>>])
RaiseSuffix(first, suffix, between, height, n) ==
  Compose(first.r, RaiseTo([suffix EXCEPT !.h = first.h], height - 1), between,
          height, n)
RaisePrefix(prefix, suffix, between, height, n) ==
  RaiseSuffix(RaiseTo([prefix EXCEPT !.h = suffix.h], height - 1), suffix, between,
              height, n)
WithSuffix(prefix, suffix, i, front, back, n) ==
  RaisePrefix(prefix, suffix, Between(suffix.h, i, front, back),
              IF front.index + 1 = back.index
              THEN Larger(HeightOf(suffix.h, prefix.r), HeightOf(suffix.h, suffix.r)) + 1
              ELSE suffix.h[i].height, n)
WithPrefix(prefix, i, front, back, n) ==
  WithSuffix(prefix,
             IF prefix.h[i].height = 0
             THEN Substring(prefix.h, prefix.h[i].edges[back.index], 0, back.n)
             ELSE CopyPrefix(prefix.h, prefix.h[i].edges[back.index], back.n, TRUE),
             i, front, back, n)

RECURSIVE SubTree(_, _, _, _)
SubTreeAt(h, i, front, left, rest, back, n) ==
  IF n <= rest
  THEN IF h[i].height = 0 THEN Substring(h, left, front.n, n)
       ELSE SubTree(h, left, front.n, n)
  ELSE WithPrefix(IF h[i].height = 0 THEN Substring(h, left, front.n, rest)
                  ELSE CopySuffix(h, left, front.n),
                  i, front, back, n)
SubTreeFrom(h, i, front, left, back, n) ==
  SubTreeAt(h, i, front, left, h[left].length - front.n, back, n)
SubTreePart(h, i, front, back, n) ==
  SubTreeFrom(h, i, front, h[i].edges[front.index], back, n)
SubTree(h, i, offset, n) ==
  SubTreePart(h, i, IndexOf(h, i, offset), IndexBefore(h, i, offset + n), n)

-----------------------------------------------------------------------------
(* Removing bytes at the end of a tree, in place where no one else sees it. *)

ExtractFront(h, tree) ==
  LET front == Head(h[tree].edges)
  IN  Result(IF IsOne(h, tree) THEN Delete(UnrefAll(h, Tail(h[tree].edges)), tree)
             ELSE Unref(Ref(h, front), tree),
             front, "self")

ConsumeBeginTo(h, tree, end, length) ==
  LET copy == CopyBeginTo(h, tree, end, length)
      edges == h[tree].edges
  IN  IF IsOne(h, tree)
      THEN Result([UnrefAll(h, SubSeq(edges, end + 1, Len(edges)))
                     EXCEPT ![tree].edges = SubSeq(edges, 1, end),
                            ![tree].length = length], tree, "self")
      ELSE [copy EXCEPT !.h = Unref(@, tree)]

\* Shortens the last edge of a private node, and its last edge, to length.
RECURSIVE Crop(_, _, _)
WithBack(o, tree) == [o.h EXCEPT ![tree].edges = WithEdge(@, "back", o.r)]
CropIn(h, edge, pos, length) ==
  Crop(ConsumeBeginTo(h, edge, pos.index, length).h, edge, pos.n)
CropEdge(h, tree, edge, length) ==
  IF length = h[edge].length THEN h
  ELSE IF h[tree].height = 0
  THEN WithBack(ResizeEdge(h, edge, length, IsOne(h, edge)), tree)
  ELSE IF ~IsOne(h, edge)
  THEN Unref(WithBack(CopyPrefix(h, edge, length, FALSE), tree), edge)
  ELSE CropIn(h, edge, IndexBefore(h, edge, length), length)
Crop(h, tree, length) == CropEdge(h, tree, Last(h[tree].edges), length)

\* Top nodes that are left with one edge are dropped first.
RECURSIVE Shorten(_, _, _, _)
CropTop(top, n) == Result(Crop(top.h, top.r, n), top.r, "self")
ShortenFront(front, leaf, length, is_mutable) ==
  IF leaf THEN ResizeEdge(front.h, front.r, length, is_mutable)
  ELSE Shorten(front.h, front.r, length, is_mutable)
ShortenIn(front, leaf, length, is_mutable) ==
  ShortenFront(front, leaf, length, is_mutable /\ IsOne(front.h, front.r))
ShortenAt(h, tree, pos, length, is_mutable) ==
  IF pos.index > 1 THEN CropTop(ConsumeBeginTo(h, tree, pos.index, length), pos.n)
  ELSE ShortenIn(ExtractFront(h, tree), h[tree].height = 0, length, is_mutable)
Shorten(h, tree, length, is_mutable) ==
  ShortenAt(h, tree, IndexBefore(h, tree, length), length, is_mutable)

RemoveSuffix(h, tree, n) == Shorten(h, tree, h[tree].length - n, IsOne(h, tree))

-----------------------------------------------------------------------------
(* The spare capacity of the last flat. *)

\* The nodes down to the last data edge, and whether the cord owns them all
\* and may write behind the flat they end in.
BackLeg(h, tree) ==
  IF IsBtree(h, tree) THEN BuildStack(h, "back", tree, h[tree].height + 1)
  ELSE <<tree>>

\* Mutant: the flat's own reference count is not looked at.
HasRoomShared(h, stack, n) ==
  /\ share_depth(h, stack) >= Len(stack) - 1
  /\ IsFlat(h, Last(stack))
  /\ kMaxFlatLength - h[Last(stack)].length >= n

HasRoom(h, stack, n) ==
  /\ share_depth(h, stack) = Len(stack)
  /\ IsFlat(h, Last(stack))
  /\ kMaxFlatLength - h[Last(stack)].length >= n

\* GetAppendBuffer and PrepareAppendRegion: as many of the bytes as fit behind
\* the last flat are written there; data is what remains.
Written(h, stack, n, data) ==
  [h |-> FoldLeft(LAMBDA g, i : [g EXCEPT ![i].length = @ + n],
                  [h EXCEPT ![Last(stack)].data =
                     SubSeq(@, 1, h[Last(stack)].length) \o SubSeq(data, 1, n)],
                  stack),
   data |-> SubSeq(data, n + 1, Len(data))]
Smaller(a, b) == IF a < b THEN a ELSE b
PrepareAppendRegion(h, stack, data) ==
  IF HasRoom(h, stack, 1)
  THEN Written(h, stack, Smaller(kMaxFlatLength - h[Last(stack)].length, Len(data)),
               data)
  ELSE [h |-> h, data |-> data]

\* The last loop of ExtractAppendBuffer: top nodes of one edge are deleted.
RECURSIVE DropTop(_, _)
DropTop(h, i) ==
  IF IsBtree(h, i) /\ Len(h[i].edges) = 1 THEN DropTop(Delete(h, i), h[i].edges[1])
  ELSE Result(h, i, "self")

\* The edge below stack goes, with the nodes that it leaves without edges.
RECURSIVE DropLast(_, _, _)
DropLast(h, stack, length) ==
  IF stack = <<>> THEN Result(h, Null, "self")
  ELSE IF Len(h[Last(stack)].edges) = 1
  THEN DropLast(Delete(h, Last(stack)), Front(stack), length)
  ELSE DropTop(FoldLeft(LAMBDA g, i : [g EXCEPT ![i].length = @ - length],
                        [h EXCEPT ![Last(stack)].edges = Front(@)], stack),
               Head(stack))

\* ExtractAppendBuffer of a tree or of a flat: the flat below stack, which the
\* caller has found private and large enough, leaves the tree.
ExtractAppendBuffer(h, stack) ==
  DropLast(h, Front(stack), h[Last(stack)].length)

-----------------------------------------------------------------------------
(* The operations of Cord: each gives the heap and the cord's new tree. *)

ForceBtree(h, rep) ==
  IF IsBtree(h, rep) THEN Result(h, rep, "self") ELSE NewAbove(h, <<rep>>)

\* AppendTree and PrependTree.
AddTree(o, side, tree) ==
  IF IsDataEdge(o.h, tree) THEN AddCordRep(o.h, side, o.r, tree)
  ELSE IF side = "back" THEN MergeTrees(o.h, o.r, tree)
  ELSE MergeTrees(o.h, tree, o.r)
JoinTree(h, rep, side, tree) ==
  IF rep = Null THEN Result(h, tree, "self")
  ELSE AddTree(ForceBtree(h, rep), side, tree)

AddRest(o, data) == AddData(o.h, "back", o.r, data)
AppendRest(h, rep, data) ==
  IF data = <<>> THEN Result(h, rep, "self") ELSE AddRest(ForceBtree(h, rep), data)

\* NewTree: a flat, and the rest of the data behind it.
NewTree(h, data) ==
  LET n == Smaller(Len(data), kMaxFlatLength)
  IN  AppendRest(NewFlat(h, SubSeq(data, 1, n)).h, Len(h) + 1,
                 SubSeq(data, n + 1, Len(data)))

AppendRegion(p, rep) == AppendRest(p.h, rep, p.data)
AppendArray(h, rep, data) ==
  IF rep = Null THEN NewTree(h, data)
  ELSE AppendRegion(PrepareAppendRegion(h, BackLeg(h, rep), data), rep)

\* Append and Prepend of a string whose buffer the cord takes over.
JoinNew(o, rep, side) == JoinTree(o.h, rep, side, o.r)
JoinString(h, rep, side, data) == JoinNew(NewExternal(h, data), rep, side)
PrependArray(h, rep, data) == JoinNew(NewTree(h, data), rep, "front")

\* Append(const Cord&) and Prepend(const Cord&): a reference on the other tree.
JoinCord(h, rep, side, tree) == JoinTree(Ref(h, tree), rep, side, tree)

RemovePrefix(h, tree, n) ==
  LET rest == h[tree].length - n
      sub == IF IsBtree(h, tree) THEN SubTree(h, tree, n, rest)
             ELSE Substring(h, tree, n, rest)
  IN  IF rest = 0 THEN Result(Unref(h, tree), Null, "self")
      ELSE IF IsSubstring(h, tree) /\ IsOne(h, tree)
      THEN Result([h EXCEPT ![tree].start = @ + n, ![tree].length = rest], tree, "self")
      ELSE [sub EXCEPT !.h = Unref(@, tree)]

CordRemoveSuffix(h, tree, n) ==
  LET rest == h[tree].length - n
      sub == Substring(h, tree, 0, rest)
  IN  IF rest = 0 THEN Result(Unref(h, tree), Null, "self")
      ELSE IF IsBtree(h, tree) THEN RemoveSuffix(h, tree, n)
      ELSE IF h[tree].tag # "external" /\ IsOne(h, tree)
      THEN Result([h EXCEPT ![tree].length = rest], tree, "self")
      ELSE [sub EXCEPT !.h = Unref(@, tree)]

Subcord(h, tree, pos, n) ==
  IF IsBtree(h, tree) THEN SubTree(h, tree, pos, n) ELSE Substring(h, tree, pos, n)

\* The old tree of a cord that is given a new one.
Release(h, rep) == IF rep = Null THEN h ELSE Unref(h, rep)

-----------------------------------------------------------------------------
(* What the cords say, and what holds of the heap between calls. *)

Bytes(data, from, to) == SubSeq(data, from, Smaller(to, Len(data)))

RECURSIVE Content(_, _)
Content(h, i) ==
  CASE IsBtree(h, i) -> FoldLeft(LAMBDA s, e : s \o Content(h, e), <<>>, h[i].edges)
    [] IsSubstring(h, i) -> Bytes(h[h[i].edges[1]].data, h[i].start + 1,
                                  h[i].start + h[i].length)
    [] OTHER -> Bytes(h[i].data, 1, h[i].length)
Said(h, r) == IF r = Null THEN <<>> ELSE Content(h, r)

\* CordRepBtree::IsValid, and its counterpart for the data edges.
IsValid(h, i) ==
  LET edges == h[i].edges
      child == h[edges[1]]
  IN  CASE IsBtree(h, i) ->
             /\ h[i].height <= kMaxHeight
             /\ Len(edges) \in 1 .. kMaxCapacity
             /\ h[i].length = Length(h, edges)
             /\ \A k \in 1 .. Len(edges) :
                  IF h[i].height = 0 THEN IsDataEdge(h, edges[k])
                  ELSE /\ IsBtree(h, edges[k])
                       /\ h[edges[k]].height = h[i].height - 1
        [] IsSubstring(h, i) ->
             /\ child.tag \in {"flat", "external"}
             /\ h[i].length > 0 /\ h[i].start + h[i].length <= child.length
        [] OTHER -> h[i].length \in 1 .. Len(h[i].data)

\* The pointers to a node, from live nodes and from the cords.
Pointers(h, roots, i) ==
  Cardinality({<<j, k>> \in (1 .. Len(h)) \X (1 .. Larger(kMaxCapacity, 1)) :
                 k <= Len(h[j].edges) /\ h[j].edges[k] = i})
  + Cardinality({c \in Cords : roots[c] = i})

Sound(h, roots) ==
  \A i \in 1 .. Len(h) : /\ h[i].ref = Pointers(h, roots, i)
                         /\ h[i].ref > 0 => IsValid(h, i)

\* The live nodes in the order the cords reach them, and the heap in which
\* they have these numbers.
RECURSIVE Visit(_, _, _)
Visit(h, seen, i) ==
  IF i = Null \/ i \in Range(seen) THEN seen
  ELSE FoldLeft(LAMBDA s, e : Visit(h, s, e), Append(seen, i), h[i].edges)
Number(order, i) ==
  IF i = Null THEN Null ELSE CHOOSE k \in 1 .. Len(order) : order[k] = i
Renumbered(h, order) ==
  [k \in 1 .. Len(order) |->
     [h[order[k]] EXCEPT
        !.edges = [j \in 1 .. Len(@) |-> Number(order, @[j])],
        !.data = IF @ = <<>> THEN <<>>
                 ELSE [p \in 1 .. h[order[k]].length |-> <<k, p>>]]]

Settled(h, roots, order, good) ==
  IF good
  THEN [heap |-> Renumbered(h, order), kept |-> TRUE,
        root |-> <<Number(order, roots[1]), Number(order, roots[2])>>]
  ELSE [heap |-> h, root |-> roots, kept |-> FALSE]

Settle(h, roots, said) ==
  Settled(h, roots, Visit(h, Visit(h, <<>>, roots[1]), roots[2]),
          Sound(h, roots) /\ \A c \in Cords : Said(h, roots[c]) = said[c])

-----------------------------------------------------------------------------
NewBytes(n) == [k \in 1 .. n |-> <<0, k>>]
Size(c) == IF root[c] = Null THEN 0 ELSE heap[root[c]].length
said(c) == Said(heap, root[c])

\* A call on cord c that leaves its tree at o.r and makes it say `now`.
Call(c, o, now) ==
  /\ kept /\ calls > 0
  /\ \E s \in {Settle(o.h, [root EXCEPT ![c] = o.r],
                      [d \in Cords |-> IF d = c THEN now ELSE said(d)])} :
       heap' = s.heap /\ root' = s.root /\ kept' = s.kept
  /\ calls' = calls - 1

AppendData(c, n) ==
  /\ Size(c) + n <= MaxBytes
  /\ Call(c, AppendArray(heap, root[c], NewBytes(n)), said(c) \o NewBytes(n))
PrependData(c, n) ==
  /\ Size(c) + n <= MaxBytes
  /\ Call(c, PrependArray(heap, root[c], NewBytes(n)), NewBytes(n) \o said(c))
AddString(c, side, n) ==
  /\ Size(c) + n <= MaxBytes
  /\ Call(c, JoinString(heap, root[c], side, NewBytes(n)),
          IF side = "back" THEN said(c) \o NewBytes(n) ELSE NewBytes(n) \o said(c))
AddCord(c, d, side) ==
  /\ root[d] # Null
  /\ Size(c) + Size(d) <= MaxBytes
  /\ Call(c, JoinCord(heap, root[c], side, root[d]),
          IF side = "back" THEN said(c) \o said(d) ELSE said(d) \o said(c))
Assign(c, d) ==
  /\ c # d /\ root[d] # Null
  /\ Call(c, Result(Release(Ref(heap, root[d]), root[c]), root[d], "self"), said(d))
Clear(c) ==
  /\ root[c] # Null
  /\ Call(c, Result(Unref(heap, root[c]), Null, "self"), <<>>)
CutFront(c, n) ==
  /\ n <= Size(c)
  /\ Call(c, RemovePrefix(heap, root[c], n), SubSeq(said(c), n + 1, Size(c)))
CutBack(c, n) ==
  /\ n <= Size(c)
  /\ Call(c, CordRemoveSuffix(heap, root[c], n), SubSeq(said(c), 1, Size(c) - n))
AssignPart(o, c, now) == Call(c, [o EXCEPT !.h = Release(@, root[c])], now)
Part(c, d, pos, n) ==
  /\ c # d /\ pos + n <= Size(d)
  /\ AssignPart(Subcord(heap, root[d], pos, n), c, SubSeq(said(d), pos + 1, pos + n))

\* GetAppendBuffer, after which the caller drops the buffer it got, or appends
\* it with one more byte in it.
Extracted(c, o, flat, more) ==
  /\ SharedTop \/ \A i \in 1 .. Len(heap) : o.h[i].ref = 0 => IsOne(heap, i)
  /\ IF more
     THEN Call(c, JoinTree([o.h EXCEPT ![flat].length = @ + 1,
                                       ![flat].data = Append(@, <<0, 1>>)],
                           o.r, "back", flat), Append(said(c), <<0, 1>>))
     ELSE Call(c, [o EXCEPT !.h = Delete(@, flat)],
               SubSeq(said(c), 1, Size(c) - heap[flat].length))
GetAppendBuffer(c, stack, more) ==
  /\ HasRoom(heap, stack, IF more THEN 1 ELSE 0)
  /\ Size(c) < MaxBytes
  /\ Extracted(c, ExtractAppendBuffer(heap, stack), Last(stack), more)

Sides == {"front", "back"}
Next ==
  \E c \in Cords :
    \/ \E n \in DataLengths : AppendData(c, n) \/ PrependData(c, n)
    \/ \E side \in Sides : AddString(c, side, 1)
    \/ \E d \in Cords, side \in Sides : AddCord(c, d, side)
    \/ \E d \in Cords : Assign(c, d)
    \/ Clear(c)
    \/ \E n \in 1 .. Size(c) : CutFront(c, n) \/ CutBack(c, n)
    \/ \E d \in Cords : \E pos \in 0 .. Size(d) - 1 :
         \E n \in 1 .. Size(d) - pos : Part(c, d, pos, n)
    \/ /\ root[c] # Null
       /\ \E more \in BOOLEAN : GetAppendBuffer(c, BackLeg(heap, root[c]), more)

\* A start: how many flats of one byte cord 1 was given at its end and then at
\* its front, how many cord 2 was given at its end, whether cord 1 was appended
\* to cord 2 then, and how many calls follow.
RECURSIVE Grown(_, _, _)
Grown(o, side, n) ==
  IF n = 0 THEN o
  ELSE Grown(JoinNew(NewFlat(o.h, NewBytes(1)), o.r, side), side, n - 1)
Started(one, two) ==
  Settled(two.h, <<one.r, two.r>>, Visit(two.h, Visit(two.h, <<>>, one.r), two.r),
          Sound(two.h, <<one.r, two.r>>))
Second(one, two, joined) ==
  Started(one, IF joined THEN JoinCord(two.h, two.r, "back", one.r) ELSE two)
First(one, other, joined) ==
  Second(one, Grown(Result(one.h, Null, "self"), "back", other), joined)

Init ==
  \E s \in Starts :
    /\ \E x \in {First(Grown(Grown(Result(<<>>, Null, "self"), "back", s.back),
                             "front", s.front), s.other, s.joined)} :
         heap = x.heap /\ root = x.root /\ kept = x.kept
    /\ calls = s.calls

Spec == Init /\ [][Next]_vars

\* Whatever sequence of calls made the trees, and whatever they share: a call
\* changes the bytes of its own cord as it says and of no other cord, every
\* node is referenced as often as its count says (none is freed early, none is
\* leaked), and every tree is valid: one height, full lengths, no empty node.
CallsKeepCords == kept

\* "Decrements the reference count of `rep`. Destroys rep if count reaches
\* zero." (cord_internal.h): what a node or a cord points to has not been freed.
NothingDangles ==
  /\ \A c \in Cords : root[c] # Null => heap[root[c]].ref > 0
  /\ \A i \in 1 .. Len(heap) : \A e \in Range(heap[i].edges) : heap[e].ref > 0

============================================================================
