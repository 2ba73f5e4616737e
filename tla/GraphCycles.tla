---------------------------- MODULE GraphCycles ----------------------------
(***************************************************************************)
(* GraphCycles (absl/synchronization/internal/graphcycles.cc): a directed  *)
(* graph that stays acyclic under insertions of edges, with the ranks of   *)
(* Pearce and Kelly's algorithm.  The operations are operators from one    *)
(* Rep to the next.                                                        *)
(*                                                                         *)
(* A Rep is [nodes, free_nodes].  Nodes are numbered from 1.  The pointer  *)
(* map is the masked_ptr of the nodes; what the two searches visit is      *)
(* given as a set, since Reorder sorts it.                                 *)
(***************************************************************************)
EXTENDS Integers, Sequences, FiniteSets, SequencesExt

CONSTANTS
    NoPtr,       \* nullptr
    kMaxVersion  \* numeric_limits<uint32_t>::max()

InvalidGraphId == [index |-> 0, version |-> 0]

EmptyRep == [nodes |-> << >>, free_nodes |-> << >>]

Indices(r) == 1..Len(r.nodes)

\* PointerMap::Find
Find(r, ptr) == {i \in Indices(r) : r.nodes[i].masked_ptr = ptr}

MakeId(r, i) == [index |-> i, version |-> r.nodes[i].version]

\* FindNode
HasNode(r, id) == id # InvalidGraphId /\ r.nodes[id.index].version = id.version

Ptr(r, id) == IF HasNode(r, id) THEN r.nodes[id.index].masked_ptr ELSE NoPtr

\* GetId: the Rep after it, and the id.
GetId(r, ptr) ==
    IF Find(r, ptr) # {}
    THEN [rep |-> r, id |-> MakeId(r, CHOOSE i \in Find(r, ptr) : TRUE)]
    ELSE IF r.free_nodes = << >>
    THEN [rep |-> [r EXCEPT !.nodes = Append(@, [rank |-> Len(r.nodes), version |-> 1,
                                 masked_ptr |-> ptr, in |-> {}, out |-> {}])],
          id  |-> [index |-> Len(r.nodes) + 1, version |-> 1]]
    ELSE [rep |-> [nodes |-> [r.nodes EXCEPT ![Last(r.free_nodes)].masked_ptr = ptr],
                   free_nodes |-> Front(r.free_nodes)],
          id  |-> MakeId(r, Last(r.free_nodes))]

\* Mutant: the version of a node outlives it.
RemoveNodeSameVersion(r, ptr) ==
    IF Find(r, ptr) = {} THEN r
    ELSE LET i == CHOOSE i \in Find(r, ptr) : TRUE
         IN  [nodes |-> [j \in Indices(r) |->
                IF j = i THEN [r.nodes[i] EXCEPT !.in = {}, !.out = {}, !.masked_ptr = NoPtr]
                ELSE [r.nodes[j] EXCEPT !.in = @ \ {i}, !.out = @ \ {i}]],
              free_nodes |-> Append(r.free_nodes, i)]

\* RemoveNode: the rank stays; a node whose versions are used up is not
\* used again.
RemoveNode(r, ptr) ==
    IF Find(r, ptr) = {} THEN r
    ELSE LET i    == CHOOSE i \in Find(r, ptr) : TRUE
             last == r.nodes[i].version = kMaxVersion
         IN  [nodes |-> [j \in Indices(r) |->
                IF j = i
                THEN [r.nodes[i] EXCEPT !.in = {}, !.out = {}, !.masked_ptr = NoPtr,
                                        !.version = IF last THEN @ ELSE @ + 1]
                ELSE [r.nodes[j] EXCEPT !.in = @ \ {i}, !.out = @ \ {i}]],
              free_nodes |-> IF last THEN r.free_nodes ELSE Append(r.free_nodes, i)]

HasEdge(r, x, y) == HasNode(r, x) /\ HasNode(r, y) /\ y.index \in r.nodes[x.index].out

RemoveEdge(r, x, y) ==
    IF HasNode(r, x) /\ HasNode(r, y)
    THEN [r EXCEPT !.nodes[x.index].out = @ \ {y.index}, !.nodes[y.index].in = @ \ {x.index}]
    ELSE r

-----------------------------------------------------------------------------

rank(r, i) == r.nodes[i].rank

RECURSIVE Closure(_, _)

\* What a depth-first search visits from seen; follow(n) are the neighbours
\* of n that it pushes.
Closure(seen, follow) ==
    LET more == seen \cup UNION {follow[n] : n \in seen}
    IN  IF more = seen THEN seen ELSE Closure(more, follow)

\* deltaf_: the nodes ForwardDFS visits from n.
ForwardDFS(r, n, upper_bound) ==
    Closure({n}, [i \in Indices(r) |-> {w \in r.nodes[i].out : rank(r, w) < upper_bound}])

\* ForwardDFS returns false when it meets the node with rank upper_bound.
MeetsBound(r, deltaf, upper_bound) ==
    \E n \in deltaf : \E w \in r.nodes[n].out : rank(r, w) = upper_bound

\* deltab_: the nodes BackwardDFS visits from n.
BackwardDFS(r, n, lower_bound) ==
    Closure({n}, [i \in Indices(r) |-> {w \in r.nodes[i].in : lower_bound < rank(r, w)}])

ByRank(r, delta) == SetToSortSeq(delta, LAMBDA a, b : rank(r, a) < rank(r, b))

\* Mutant: the nodes found forwards come first.
ReorderForwardFirst(r, deltaf, deltab) ==
    LET list_   == ByRank(r, deltaf) \o ByRank(r, deltab)
        merged_ == SetToSortSeq({rank(r, i) : i \in deltaf \cup deltab}, <)
    IN  [r EXCEPT !.nodes = [i \in Indices(r) |->
           IF i \in deltaf \cup deltab
           THEN [r.nodes[i] EXCEPT !.rank = merged_[CHOOSE k \in DOMAIN list_ : list_[k] = i]]
           ELSE r.nodes[i]]]

\* Reorder: the nodes found backwards, then those found forwards, each in the
\* order of their ranks, get the ranks of all of them in order.
Reorder(r, deltaf, deltab) ==
    LET list_   == ByRank(r, deltab) \o ByRank(r, deltaf)
        merged_ == SetToSortSeq({rank(r, i) : i \in deltaf \cup deltab}, <)
    IN  [r EXCEPT !.nodes = [i \in Indices(r) |->
           IF i \in deltaf \cup deltab
           THEN [r.nodes[i] EXCEPT !.rank = merged_[CHOOSE k \in DOMAIN list_ : list_[k] = i]]
           ELSE r.nodes[i]]]

AddEdge(r, x, y) == [r EXCEPT !.nodes[x].out = @ \cup {y}, !.nodes[y].in = @ \cup {x}]

\* InsertEdge once the edge is in r: the search, and an undo or a new order.
FixRanks(old, r, x, y, deltaf) ==
    IF MeetsBound(r, deltaf, rank(r, x))
    THEN [rep |-> old, ok |-> FALSE]
    ELSE [rep |-> Reorder(r, deltaf, BackwardDFS(r, x, rank(r, y))), ok |-> TRUE]

\* Mutant: an edge with a rank one off passes for consistent.
InsertEdgeOffByOne(r, idx, idy) ==
    IF ~HasNode(r, idx) \/ ~HasNode(r, idy) THEN [rep |-> r, ok |-> TRUE]
    ELSE LET x == idx.index
             y == idy.index
         IN  IF x = y THEN [rep |-> r, ok |-> FALSE]
             ELSE IF y \in r.nodes[x].out THEN [rep |-> r, ok |-> TRUE]
             ELSE IF rank(r, x) <= rank(r, y) + 1 THEN [rep |-> AddEdge(r, x, y), ok |-> TRUE]
             ELSE FixRanks(r, AddEdge(r, x, y), x, y, ForwardDFS(AddEdge(r, x, y), y, rank(r, x)))

\* InsertEdge: the Rep after it, and what it returns.
InsertEdge(r, idx, idy) ==
    IF ~HasNode(r, idx) \/ ~HasNode(r, idy) THEN [rep |-> r, ok |-> TRUE]
    ELSE LET x == idx.index
             y == idy.index
         IN  IF x = y THEN [rep |-> r, ok |-> FALSE]
             ELSE IF y \in r.nodes[x].out THEN [rep |-> r, ok |-> TRUE]
             ELSE IF rank(r, x) <= rank(r, y) THEN [rep |-> AddEdge(r, x, y), ok |-> TRUE]
             ELSE FixRanks(r, AddEdge(r, x, y), x, y, ForwardDFS(AddEdge(r, x, y), y, rank(r, x)))

-----------------------------------------------------------------------------

RECURSIVE FindPathLoop(_, _, _, _, _)

\* Mutant: a node that is left stays on the path.
FindPathLoopKeeps(r, y, stack, path, seen) ==
    IF stack = << >> THEN << >>
    ELSE IF Last(stack) = 0 THEN FindPathLoop(r, y, Front(stack), path, seen)
    ELSE IF Last(stack) = y THEN Append(path, y)
    ELSE FindPathLoop(r, y,
                      Append(Front(stack), 0) \o SetToSortSeq(r.nodes[Last(stack)].out \ seen, <),
                      Append(path, Last(stack)), seen \cup r.nodes[Last(stack)].out)

\* The loop of FindPath; 0 on the stack marks that a node is left.
FindPathLoop(r, y, stack, path, seen) ==
    IF stack = << >> THEN << >>
    ELSE LET n    == Last(stack)
             rest == Front(stack)
             news == SetToSortSeq(r.nodes[n].out \ seen, <)
         IN  IF n = 0 THEN FindPathLoop(r, y, rest, Front(path), seen)
             ELSE IF n = y THEN Append(path, n)
             ELSE FindPathLoop(r, y, Append(rest, 0) \o news, Append(path, n),
                               seen \cup r.nodes[n].out)

\* FindPath: the indices of the path, empty if there is none.
FindPath(r, idx, idy) ==
    IF HasNode(r, idx) /\ HasNode(r, idy)
    THEN FindPathLoop(r, idy.index, <<idx.index>>, << >>, {})
    ELSE << >>

IsReachable(r, idx, idy) == FindPath(r, idx, idy) # << >>

-----------------------------------------------------------------------------

Ids(r) == {MakeId(r, i) : i \in {j \in Indices(r) : r.nodes[j].masked_ptr # NoPtr}}

\* Reference: what can be reached from i, whatever the ranks.
Reachable(r, i) == Closure({i}, [j \in Indices(r) |-> r.nodes[j].out])

(***************************************************************************)
(* GraphCycles::CheckInvariants: a live node is found by its pointer, the  *)
(* ranks are a permutation, every edge goes up in rank; and, which it does *)
(* not look at, in and out agree and a node that is not live has no edges. *)
(***************************************************************************)
CheckInvariants(r) ==
    /\ \A i, j \in Indices(r) :
         r.nodes[i].masked_ptr # NoPtr /\ r.nodes[i].masked_ptr = r.nodes[j].masked_ptr => i = j
    /\ {rank(r, i) : i \in Indices(r)} = 0..(Len(r.nodes) - 1)
    /\ \A i \in Indices(r) : \A j \in r.nodes[i].out : rank(r, i) < rank(r, j)
    /\ \A i, j \in Indices(r) : j \in r.nodes[i].out <=> i \in r.nodes[j].in
    /\ \A i \in Indices(r) :
         r.nodes[i].masked_ptr = NoPtr => r.nodes[i].out = {} /\ r.nodes[i].in = {}

(***************************************************************************)
(* The search bounded by ranks decides reachability: InsertEdge refuses an *)
(* edge exactly when it closes a cycle.                                    *)
(***************************************************************************)
RefusesExactlyCycles(r) ==
    \A x, y \in Ids(r) : InsertEdge(r, x, y).ok <=> x.index \notin Reachable(r, y.index)

(***************************************************************************)
(* FindPath returns a path along edges, if there is one.                   *)
(***************************************************************************)
PathsExist(r) ==
    \A x, y \in Ids(r) :
        LET path == FindPath(r, x, y)
        IN  /\ path # << >> <=> y.index \in Reachable(r, x.index)
            /\ path # << >> => path[1] = x.index /\ Last(path) = y.index
            /\ \A k \in 1..(Len(path) - 1) : path[k + 1] \in r.nodes[path[k]].out
=============================================================================
