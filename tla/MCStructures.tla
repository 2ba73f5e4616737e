---------------------------- MODULE MCStructures ----------------------------
(***************************************************************************)
(* The data structures that are changed under a lock or by one owner: the  *)
(* arena of LowLevelAlloc, the B-tree of the containers and the tree of    *)
(* Cord, each on its own (see MCParts).                                    *)
(***************************************************************************)
EXTENDS Integers, Sequences

VARIABLES
    part,
    arena, mapped, la_pc, want, blocks,
    bt_root, bt_size, bt_limits, bt_kept,
    heap, cord_root, calls, cord_kept

allocVars == <<arena, mapped, la_pc, want, blocks>>
btreeVars == <<bt_root, bt_size, bt_limits, bt_kept>>
cordVars == <<heap, cord_root, calls, cord_kept>>
structureVars == <<allocVars, btreeVars, cordVars>>

\* B-trees of up to 14 values with any number of calls, and two calls on trees
\* of three levels that have grown at one end.
Tree(initial, at, size, n) ==
    [initial |-> initial, at |-> at, size |-> size, calls |-> n]
Trees == {Tree(0, "back", 14, -1), Tree(25, "front", 26, 2), Tree(25, "back", 26, 2)}

\* Cords from nothing, and cords of one to three levels that share a tree or not.
Cord(back, front, other, joined, n) ==
    [back |-> back, front |-> front, other |-> other, joined |-> joined, calls |-> n]
NoCords == Cord(0, 0, 0, FALSE, 3)
CordPairs ==
    {NoCords, Cord(1, 0, 2, TRUE, 2), Cord(2, 1, 0, TRUE, 2), Cord(2, 1, 3, TRUE, 2),
     Cord(4, 1, 2, FALSE, 2)}

LA == INSTANCE LowLevelAlloc WITH
        Threads <- 1..2, kMaxLevel <- 4, Units <- 10, pagesize <- 2, ChunkPages <- 2,
        Requests <- {1, 2, 4}, pc <- la_pc
BT == INSTANCE Btree WITH
        kNodeSlots <- 4, Starts <- Trees, RangeLengths <- {1, 3, 9},
        root <- bt_root, size <- bt_size, limits <- bt_limits, kept <- bt_kept
CB == INSTANCE CordBtree WITH
        kMaxCapacity <- 2, kMaxHeight <- 2, kMaxFlatLength <- 2, DataLengths <- {1, 5},
        MaxBytes <- 8, Starts <- CordPairs, SharedTop <- FALSE,
        root <- cord_root, kept <- cord_kept

Structures == {"LowLevelAlloc", "Btree", "CordBtree"}

\* A part with several initial states rests in this one.
BtreeAtRest == bt_size = 0
CordsAtRest == heap = << >>

InitStructures ==
    /\ LA!Init /\ BT!Init /\ CB!Init
    /\ part # "Btree" => BtreeAtRest
    /\ part # "CordBtree" => CordsAtRest

NextStructures ==
    /\ \/ part = "LowLevelAlloc" /\ LA!Next /\ UNCHANGED <<btreeVars, cordVars>>
       \/ part = "Btree" /\ BT!Next /\ UNCHANGED <<allocVars, cordVars>>
       \/ part = "CordBtree" /\ CB!Next /\ UNCHANGED <<allocVars, btreeVars>>
    /\ UNCHANGED part

-----------------------------------------------------------------------------

\* LowLevelAlloc: the blocks of the clients and the free ones tile what mmap has
\* returned, and the skip list leads to every free block at the levels at which
\* the first-fit search looks for its size.
AllocInv ==
    part = "LowLevelAlloc" =>
        LA!BlocksTile /\ LA!FreeListSorted

\* B-tree: every call leaves the right values in order and returns the right
\* iterator, and the tree stays what verify() asserts.
BtreeInv ==
    part = "Btree" =>
        BT!CallsKeepOrder /\ BT!Verified

\* Cord: a call changes its own cord as it says and no other cord, and every
\* node is freed with its last reference, neither earlier nor later.
CordInv ==
    part = "CordBtree" =>
        CB!CallsKeepCords /\ CB!NothingDangles
=============================================================================
