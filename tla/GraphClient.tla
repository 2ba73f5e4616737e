---------------------------- MODULE GraphClient ----------------------------
(***************************************************************************)
(* The interface of GraphCycles, called in any order, with ids that may    *)
(* have expired: GetId, RemoveNode, InsertEdge, RemoveEdge.                *)
(***************************************************************************)
EXTENDS GraphCycles

CONSTANTS Ptrs, MaxRemovals

VARIABLES rep, forgets

vars == <<rep, forgets>>

Init == rep = EmptyRep /\ forgets = 0

\* The ids of live nodes, and the ones that expired.  (The last id of a node
\* whose versions are used up never expires, so a client must not use it.)
Issued == Ids(rep) \cup
          UNION {{[index |-> i, version |-> v] : v \in 1..(rep.nodes[i].version - 1)} : i \in Indices(rep)}

Next ==
    \/ \E p \in Ptrs : rep' = GetId(rep, p).rep /\ UNCHANGED forgets
    \/ \E p \in Ptrs :
         /\ forgets < MaxRemovals /\ Find(rep, p) # {}
         /\ forgets' = forgets + 1
         /\ rep' = RemoveNode(rep, p)
    \/ \E x, y \in Issued :
         /\ \/ rep' = InsertEdge(rep, x, y).rep
            \/ HasEdge(rep, x, y) /\ rep' = RemoveEdge(rep, x, y)
         /\ UNCHANGED forgets

Spec == Init /\ [][Next]_vars
=============================================================================
