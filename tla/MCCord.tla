------------------------------- MODULE MCCord -------------------------------
(***************************************************************************)
(* Two cords that share a tree whose first leaf has one edge, and calls of *)
(* GetAppendBuffer.                                                        *)
(***************************************************************************)
EXTENDS CordBtree

Shared == {[back |-> 2, front |-> 1, other |-> 3, joined |-> TRUE, calls |-> 3]}
=============================================================================
