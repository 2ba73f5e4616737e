------------------------------- MODULE MCFlag -------------------------------
(***************************************************************************)
(* A flag with a callback: one thread sets its default value, one its      *)
(* value, and one its value if nobody did.                                 *)
(***************************************************************************)
EXTENDS Flag

RaceProgram ==
    {[kind |-> "kOneWordAtomic", callback |-> TRUE,
      op |-> <<"SetDefault", "Write", "SetIfDefault">>]}
=============================================================================
