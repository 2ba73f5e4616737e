------------------------------ MODULE MCWaiter ------------------------------
(***************************************************************************)
(* Timeouts for Waiter: none, a duration of 1, one that soon is beyond     *)
(* what a word holds, and a time that is not a whole microsecond.          *)
(***************************************************************************)
EXTENDS Waiter

Ask(c, n) == [clock |-> c, rel |-> FALSE, nanos |-> n]

AskedTimeouts == {Ask("never", 0), Ask("steady", 1), Ask("steady", 4), Ask("wall", 1)}
=============================================================================
