------------------------------ MODULE MCFlags -------------------------------
(***************************************************************************)
(* A flag, with its variables and its promises under names of their own:   *)
(* MCParts model-checks it, and FlagProofs proves them of any number of    *)
(* threads and any calls.                                                  *)
(***************************************************************************)
EXTENDS Integers, Sequences, FiniteSets

CONSTANTS FlagUsers, NoUser, FlagPrograms

ASSUME FlagAssumption ==
    /\ NoUser \notin FlagUsers
    /\ \A p \in FlagPrograms :
          /\ p.kind \in {"kOneWordAtomic", "kSequenceLocked", "kAlignedBuffer"}
          /\ p.callback \in BOOLEAN
          /\ p.op \in [FlagUsers -> {"Get", "Write", "SetValue", "SetIfDefault",
                                     "SetDefault", "Restore", "SetCallback"}]

VARIABLES
    kind, op, init_control, value, lock_, modified_, on_command_line_, callback_,
    data_guard, guard, fl_pc, got, saved, stores, from, user_set, seen

flagVars == <<kind, op, init_control, value, lock_, modified_, on_command_line_,
              callback_, data_guard, guard, fl_pc, got, saved, stores, from,
              user_set, seen>>

Fl == INSTANCE Flag WITH
        Threads <- FlagUsers, None <- NoUser, Programs <- FlagPrograms,
        own <- data_guard, pc <- fl_pc

\* Flag: GetFlag returns a value the flag had during the call, and the callback
\* that runs last sees the last value.
FlagInv == Fl!TypeOK /\ Fl!ReadsAreCurrent /\ Fl!CallbackSeesLatest

\* Flag: RestoreState skips the store only if the value is the saved one, and
\* SET_FLAG_IF_DEFAULT leaves a set flag without callback alone.
FlagSteps == Fl!RestoreSkipsSameValue /\ Fl!SetIfDefaultKeeps
=============================================================================
