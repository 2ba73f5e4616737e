-------------------------------- MODULE Flag --------------------------------
(***************************************************************************)
(* FlagImpl (absl/flags/internal/flag.cc): one command line flag that      *)
(* several threads read, set, save and restore, with its mutation          *)
(* callback, for the storage kinds kOneWordAtomic, kSequenceLocked and     *)
(* kAlignedBuffer.  Each thread makes one call.                            *)
(*                                                                         *)
(* The value behind the sequence lock is read in one step when no Write is *)
(* in progress, which SequenceLock shows of TryRead; a Write is two steps. *)
(* data_guard_ is the lock that Mutex implements.                          *)
(***************************************************************************)
EXTENDS Integers, Sequences, FiniteSets

CONSTANTS
    Threads, None,
    Programs     \* how the flag is stored, whether it has a callback from
                 \* the beginning, and the call each thread makes

VARIABLES
    kind, op,
    init_control,    \* call_once of Init
    value, lock_,    \* the number of the store it is from; seq_lock_
    modified_, on_command_line_,
    callback_,       \* is there one
    own,             \* data_guard_
    guard,           \* callback_->guard: its holder
    pc, got, saved,  \* where each thread is, what it read, what it saved
    stores,          \* values stored so far, in order
    from,            \* length of stores when the thread's call began
    user_set,        \* a client has set the value, and nobody restored it
    seen             \* what the last callback made of the flag

call   == <<kind, op>>
store  == <<value, lock_, stores>>
bits   == <<modified_, on_command_line_, user_set>>
locks  == <<own, guard>>
vars   == <<call, init_control, store, bits, callback_, locks, pc, got, saved, from, seen>>

Lock == INSTANCE RWLock

Uninitialized == -1
Odd(n) == n % 2 = 1

Init ==
    /\ \E p \in Programs : kind = p.kind /\ callback_ = p.callback /\ op = p.op
    /\ init_control = "kOnceInit"
    /\ value = Uninitialized /\ lock_ = -1 /\ stores = << >>
    /\ modified_ = FALSE /\ on_command_line_ = FALSE /\ user_set = FALSE
    /\ Lock!Init /\ guard = None
    /\ pc = [t \in Threads |-> IF op[t] = "Get" THEN "Get" ELSE "DataGuard"]
    /\ got = [t \in Threads |-> Uninitialized]
    /\ saved = [t \in Threads |-> << >>]
    /\ from = [t \in Threads |-> 0] /\ seen = 0

Goto(t, p) == pc' = [pc EXCEPT ![t] = p]
Unlocked == \A u \in Threads : own[u] = "free"

-----------------------------------------------------------------------------
(***************************************************************************)
(* Initialization, which every call but a fast read waits for              *)
(***************************************************************************)

\* Init runs once: the default value, number 1, and MarkInitialized.
InitValue(t) ==
    /\ pc[t] = "DataGuard" /\ init_control = "kOnceInit"
    /\ init_control' = "kOnceRunning"
    /\ value' = 1 /\ stores' = <<1>>
    /\ Goto(t, "MarkInitialized")
    /\ UNCHANGED <<call, lock_, bits, callback_, locks, got, saved, from, seen>>

MarkInitialized(t) ==
    /\ pc[t] = "MarkInitialized"
    /\ init_control' = "kOnceDone" /\ lock_' = 0
    /\ Goto(t, "DataGuard")
    /\ UNCHANGED <<call, value, stores, bits, callback_, locks, got, saved, from, seen>>

DataGuard(t) ==
    /\ pc[t] = "DataGuard" /\ init_control = "kOnceDone"
    /\ Goto(t, IF op[t] = "Get" THEN "Read" ELSE "Lock")
    /\ UNCHANGED <<call, init_control, store, bits, callback_, locks, got, saved, from, seen>>

-----------------------------------------------------------------------------
(***************************************************************************)
(* Reading                                                                 *)
(***************************************************************************)

\* Mutant: a word of a Write in progress does as well.
ReadableAnyway == kind # "kAlignedBuffer"

\* What can be read without the lock: an initialized word, and the words
\* behind the sequence lock while no Write is in progress.
Readable ==
    \/ kind = "kOneWordAtomic" /\ value # Uninitialized
    \/ kind = "kSequenceLocked" /\ ~Odd(lock_)

\* TryRead may fail beside a Write that has ended by now, too.
FastRead(t, failure) ==
    \/ /\ Readable
       /\ got' = [got EXCEPT ![t] = value]
       /\ Goto(t, "done")
    \/ /\ ~Readable \/ kind = "kSequenceLocked"
       /\ Goto(t, failure)
       /\ UNCHANGED got

\* Flag::Get
Get(t) ==
    /\ pc[t] = "Get"
    /\ from' = [from EXCEPT ![t] = Len(stores)]
    /\ FastRead(t, "DataGuard")
    /\ UNCHANGED <<call, init_control, store, bits, callback_, locks, saved, seen>>

\* FlagImpl::Read, for the kinds that have a first try without the lock
Read(t) ==
    /\ pc[t] = "Read"
    /\ FastRead(t, "ReaderLock")
    /\ UNCHANGED <<call, init_control, store, bits, callback_, locks, saved, from, seen>>

ReaderLock(t) ==
    /\ pc[t] = "ReaderLock"
    /\ IF kind = "kSequenceLocked" THEN Lock!AcquireShared(t) ELSE Lock!AcquireExclusive(t)
    /\ Goto(t, "ReadLocked")
    /\ UNCHANGED <<call, init_control, store, bits, callback_, guard, got, saved, from, seen>>

\* With the lock held the read is assumed to succeed.
Current == IF kind = "kSequenceLocked" /\ Odd(lock_) THEN Uninitialized ELSE value

ReadLocked(t) ==
    /\ pc[t] = "ReadLocked"
    /\ Lock!Release(t)
    /\ got' = [got EXCEPT ![t] = Current]
    /\ Goto(t, "done")
    /\ UNCHANGED <<call, init_control, store, bits, callback_, guard, saved, from, seen>>

-----------------------------------------------------------------------------
(***************************************************************************)
(* Setting: the body of a call with the lock held                          *)
(***************************************************************************)
Acquire(t) ==
    /\ pc[t] = "Lock"
    /\ Lock!AcquireExclusive(t)
    /\ Goto(t, "Locked")
    /\ UNCHANGED <<call, init_control, store, bits, callback_, guard, got, saved, from, seen>>

\* A new value, or the saved one.
StoreSource(t) ==
    IF op[t] = "Restore" THEN saved[t].value
    ELSE Cardinality({stores[i] : i \in 1..Len(stores)}) + 1

Put(t) == value' = StoreSource(t) /\ stores' = Append(stores, StoreSource(t))

\* The first step of StoreValue: the value, or the sequence counter.
StoreValue(t) ==
    /\ IF kind = "kSequenceLocked" THEN lock_' = lock_ + 1 /\ UNCHANGED <<value, stores>>
       ELSE lock_' = lock_ + 2 /\ Put(t)
    /\ Goto(t, "Stored")
    /\ UNCHANGED <<call, init_control, bits, callback_, locks, got, saved, from, seen>>

\* The call is over.
Return(t) ==
    /\ Lock!Release(t) /\ Goto(t, "done")
    /\ UNCHANGED <<call, init_control, store, bits, callback_, guard, got, saved, from, seen>>

\* Mutant: SET_FLAG_IF_DEFAULT does not ask whether the flag is modified.
SetRegardless(t) ==
    /\ pc[t] = "Locked" /\ op[t] \in {"Write", "SetValue", "SetIfDefault", "SetDefault"}
    /\ StoreValue(t)

\* Write; ParseFrom in its three modes, where the text may not parse.
Set(t) ==
    /\ pc[t] = "Locked" /\ op[t] \in {"Write", "SetValue", "SetIfDefault", "SetDefault"}
    /\ \/ (op[t] \in {"SetIfDefault", "SetDefault"} => ~modified_) /\ StoreValue(t)
       \/ op[t] \in {"SetIfDefault", "SetDefault"} /\ modified_ /\ Return(t)
       \/ op[t] # "Write" /\ Return(t)

\* SaveState; the saver restores later.
SaveState(t) ==
    /\ pc[t] = "Locked" /\ op[t] = "Restore" /\ saved[t] = << >>
    /\ saved' = [saved EXCEPT ![t] =
          [value |-> Current, modified |-> modified_, on_command_line |-> on_command_line_,
           counter |-> lock_ \div 2, user_set |-> user_set]]
    /\ Lock!Release(t) /\ Goto(t, "Lock")
    /\ UNCHANGED <<call, init_control, store, bits, callback_, guard, got, from, seen>>

\* Mutant: a flag whose value is not modified need not be restored.
RestoreStateIfModified(t) ==
    /\ pc[t] = "Locked" /\ op[t] = "Restore" /\ saved[t] # << >>
    /\ IF ~modified_ THEN Return(t) ELSE StoreValue(t)

RestoreState(t) ==
    /\ pc[t] = "Locked" /\ op[t] = "Restore" /\ saved[t] # << >>
    /\ IF saved[t].counter = lock_ \div 2 THEN Return(t) ELSE StoreValue(t)

\* SetCallback, which invokes it.
SetCallback(t) ==
    /\ pc[t] = "Locked" /\ op[t] = "SetCallback"
    /\ callback_' = TRUE
    /\ Lock!Release(t) /\ Goto(t, "Callback")
    /\ UNCHANGED <<call, init_control, store, bits, guard, got, saved, from, seen>>

\* The rest of StoreValue, up to the callback, for which the lock is given up.
StoreValueEnd(t) ==
    /\ pc[t] = "Stored"
    /\ IF kind = "kSequenceLocked" THEN lock_' = lock_ + 1 /\ Put(t) ELSE UNCHANGED store
    /\ modified_' = TRUE
    /\ user_set' = IF op[t] = "Restore" THEN saved[t].user_set
                   ELSE user_set \/ op[t] \in {"Write", "SetValue"}
    /\ IF callback_ THEN Lock!Release(t) /\ Goto(t, "Callback")
       ELSE UNCHANGED own /\ Goto(t, "Finish")
    /\ UNCHANGED <<call, init_control, on_command_line_, callback_, guard, got, saved, from, seen>>

\* Mutant: callbacks run beside each other.
InvokeCallbackUnguarded(t) ==
    /\ pc[t] = "Callback"
    /\ guard' = t /\ Goto(t, "CallbackRead")
    /\ UNCHANGED <<call, init_control, store, bits, callback_, own, got, saved, from, seen>>

InvokeCallback(t) ==
    /\ pc[t] = "Callback" /\ guard = None
    /\ guard' = t /\ Goto(t, "CallbackRead")
    /\ UNCHANGED <<call, init_control, store, bits, callback_, own, got, saved, from, seen>>

\* The callback reads the flag, which waits for a Write in progress,
CallbackRead(t) ==
    /\ pc[t] = "CallbackRead" /\ (Readable \/ Unlocked)
    /\ got' = [got EXCEPT ![t] = value]
    /\ Goto(t, "CallbackUse")
    /\ UNCHANGED <<call, init_control, store, bits, callback_, locks, saved, from, seen>>

\* and does something with it.
CallbackUse(t) ==
    /\ pc[t] = "CallbackUse"
    /\ seen' = got[t]
    /\ guard' = None /\ Goto(t, "Relock")
    /\ UNCHANGED <<call, init_control, store, bits, callback_, own, got, saved, from>>

Relock(t) ==
    /\ pc[t] = "Relock"
    /\ Lock!AcquireExclusive(t)
    /\ Goto(t, "Finish")
    /\ UNCHANGED <<call, init_control, store, bits, callback_, guard, got, saved, from, seen>>

\* What the call does after StoreValue.
Finish(t) ==
    /\ pc[t] = "Finish"
    /\ modified_' = IF op[t] = "Restore" THEN saved[t].modified
                    ELSE modified_ /\ op[t] # "SetDefault"
    /\ on_command_line_' = IF op[t] = "Restore" THEN saved[t].on_command_line
                           ELSE on_command_line_ \/ op[t] = "SetValue"
    /\ Lock!Release(t) /\ Goto(t, "done")
    /\ UNCHANGED <<call, init_control, store, user_set, callback_, guard, got, saved, from, seen>>

Step(t) ==
    \/ InitValue(t) \/ MarkInitialized(t) \/ DataGuard(t)
    \/ Get(t) \/ Read(t) \/ ReaderLock(t) \/ ReadLocked(t)
    \/ Acquire(t) \/ Set(t) \/ SaveState(t) \/ RestoreState(t) \/ SetCallback(t)
    \/ StoreValueEnd(t) \/ InvokeCallback(t) \/ CallbackRead(t) \/ CallbackUse(t)
    \/ Relock(t) \/ Finish(t)

Next == \E t \in Threads : Step(t)

Fairness == \A t \in Threads : WF_vars(Step(t))

Spec == Init /\ [][Next]_vars /\ Fairness

-----------------------------------------------------------------------------

TypeOK ==
    /\ lock_ \in Int /\ value \in Int
    /\ modified_ \in BOOLEAN /\ on_command_line_ \in BOOLEAN /\ callback_ \in BOOLEAN
    /\ guard \in Threads \cup {None}
    /\ got \in [Threads -> Int]

(***************************************************************************)
(* GetFlag returns a value that the flag had at some time between the call *)
(* and the return, and never one that is not initialized, whichever of the *)
(* three tries of the read succeeds.                                       *)
(***************************************************************************)
ReadsAreCurrent ==
    \A t \in Threads : op[t] = "Get" /\ pc[t] = "done" =>
        \E i \in 1..Len(stores) : i >= from[t] /\ stores[i] = got[t]

(***************************************************************************)
(* RestoreState does nothing only if the flag has the saved value: the     *)
(* modification counter tells.                                             *)
(***************************************************************************)
RestoreSkipsSameValue ==
    [][\A t \in Threads :
          op[t] = "Restore" /\ pc[t] = "Locked" /\ pc'[t] = "done" => value = saved[t].value]_vars

(***************************************************************************)
(* InvokeCallback: when all calls are over, the callback that ran last has *)
(* seen the flag's last value, though the flag was unlocked for it.        *)
(***************************************************************************)
CallbackSeesLatest ==
    (\A t \in Threads : pc[t] = "done") /\ seen # 0 => seen = value

(***************************************************************************)
(* ParseFrom, SET_FLAG_IF_DEFAULT: the call leaves a value alone that a    *)
(* client has set, if the flag has no callback.                            *)
(***************************************************************************)
SetIfDefaultKeeps ==
    [][\A t \in Threads :
          ~callback_ /\ op[t] = "SetIfDefault" /\ pc[t] = "Locked" /\ pc'[t] = "Stored" => ~user_set]_vars

(***************************************************************************)
(* The same of any flag: "set the flag's value, but only if it hasn't been *)
(* set by someone else" (flag.cc).                                         *)
(***************************************************************************)
SetOnlyIfDefault ==
    [][\A t \in Threads :
          op[t] = "SetIfDefault" /\ pc[t] = "Locked" /\ pc'[t] = "Stored" => ~user_set]_vars
=============================================================================
