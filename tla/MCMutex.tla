------------------------------ MODULE MCMutex ------------------------------
(***************************************************************************)
(* Client programs and priorities for model checking Mutex.                *)
(***************************************************************************)
EXTENDS Mutex, TLC

CONSTANTS t1, t2, t3, t4,   \* threads
          ready             \* a condition

Call(op, how, cond, timed) ==
    [op |-> op, how |-> how, cond |-> cond, timed |-> timed, val |-> TRUE]

Plain(op) == Call(op, "kExclusive", "null", FALSE)

Lock          == Plain("Lock")
ReaderLock    == Call("Lock", "kShared", "null", FALSE)
TryLock       == Plain("TryLock")
ReaderTryLock == Call("TryLock", "kShared", "null", FALSE)
Unlocks       == Plain("Unlock")
SetReady      == Call("Set", "kExclusive", ready, FALSE)
AwaitReady    == Call("Await", "kExclusive", ready, FALSE)
AwaitReadyFor == Call("Await", "kExclusive", ready, TRUE)
WaitReady     == Call("Wait", "kExclusive", ready, FALSE)
WaitFor       == Call("Wait", "kExclusive", "null", TRUE)

LockWhenReady(how)    == Call("Lock", how, ready, FALSE)
LockWhenReadyFor(how) == Call("Lock", how, ready, TRUE)

Writer == <<Lock, Unlocks>>
Reader == <<ReaderLock, Unlocks>>
Setter == <<Lock, SetReady, Unlocks>>

EqualPrio == [t \in Threads |-> 0]

\* Thread t1 gets one of the programs A, t2 one of B, and so on.
Clients(A, B, C, D) ==
    {p \in [Threads -> A \cup B \cup C \cup D] : \A t \in Threads :
        p[t] \in CASE t = t1 -> A [] t = t2 -> B [] t = t3 -> C [] t = t4 -> D}

----------------------------------------------------------------------------
(* Readers, writers, TryLock and EnableDebugLog *)

Simple == {Writer, Reader, <<TryLock, Unlocks>>, <<ReaderTryLock, Unlocks>>}

RWPrograms ==
    Clients({<<Plain("EnableDebugLog")>> \o p : p \in Simple},
            Simple, Simple, {})

\* Timed waits for a condition that may never come true.
TimedPrograms ==
    LET await == {<<Lock, AwaitReadyFor, Unlocks>>}
        when(how) == {<<LockWhenReadyFor(how), Unlocks>>}
    IN  Clients({Setter}, await, {Reader}, {}) \cup
        Clients({Writer}, when("kExclusive"), when("kShared"), {})

\* One Signal for each waiter, inside and outside the critical section.
SignalPrograms ==
    Clients({<<Lock, SetReady, Plain("Signal"), Unlocks, Plain("Signal")>>},
            {<<Lock, WaitReady, Unlocks>>, <<Lock, WaitFor, Unlocks>>},
            {<<ReaderLock, WaitReady, Unlocks>>}, {})

LivePrograms == RWPrograms \cup TimedPrograms \cup SignalPrograms

(* The order of the queue: priorities, and chains of equivalent waiters, one *)
(* of which may leave its chain when its time is up                          *)

PrioPrograms ==
    Clients({Writer}, {Writer, Reader}, {Writer}, {Writer, Reader})

\* The equivalent readers keep the lock once they have it.
ChainPrograms ==
    LET chain == {<<LockWhenReady("kShared")>>}
        timed == {<<LockWhenReadyFor("kShared"), Unlocks>>}
    IN  Clients({Setter}, chain, timed, chain)

QueuePrograms == PrioPrograms \cup ChainPrograms

OneLowPrio == [t \in Threads |-> IF t = t1 THEN 0 ELSE 1]

(* Conditional critical sections, with and without deadlines *)

Waiting ==
    {<<LockWhenReady("kExclusive"), Unlocks>>,
     <<LockWhenReady("kShared"), Unlocks>>,
     <<LockWhenReadyFor("kShared"), Unlocks>>,
     <<Lock, AwaitReady, Unlocks>>, <<ReaderLock, AwaitReady, Unlocks>>}

CondPrograms ==
    {p \in Clients({Setter}, Waiting \cup {Reader}, Waiting \cup {Reader}, {}) :
        p[t2] = p[t3] => ~p[t2][1].timed}

\* Readers come and go while equivalent conditional readers queue up.
MaySkipPrograms ==
    LET last == LockWhenReady("kShared")
    IN  Clients({<<last, Unlocks>>},
                {Reader \o <<LockWhenReadyFor("kShared"), Unlocks>>},
                {Reader \o <<last, Unlocks>>}, {})

(* The condition variable *)

CvPrograms ==
    LET wait == <<Lock, WaitReady, Unlocks>>
        waits == {wait, <<Lock, WaitFor, Unlocks>>, <<ReaderLock, WaitReady, Unlocks>>}
    IN  {p \in Clients({<<Lock, SetReady, Plain("SignalAll"), Unlocks>>,
                        <<Lock, SetReady, Unlocks, Plain("SignalAll")>>},
                       waits, waits, {}) :
            wait \in {p[t2], p[t3]}}

WaitPrograms == CondPrograms \cup CvPrograms

OwnPrios == [t \in Threads |-> IF t = t1 THEN 2 ELSE 1]

Sym23  == Permutations({t2, t3})
Sym24  == Permutations({t2, t4})
=============================================================================
