------------------------- MODULE DeadlockDetection -------------------------
(***************************************************************************)
(* The deadlock detector of Mutex in debug mode (absl/synchronization/     *)
(* mutex.cc: DeadlockCheck, LockEnter, LockLeave, ForgetDeadlockInfo): the *)
(* locks each thread holds, and the graph of the orders in which locks     *)
(* were ever taken, over GraphCycles.  Mode kReport.                       *)
(*                                                                         *)
(* DeadlockCheck runs under deadlock_graph_mu and is one step; a thread's  *)
(* list of locks is its own, so LockEnter and LockLeave go with the        *)
(* acquisition and the release.                                            *)
(***************************************************************************)
EXTENDS GraphCycles

CONSTANTS
    Threads, Mutexes,
    kMaxLocks,   \* ABSL_ARRAYSIZE(SynchLocksHeld::locks)
    MaxNodes,    \* bound: nodes of the graph
    Limits       \* bounds; a behaviour has one of these records:
                 \*   users, locks: the threads and mutexes that take part
                 \*   hows: the modes in which they lock
                 \*   hold: acquisitions a thread may have open
                 \*   forgets: calls of ForgetDeadlockInfo
                 \*   switches: calls of SetMutexDeadlockDetectionMode

VARIABLES
    limits,
    rep,       \* deadlock_graph
    mode,      \* synch_deadlock_detection
    switches, forgets,
    own,       \* own[t][m]: how t holds m, a sequence of modes
    held,      \* SynchLocksHeld::locks of each thread
    overflow,  \* SynchLocksHeld::overflow
    pending,   \* the blocking acquisition a thread is in
    died       \* LockLeave logged FATAL

vars == <<limits, rep, mode, switches, forgets, own, held, overflow, pending, died>>

NoCall == [mu |-> NoPtr, how |-> "none", id |-> InvalidGraphId, reported |-> FALSE, full |-> TRUE]

Init ==
    /\ limits \in Limits
    /\ rep = EmptyRep
    /\ mode = "kReport" /\ switches = 0 /\ forgets = 0
    /\ own = [t \in Threads |-> [m \in Mutexes |-> << >>]]
    /\ held = [t \in Threads |-> << >>]
    /\ overflow = [t \in Threads |-> FALSE]
    /\ pending = [t \in Threads |-> NoCall]
    /\ died = FALSE

Idle(t) == pending[t] = NoCall /\ ~died

Open(t) == FoldSet(LAMBDA m, n : n + Len(own[t][m]), 0, Mutexes)

\* The lock word lets t in; a thread that already holds the lock waits for
\* itself unless both are readers.
Blocks(u, t, m, how) ==
    \E k \in DOMAIN own[u][m] : how = "kExclusive" \/ own[u][m][k] = "kExclusive"

Available(t, m, how) == \A u \in Threads : ~Blocks(u, t, m, how)

\* Mutant: only the lock taken last is looked at.
InsertEdgesLast(r, locks, id) ==
    IF locks = << >> \/ Ptr(r, Last(locks).id) = NoPtr THEN [rep |-> r, ok |-> TRUE]
    ELSE InsertEdge(r, Last(locks).id, id)

RECURSIVE InsertEdges(_, _, _)

\* DeadlockCheck's loop over the locks held: an edge from each that is not
\* stale, up to the first that is refused.
InsertEdges(r, locks, id) ==
    IF locks = << >> THEN [rep |-> r, ok |-> TRUE]
    ELSE IF Ptr(r, Head(locks).id) = NoPtr THEN InsertEdges(r, Tail(locks), id)
    ELSE LET inserted == InsertEdge(r, Head(locks).id, id)
         IN  IF inserted.ok THEN InsertEdges(inserted.rep, Tail(locks), id) ELSE inserted

\* The whole of it.
DeadlockCheck(r, locks, mu) ==
    LET got == GetId(r, mu)
        ins == InsertEdges(got.rep, locks, got.id)
    IN  [rep |-> ins.rep, id |-> got.id, reported |-> ~ins.ok]

\* A stale entry, or a lock that is not in the list, is not checked against.
Complete(r, locks, t) ==
    /\ ~overflow[t]
    /\ \A m \in Mutexes : own[t][m] # << >> =>
         \E k \in DOMAIN locks : Ptr(r, locks[k].id) = m

\* Lock, ReaderLock and the LockWhens, before they block.
Lock(t, m, how) ==
    /\ Idle(t) /\ Open(t) < limits.hold
    /\ IF mode = "kIgnore"
       THEN pending' = [pending EXCEPT ![t] = [mu |-> m, how |-> how, id |-> InvalidGraphId,
                                               reported |-> FALSE, full |-> FALSE]]
            /\ UNCHANGED rep
       ELSE \E c \in {DeadlockCheck(rep, held[t], m)} :
              /\ Len(c.rep.nodes) <= MaxNodes
              /\ rep' = c.rep
              /\ pending' = [pending EXCEPT ![t] =
                    [mu |-> m, how |-> how, id |-> c.id, reported |-> c.reported,
                     full |-> Complete(rep, held[t], t)]]
    /\ UNCHANGED <<limits, mode, switches, forgets, own, held, overflow, died>>

-----------------------------------------------------------------------------

With(locks, id) == {k \in DOMAIN locks : locks[k].id = id}

\* Mutant: a lock that is in the list is listed again.
LockEnterAppends(t, m, id) ==
    /\ held' = [held EXCEPT ![t] = Append(@, [mu |-> m, id |-> id, count |-> 1])]
    /\ UNCHANGED overflow

\* LockEnter, unless the detector is off.
LockEnter(t, m, id) ==
    \/ /\ mode = "kIgnore"
       /\ UNCHANGED <<held, overflow>>
    \/ /\ mode # "kIgnore" /\ With(held[t], id) # {}
       /\ held' = [held EXCEPT ![t][CHOOSE k \in With(held[t], id) : TRUE].count = @ + 1]
       /\ UNCHANGED overflow
    \/ /\ mode # "kIgnore" /\ With(held[t], id) = {} /\ Len(held[t]) < kMaxLocks
       /\ held' = [held EXCEPT ![t] = Append(@, [mu |-> m, id |-> id, count |-> 1])]
       /\ UNCHANGED overflow
    \/ /\ mode # "kIgnore" /\ With(held[t], id) = {} /\ Len(held[t]) = kMaxLocks
       /\ overflow' = [overflow EXCEPT ![t] = TRUE]
       /\ UNCHANGED held

\* The blocking acquisition succeeds.
Acquire(t) ==
    /\ pending[t] # NoCall /\ ~died
    /\ \E m \in {pending[t].mu}, how \in {pending[t].how} :
         /\ Available(t, m, how)
         /\ own' = [own EXCEPT ![t][m] = Append(@, how)]
         /\ LockEnter(t, m, pending[t].id)
    /\ pending' = [pending EXCEPT ![t] = NoCall]
    /\ UNCHANGED <<limits, rep, mode, switches, forgets, died>>

\* TryLock and ReaderTryLock: no edges.
TryLock(t, m, how) ==
    /\ Idle(t) /\ Open(t) < limits.hold /\ Available(t, m, how)
    /\ own' = [own EXCEPT ![t][m] = Append(@, how)]
    /\ IF mode = "kIgnore" THEN UNCHANGED <<rep, held, overflow>>
       ELSE \E got \in {GetId(rep, m)} :
              /\ Len(got.rep.nodes) <= MaxNodes
              /\ rep' = got.rep
              /\ LockEnter(t, m, got.id)
    /\ UNCHANGED <<limits, mode, switches, forgets, pending, died>>

\* Entry k of the list is filled with the last one.
RemoveEntry(locks, k) == Front([locks EXCEPT ![k] = Last(locks)])

\* Mutant: a lock whose id has changed passes for one that is not held.
LockLeaveById(t, m, id) ==
    \/ /\ With(held[t], id) # {}
       /\ \E k \in With(held[t], id) :
            held' = [held EXCEPT ![t] = IF @[k].count = 1 THEN RemoveEntry(@, k)
                                        ELSE [@ EXCEPT ![k].count = @ - 1]]
       /\ UNCHANGED died
    \/ /\ With(held[t], id) = {}
       /\ died' = ~overflow[t]
       /\ UNCHANGED held

\* LockLeave.  When the id of the lock has changed since LockEnter, the
\* entry stays.
LockLeave(t, m, id) ==
    \/ /\ With(held[t], id) # {}
       /\ \E k \in With(held[t], id) :
            held' = [held EXCEPT ![t] = IF @[k].count = 1 THEN RemoveEntry(@, k)
                                        ELSE [@ EXCEPT ![k].count = @ - 1]]
       /\ UNCHANGED died
    \/ /\ With(held[t], id) = {}
       /\ died' = (~overflow[t] /\ \A k \in DOMAIN held[t] : held[t][k].mu # m)
       /\ UNCHANGED held

\* Unlock and ReaderUnlock.
Unlock(t, m) ==
    /\ Idle(t) /\ own[t][m] # << >>
    /\ own' = [own EXCEPT ![t][m] = Front(@)]
    /\ IF mode = "kIgnore" THEN UNCHANGED <<rep, held, died>>
       ELSE \E got \in {GetId(rep, m)} :
              /\ Len(got.rep.nodes) <= MaxNodes
              /\ rep' = got.rep
              /\ LockLeave(t, m, got.id)
    /\ UNCHANGED <<limits, mode, switches, forgets, overflow, pending>>

\* Anyone may call this at any time; the destructor does when nobody has the
\* lock.  What pending calls were checked against is then out of date.
ForgetDeadlockInfo(m) ==
    /\ mode # "kIgnore" /\ Find(rep, m) # {} /\ ~died
    /\ forgets < limits.forgets /\ forgets' = forgets + 1
    /\ rep' = RemoveNode(rep, m)
    /\ pending' = [t \in Threads |->
                     IF pending[t] # NoCall /\ (pending[t].mu = m \/ own[t][m] # << >>)
                     THEN [pending[t] EXCEPT !.full = FALSE] ELSE pending[t]]
    /\ UNCHANGED <<limits, mode, switches, own, held, overflow, died>>

SetMutexDeadlockDetectionMode(new) ==
    /\ switches < limits.switches /\ new # mode /\ ~died
    /\ mode' = new /\ switches' = switches + 1
    /\ UNCHANGED <<limits, rep, forgets, own, held, overflow, pending, died>>

Next ==
    \/ \E t \in limits.users :
         \/ Acquire(t)
         \/ \E m \in limits.locks :
              \/ Unlock(t, m)
              \/ \E how \in limits.hows : Lock(t, m, how) \/ TryLock(t, m, how)
    \/ \E m \in Mutexes : ForgetDeadlockInfo(m)
    \/ \E new \in {"kIgnore", "kReport"} : SetMutexDeadlockDetectionMode(new)

Spec == Init /\ [][Next]_vars

-----------------------------------------------------------------------------

TypeOK ==
    /\ mode \in {"kIgnore", "kReport"}
    /\ \A t \in Threads : Len(held[t]) <= kMaxLocks
    /\ \A t \in Threads : \A k \in DOMAIN held[t] :
         held[t][k].mu \in Mutexes /\ held[t][k].count \in 1..limits.hold
    /\ pending \in [Threads -> [mu : Mutexes \cup {NoPtr}, how : limits.hows \cup {"none"},
                                id : [index : 0..MaxNodes, version : 0..kMaxVersion],
                                reported : BOOLEAN, full : BOOLEAN]]

(***************************************************************************)
(* The ranks of the nodes order the graph, every edge is known at both its *)
(* ends, and the map from pointers finds each live node.                   *)
(***************************************************************************)
GraphInvariants == CheckInvariants(rep)

(***************************************************************************)
(* InsertEdge refuses an edge exactly if it would close a cycle.           *)
(***************************************************************************)
OrdersRefusedExactly == RefusesExactlyCycles(rep)

(***************************************************************************)
(* FindPath, with which DeadlockCheck reports the cycle, finds a path      *)
(* exactly where there is one, and what it finds is one.                   *)
(***************************************************************************)
ReportShowsCycle == PathsExist(rep)

\* t waits for a lock that u holds in a way that keeps t out.
WaitsFor(t, u) ==
    pending[t] # NoCall /\ Blocks(u, t, pending[t].mu, pending[t].how)

Deadlocked == {t \in Threads : \E c \in {Closure({u \in Threads : WaitsFor(t, u)},
                 [u \in Threads |-> {w \in Threads : WaitsFor(u, w)}])} : t \in c}

(***************************************************************************)
(* DeadlockCheck misses no deadlock: of the threads that wait in a circle  *)
(* one has been told so when it asked for its lock, if all of them were    *)
(* checked against all they hold, and nothing of it was forgotten since.   *)
(***************************************************************************)
DeadlockReported ==
    \A c \in SUBSET Deadlocked :
        /\ c # {}
        /\ \A t \in c : pending[t].full /\ \E u \in c : WaitsFor(t, u)
        => \E t \in c : pending[t].reported

(***************************************************************************)
(* LockLeave does not die for a lock that the thread does hold, unless the *)
(* detection was off when the lock was taken and has been switched on.     *)
(***************************************************************************)
NoFalseFatal == switches <= 1 => ~died

(***************************************************************************)
(* Each entry of a thread's list is for a lock it holds as often as the    *)
(* count says, unless the lock's id has been forgotten since: a stale id   *)
(* never comes back to life for another lock.                              *)
(***************************************************************************)
HeldListed ==
    switches = 0 =>
        \A t \in Threads : \A k \in DOMAIN held[t] :
            Ptr(rep, held[t][k].id) # NoPtr =>
                /\ Ptr(rep, held[t][k].id) = held[t][k].mu
                /\ ~overflow[t] => held[t][k].count <= Len(own[t][held[t][k].mu])
============================================================================
