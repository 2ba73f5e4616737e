----------------------------- MODULE MutexQueue -----------------------------
(***************************************************************************)
(* The waiter queue of absl::Mutex: the pure operations of                 *)
(* absl/synchronization/mutex.cc on the circular list of PerThreadSynch    *)
(* structures, their skip chains, and the priority insertion.              *)
(*                                                                         *)
(* A list L is a record: L.q is the cycle read from the front to the       *)
(* "head" (which in the code is the LAST waiter, head->next being the      *)
(* front); L.x[t] holds the fields of thread t's PerThreadSynch that the   *)
(* queue code uses, with the lock mode and condition of its waitp; L.ok    *)
(* turns FALSE when an ABSL_RAW_CHECK of this code would abort.            *)
(***************************************************************************)
EXTENDS Naturals, Sequences, SequencesExt

CONSTANTS
    Threads,   \* threads, identified with their PerThreadSynch
    None,      \* the null PerThreadSynch pointer
    Conds      \* the non-trivial Conditions

ASSUME NoneAssumption == None \notin Threads

\* A Condition pointer: null, &Condition::kTrue, or a condition proper.
CondPtr == Conds \cup {"null", "kTrue"}

How == {"kShared", "kExclusive"}

\* Mutant of GuaranteedEqual: conditions are never told apart.
GuaranteedEqualAll(a, b) == TRUE

\* Condition::GuaranteedEqual: null and kTrue are the same condition.
GuaranteedEqual(a, b) == a = b \/ {a, b} \subseteq {"null", "kTrue"}

PerThreadSynch ==
    [skip : Threads \cup {None}, may_skip : BOOLEAN, wake : BOOLEAN,
     readers : Nat, maybe_unlocking : BOOLEAN, priority : Nat,
     priority_read : BOOLEAN, how : How, cond : CondPtr]

\* ResetThreadIdentityBetweenReuse: the fields of a new identity.
FreshSynch ==
    [skip |-> None, may_skip |-> FALSE, wake |-> FALSE, readers |-> 0,
     maybe_unlocking |-> FALSE, priority |-> 0, priority_read |-> FALSE,
     how |-> "kExclusive", cond |-> "null"]

EmptyList == [q |-> <<>>, x |-> [t \in Threads |-> FreshSynch], ok |-> TRUE]

----------------------------------------------------------------------------

QHead(L) == IF L.q = <<>> THEN None ELSE Last(L.q)

Pos(L, t) == CHOOSE i \in 1..Len(L.q) : L.q[i] = t

\* The next pointer of a queued thread.
NextOf(L, t) == L.q[IF Pos(L, t) = Len(L.q) THEN 1 ELSE Pos(L, t) + 1]

SetSkip(L, t, s) == [L EXCEPT !.x[t].skip = s]

Check(L, b) == [L EXCEPT !.ok = @ /\ b]

MuEquivalentWaiter(L, s, t) ==
    /\ L.x[s].how = L.x[t].how
    /\ L.x[s].priority = L.x[t].priority
    /\ GuaranteedEqual(L.x[s].cond, L.x[t].cond)

\* A bounded loop: Body is applied until the state says done.
Iterate(Body(_), st, n) ==
    FoldLeft(LAMBDA s, i : IF s.done THEN s ELSE Body(s), st,
             [i \in 1..n |-> i])

\* The chain t, t->skip, t->skip->skip, ... (None once it has ended).
SkipChain(L, t) ==
    LET c[i \in 0..Len(L.q)] ==
          IF i = 0 THEN t
          ELSE LET p == c[i - 1] IN IF p = None THEN None ELSE L.x[p].skip
    IN  c

\* Skip: returns the end of the chain c of t, having made every member skip
\* two links and the first one skip to the end.
Skip(L, t) ==
    LET Shorten(c, k) ==
          [L EXCEPT !.x = [u \in Threads |->
             LET at == {i \in 0..k : c[i] = u}
                 i  == CHOOSE j \in at : TRUE
             IN  IF at = {} THEN @[u]
                 ELSE [@[u] EXCEPT !.skip = IF i = 0 /\ k > 0 THEN c[k]
                                            ELSE IF i + 2 <= k THEN c[i + 2]
                                            ELSE @]]]
        Result(c, k) == [list |-> Shorten(c, k), end |-> c[k]]
        End(c) == Result(c, Max({i \in 0..Len(L.q) : c[i] # None}))
    IN  End(SkipChain(L, t))

\* Mutant of FixSkip: skips to the thread to be removed are left alone.
FixSkipNever(L, ancestor, to_be_removed) == L

FixSkip(L, ancestor, to_be_removed) ==
    IF L.x[ancestor].skip # to_be_removed THEN L
    ELSE SetSkip(L, ancestor,
           IF L.x[to_be_removed].skip # None THEN L.x[to_be_removed].skip
           ELSE IF NextOf(L, ancestor) # to_be_removed THEN NextOf(L, ancestor)
           ELSE None)

----------------------------------------------------------------------------
(***************************************************************************)
(* Enqueue, for a waiter whose waitp has no cv_word.  mu is the reader     *)
(* count of the mutex word, prio the priority the code ends up using.      *)
(***************************************************************************)
InsertAfter(L, s, t) ==
    IF t = QHead(L) THEN <<s>> \o L.q
                    ELSE InsertAt(L.q, Pos(L, t) + 1, s)

\* Put s after enqueue_after (which keeps the head) and set up skips.
EnqueueAfter(L, s, after) ==
    LET head == QHead(L)
        L1   == Check([L EXCEPT !.q = InsertAfter(L, s, after)],
                      \/ L.x[after].skip = None
                      \/ MuEquivalentWaiter(L, after, s))
        L2   == IF /\ after # head
                   /\ L1.x[after].may_skip
                   /\ MuEquivalentWaiter(L1, after, s)
                THEN SetSkip(L1, after, s) ELSE L1
    IN  IF MuEquivalentWaiter(L2, s, NextOf(L2, s))
        THEN SetSkip(L2, s, NextOf(L2, s)) ELSE L2

\* Mutants of EnqueueLast: the new head does not inherit the reader count, or
\* the unlock hint, of the old one.
EnqueueLastNoReaders(L, s) ==
    [L EXCEPT !.q = Append(@, s), !.x[s].readers = 0,
              !.x[s].maybe_unlocking = L.x[QHead(L)].maybe_unlocking]

EnqueueLastNoHint(L, s) ==
    [L EXCEPT !.q = Append(@, s), !.x[s].readers = L.x[QHead(L)].readers,
              !.x[s].maybe_unlocking = FALSE]

\* Put s at the back: it becomes the head and inherits the head's data.
EnqueueLast(L, s) ==
    LET head == QHead(L)
        L1   == [L EXCEPT !.q = Append(@, s),
                          !.x[s].readers = L.x[head].readers,
                          !.x[s].maybe_unlocking = L.x[head].maybe_unlocking]
    IN  IF L.x[head].may_skip /\ MuEquivalentWaiter(L1, head, s)
        THEN SetSkip(L1, head, s) ELSE L1

\* The insertion point in priority order, skipping whole chains; the list
\* comes back with the chains shortened.
PriorityPoint(L, s) ==
    LET Advance(st, k) ==
          [list |-> k.list, after |-> st.to, to |-> k.end,
           done |-> L.x[s].priority > L.x[k.end].priority]
        Body(st) == Advance(st, Skip(st.list, NextOf(st.list, st.to)))
    IN  Iterate(Body, [list |-> L, after |-> QHead(L), to |-> QHead(L),
                       done |-> FALSE], Len(L.q))

Enqueue(L, s, how, cond, mu, prio) ==
    LET L1 == [L EXCEPT !.x[s].skip = None, !.x[s].may_skip = TRUE,
                        !.x[s].wake = FALSE, !.x[s].how = how,
                        !.x[s].cond = cond]
        L2 == [L1 EXCEPT !.x[s].priority = prio, !.x[s].priority_read = TRUE]
        h  == QHead(L)
    IN  IF L.q = <<>>
          THEN [L1 EXCEPT !.q = <<s>>, !.x[s].readers = mu,
                          !.x[s].maybe_unlocking = FALSE]
        ELSE IF prio > L.x[h].priority /\ ~L.x[h].maybe_unlocking
          THEN LET After(p) == EnqueueAfter(p.list, s, p.after)
               IN  After(PriorityPoint(L2, s))
        ELSE IF /\ prio > L.x[h].priority
                /\ how = "kExclusive" /\ GuaranteedEqual(cond, "null")
          THEN EnqueueAfter(L2, s, h)
        ELSE EnqueueLast(L2, s)

----------------------------------------------------------------------------

\* Dequeue the successor of pw.
Dequeue(L, pw) ==
    LET w  == NextOf(L, pw)
        L1 == [L EXCEPT !.q = RemoveAt(@, Pos(L, w))]
        n  == NextOf(L1, pw)
    IN  IF w = QHead(L) \/ pw = QHead(L) \/ ~MuEquivalentWaiter(L, pw, n)
          THEN L1
          ELSE SetSkip(L1, pw, IF L1.x[n].skip # None THEN L1.x[n].skip ELSE n)

\* DequeueAllWakeable: remove the waiters after pw marked wake, in order, up
\* to the head; stop at the first writer.
DequeueAllWakeable(L, pw) ==
    LET orig_h == QHead(L)
        Wake(st, w) ==
          [list |-> Dequeue(Check(st.list, st.list.x[st.pw].skip = None), st.pw),
           pw |-> st.pw, skipped |-> st.skipped,
           wake_list |-> Append(st.wake_list, w),
           done |-> st.list.x[w].how = "kExclusive"]
        Over(st, k) ==
          [st EXCEPT !.list = k.list, !.pw = k.end, !.skipped = TRUE]
        AtEnd(st) ==
          [st EXCEPT !.done = \/ @ \/ QHead(st.list) # orig_h
                              \/ st.pw = QHead(st.list) /\ st.skipped]
        One(st, w) == AtEnd(IF st.list.x[w].wake THEN Wake(st, w)
                            ELSE Over(st, Skip(st.list, w)))
        Body(st) == One(st, NextOf(st.list, st.pw))
    IN  Iterate(Body, [list |-> L, pw |-> pw, skipped |-> FALSE,
                       wake_list |-> <<>>, done |-> FALSE], 2 * Len(L.q))

\* TryRemove's search for s and its removal; the list is unchanged but for
\* skip fields when s is not queued.
RemoveWaiter(L, s) ==
    LET Over(st, k) == [st EXCEPT !.list = k.list, !.pw = k.end]
        Found(st) == NextOf(st.list, st.pw) = s
        AtEnd(st) == [st EXCEPT !.done = Found(st) \/ st.pw = QHead(L)]
        One(st, w) ==
          AtEnd(IF MuEquivalentWaiter(st.list, s, w)
                  THEN [st EXCEPT !.list = FixSkip(st.list, w, s), !.pw = w]
                  ELSE Over(st, Skip(st.list, w)))
        Body(st) == One(st, NextOf(st.list, st.pw))
        Unlink(st) == IF Found(st) THEN Dequeue(st.list, st.pw) ELSE st.list
    IN  Unlink(Iterate(Body, [list |-> L, pw |-> QHead(L),
                              done |-> NextOf(L, QHead(L)) = s], Len(L.q)))

----------------------------------------------------------------------------

\* The documented skip invariant: a queued thread's skip is null or a thread
\* later in the queue, and everyone from it to its target is equivalent.
SkipInvariantOf(L) ==
    \A i \in 1..Len(L.q) : L.x[L.q[i]].skip # None =>
        \E j \in i + 1 .. Len(L.q) :
            /\ L.x[L.q[i]].skip = L.q[j]
            /\ \A k \in i..j : MuEquivalentWaiter(L, L.q[i], L.q[k])

\* The second half of it, as mutex.cc states it.
MaySkipInvariantOf(L) ==
    \A i \in 1..Len(L.q) : L.x[L.q[i]].may_skip \/ L.x[L.q[i]].skip = None
=============================================================================
