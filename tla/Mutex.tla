------------------------------- MODULE Mutex -------------------------------
(***************************************************************************)
(* absl::Mutex and absl::CondVar (absl/synchronization/mutex.cc): the      *)
(* mutex word, the waiter queue, conditional critical sections, timeouts,  *)
(* and one condition variable used with the mutex.                         *)
(*                                                                         *)
(* Each thread runs a client program: a sequence of calls of the public    *)
(* interface.  A step is one successful access to the mutex word (a load   *)
(* and the compare_exchange that follows it are one step: when the         *)
(* compare_exchange fails the code loads again, which is the same as not   *)
(* having been there), or one access to another shared location.  What is  *)
(* done under kMuSpin to the queue is one step with the store that         *)
(* releases kMuSpin.  The scan of UnlockSlow, which runs without kMuSpin,  *)
(* takes one step per waiter.                                              *)
(***************************************************************************)
EXTENDS MutexQueue, FiniteSets

CONSTANTS
    Programs,   \* the client programs: a set of functions Threads -> Seq(Op)
    Prio        \* the scheduling priority the kernel gives each thread

ASSUME PrioAssumption == Prio \in [Threads -> Nat]

\* A call of the interface.  "Lock" stands for Lock, ReaderLock, LockWhen and
\* their variants, "Set" for a client write to the data a Condition reads, and
\* "Wait" for CondVar::Wait, in a loop until cond holds unless cond is null.
OpNames == {"Lock", "TryLock", "Unlock", "Await", "Set", "Wait", "Signal",
            "SignalAll", "EnableDebugLog"}

Op == [op : OpNames, how : How, cond : CondPtr, timed : BOOLEAN,
       val : BOOLEAN]

ASSUME ProgramsAssumption ==
    \A p \in Programs : p \in [Threads -> Seq(Op)]

VARIABLES
    mu,        \* Mutex::mu_: the low bits, and the reader count or the head
    list,      \* the waiter queue (a MutexQueue list)
    state,     \* PerThreadSynch::state
    linked,    \* the threads whose PerThreadSynch::next is not null
    waiting,   \* the threads whose PerThreadSynch::waitp is not null
    sem,       \* the value of each thread's semaphore
    cvq,       \* the CondVar's queue, first waiter first
    holds,     \* client data: which Conditions are true
    own,       \* ghost: what each thread holds of the mutex
    prog,      \* the client program of each thread
    th         \* the control state and locals of each thread

vars == <<mu, list, state, linked, waiting, sem, cvq, holds, own, prog, th>>

Bits == {"Reader", "Desig", "Wait", "Writer", "Event", "WrWait", "Spin"}

Word == [bits : SUBSET Bits, high : Nat \cup Threads]

\* struct MuHowS
slow_need_zero == [kShared    |-> {"Writer", "Wait"},
                   kExclusive |-> {"Writer", "Reader"}]
slow_inc_need_zero == [kShared    |-> {"Spin", "Writer", "WrWait"},
                       kExclusive |-> Bits]
fast_or  == [kShared |-> "Reader", kExclusive |-> "Writer"]
fast_add == [kShared |-> 1, kExclusive |-> 0]

Points == {"loop", "share", "enqueue", "block", "sem", "timeout", "retry",
           "remove", "unlock", "spin", "walk", "wake1", "wake2", "wake3",
           "cvblock", "cvsem", "cvremove", "signal", "fer", "try",
           "Set", "Await", "Wait", "Signal", "SignalAll",
           "EnableDebugLog", "TryLock", "done"}

ThreadState ==
    [pc : Points, ip : Nat,
     how : How, cond : CondPtr,        \* SynchWaitParams
     timed : BOOLEAN,                  \* SynchWaitParams::timeout is finite
     cv : {"none", "pending", "queued"},  \* cv_word: unset, set, consumed
     left : BOOLEAN,                   \* the wait itself can still time out
     blocked : BOOLEAN,                \* flags & kMuHasBlocked
     requeue : BOOLEAN,                \* UnlockSlow was given a waitp
     v : Word,                         \* the word as it was when loaded
     w : Threads \cup {None}, pw : Threads \cup {None},
     old_h : Threads \cup {None}, known_false : CondPtr, wr_wait : BOOLEAN,
     w_walk : Threads \cup {None}, pw_walk : Threads \cup {None},
     wake_list : Seq(Threads),         \* whom this thread still has to wake
     tries : Nat]                      \* TryLock: loop_limit

ZeroWord == [bits |-> {}, high |-> 0]

\* Where the call o starts.
Entry(o) == CASE o.op = "Lock"   -> "loop"
              [] o.op = "Unlock" -> "unlock"
              [] OTHER           -> o.op

\* The state of a thread about to make the i-th call of its program p.
At(p, i) ==
    LET more == i <= Len(p)
    IN  [pc |-> IF more THEN Entry(p[i]) ELSE "done", ip |-> i,
         how |-> IF more THEN p[i].how ELSE "kExclusive",
         cond |-> IF more THEN p[i].cond ELSE "null",
         timed |-> more /\ p[i].timed, cv |-> "none",
         left |-> more /\ p[i].timed,
         blocked |-> FALSE, requeue |-> FALSE, v |-> ZeroWord,
         w |-> None, pw |-> None, old_h |-> None, known_false |-> "null",
         wr_wait |-> FALSE, w_walk |-> None, pw_walk |-> None,
         wake_list |-> <<>>, tries |-> 0]

Init ==
    /\ mu = ZeroWord
    /\ list = EmptyList
    /\ state = [t \in Threads |-> "kAvailable"]
    /\ linked = {}
    /\ waiting = {}
    /\ sem = [t \in Threads |-> 0]
    /\ cvq = <<>>
    /\ holds = [c \in Conds |-> FALSE]
    /\ own = [t \in Threads |-> "free"]
    /\ prog \in Programs
    /\ th = [t \in Threads |-> At(prog[t], 1)]

----------------------------------------------------------------------------
(* Helpers *)

Has(b) == b \in mu.bits

\* Condition::Eval of a condition pointer that is not null.
Eval(c) == c = "kTrue" \/ (c \in Conds /\ holds[c])

Become(t, r) == th' = [th EXCEPT ![t] = r]
Goto(t, p) == Become(t, [th[t] EXCEPT !.pc = p])

\* The call returns to the client, which makes its next one; a client that
\* waits on the CondVar for a condition goes back to test it.
Returned(t) ==
    LET o == prog[t][th[t].ip]
    IN  At(prog[t], IF o.op = "Wait" /\ o.cond # "null" THEN th[t].ip
                                                        ELSE th[t].ip + 1)

\* Mutant of ClearDesig: a thread that has blocked leaves the bit set.
ClearDesigNever(t, b) == b

\* The word with the designated waker bit cleared iff this thread has blocked.
ClearDesig(t, b) == IF th[t].blocked THEN b \ {"Desig"} ELSE b

\* The priorities Enqueue may use for s when thread e runs it: it reads the
\* priority of the RUNNING thread, the first time and every so often.
Priorities(s, e) ==
    IF list.q = <<>> THEN {list.x[s].priority}
    ELSE {Prio[e]} \cup IF list.x[s].priority_read THEN {list.x[s].priority}
                                                   ELSE {}

\* Bookkeeping of Enqueue outside the queue proper.
MarkQueued(s) ==
    /\ state' = [state EXCEPT ![s] = "kQueued"]
    /\ linked' = linked \cup {s}
    /\ waiting' = waiting \cup {s}

----------------------------------------------------------------------------
(***************************************************************************)
(* Acquiring.  Lock, ReaderLock, LockWhen, Trans and the rest differ only  *)
(* in how many times they try the acquisition below before they enter the  *)
(* loop of LockSlowLoop, whose first branch it is.                         *)
(***************************************************************************)

\* The lock was acquired: return if the condition holds (or timed out),
\* otherwise go and give the lock back.
Acquired(t) ==
    /\ own' = [own EXCEPT ![t] = th[t].how]
    /\ Become(t, IF th[t].cond = "null" \/ Eval(th[t].cond)
                   THEN Returned(t)
                   ELSE [th[t] EXCEPT !.pc = "unlock", !.requeue = TRUE])

LockAcquire(t) ==
    /\ th[t].pc = "loop"
    /\ mu.bits \cap slow_need_zero[th[t].how] = {}
    /\ mu' = [bits |-> ClearDesig(t, mu.bits) \cup {fast_or[th[t].how]},
              high |-> IF fast_add[th[t].how] = 0 THEN mu.high
                       ELSE mu.high + fast_add[th[t].how]]
    /\ Acquired(t)
    /\ UNCHANGED <<list, state, linked, waiting, sem, cvq, holds, prog>>

\* The lock is taken and nobody waits: become the one and only waiter.
LockBecomeFirstWaiter(t) ==
    /\ th[t].pc = "loop"
    /\ mu.bits \cap slow_need_zero[th[t].how] # {}
    /\ mu.bits \cap {"Spin", "Wait"} = {}
    /\ list' = Check(Enqueue(list, t, th[t].how, th[t].cond, mu.high,
                             list.x[t].priority), t \notin waiting)
    /\ mu' = [bits |-> ClearDesig(t, mu.bits) \cup {"Wait"} \cup
                       IF th[t].how = "kExclusive" /\ Has("Reader")
                         THEN {"WrWait"} ELSE {},
              high |-> t]
    /\ MarkQueued(t)
    /\ Goto(t, "block")
    /\ UNCHANGED <<sem, cvq, holds, own, prog>>

\* A reader may share although others wait, unless a writer has priority and
\* this reader has not blocked yet.  First it takes the spinlock ...
CanShare(t) ==
    mu.bits \cap (slow_inc_need_zero[th[t].how] \
                  IF th[t].blocked THEN {"WrWait"} ELSE {}) = {}

LockShareBegin(t) ==
    /\ th[t].pc = "loop"
    /\ mu.bits \cap slow_need_zero[th[t].how] # {}
    /\ mu.bits \cap {"Spin", "Wait"} # {}
    /\ CanShare(t)
    /\ mu' = [mu EXCEPT !.bits = ClearDesig(t, @) \cup {"Spin", "Reader"}]
    /\ Become(t, [th[t] EXCEPT !.pc = "share", !.v = mu])
    /\ UNCHANGED <<list, state, linked, waiting, sem, cvq, holds, own, prog>>

\* ... then it counts itself in the last waiter and releases the spinlock.
LockShareEnd(t) ==
    /\ th[t].pc = "share"
    /\ list' = [list EXCEPT !.x[th[t].v.high].readers = @ + 1]
    /\ mu' = [mu EXCEPT !.bits = (@ \ {"Spin"}) \cup {"Reader"}]
    /\ Acquired(t)
    /\ UNCHANGED <<state, linked, waiting, sem, cvq, holds, prog>>

\* Others wait already: take the spinlock ...
LockEnqueueBegin(t) ==
    /\ th[t].pc = "loop"
    /\ mu.bits \cap slow_need_zero[th[t].how] # {}
    /\ mu.bits \cap {"Spin", "Wait"} # {}
    /\ ~CanShare(t)
    /\ ~Has("Spin")
    /\ mu' = [mu EXCEPT !.bits = ClearDesig(t, @) \cup {"Spin", "Wait"}]
    /\ Become(t, [th[t] EXCEPT !.pc = "enqueue", !.v = mu])
    /\ UNCHANGED <<list, state, linked, waiting, sem, cvq, holds, own, prog>>

\* Mutants of LockEnqueueEnd: the word keeps the old head; the new waiter is
\* taken for the head wherever it was inserted.
LockEnqueueEndStale(t) ==
    /\ th[t].pc = "enqueue"
    /\ list' = Enqueue(list, t, th[t].how, th[t].cond, 0, Prio[t])
    /\ mu' = [mu EXCEPT !.bits = (@ \ {"Spin"}) \cup {"Wait"}]
    /\ MarkQueued(t)
    /\ Become(t, [th[t] EXCEPT !.pc = "block", !.v = ZeroWord])
    /\ UNCHANGED <<sem, cvq, holds, own, prog>>

LockEnqueueEndSelf(t) ==
    /\ th[t].pc = "enqueue"
    /\ list' = Enqueue(list, t, th[t].how, th[t].cond, 0, Prio[t])
    /\ mu' = [bits |-> (mu.bits \ {"Spin"}) \cup {"Wait"}, high |-> t]
    /\ MarkQueued(t)
    /\ Become(t, [th[t] EXCEPT !.pc = "block", !.v = ZeroWord])
    /\ UNCHANGED <<sem, cvq, holds, own, prog>>

\* ... and queue up.
LockEnqueueEnd(t) ==
    /\ th[t].pc = "enqueue"
    /\ \E p \in Priorities(t, t) :
         list' = Check(Enqueue(list, t, th[t].how, th[t].cond, 0, p),
                       t \notin waiting)
    /\ mu' = [bits |-> (mu.bits \ {"Spin"}) \cup {"Wait"} \cup
                       IF th[t].how = "kExclusive" /\ "Reader" \in th[t].v.bits
                         THEN {"WrWait"} ELSE {},
              high |-> QHead(list')]
    /\ MarkQueued(t)
    /\ Become(t, [th[t] EXCEPT !.pc = "block", !.v = ZeroWord])
    /\ UNCHANGED <<sem, cvq, holds, own, prog>>

----------------------------------------------------------------------------
(* Blocking: Mutex::Block and Mutex::TryRemove *)

\* Block's loop test; on the way out waitp is cleared.
BlockCheck(t) ==
    /\ th[t].pc = "block"
    /\ IF state[t] = "kQueued"
         THEN Goto(t, "sem") /\ UNCHANGED <<waiting, list>>
         ELSE /\ Become(t, [th[t] EXCEPT !.pc = "loop", !.blocked = TRUE])
              /\ waiting' = waiting \ {t}
              /\ list' = Check(list, t \in waiting)
    /\ UNCHANGED <<mu, state, linked, sem, cvq, holds, own, prog>>

BlockDecrement(t) ==
    /\ th[t].pc = "sem"
    /\ sem[t] > 0
    /\ sem' = [sem EXCEPT ![t] = @ - 1]
    /\ Goto(t, "block")
    /\ UNCHANGED <<mu, list, state, linked, waiting, cvq, holds, own, prog>>

\* DecrementSynchSem returns false: the deadline has passed.
BlockTimeout(t) ==
    /\ th[t].pc = "sem"
    /\ th[t].left
    /\ Goto(t, "timeout")
    /\ UNCHANGED <<mu, list, state, linked, waiting, sem, cvq, holds, own, prog>>

\* Mutants of CanTryRemove: readers do not count; only the spinlock counts.
CanTryRemoveReaders == mu.bits \cap {"Wait", "Spin", "Writer"} = {"Wait"}

CanTryRemoveSpin == mu.bits \cap {"Wait", "Spin"} = {"Wait"}

CanTryRemove == mu.bits \cap {"Wait", "Spin", "Writer", "Reader"} = {"Wait"}

\* TryRemove, called once after the timeout and then for as long as the
\* thread is linked: acquire both the spinlock and the lock, if they are free.
TryRemoveBegin(t) ==
    /\ th[t].pc = "timeout" \/ (th[t].pc = "retry" /\ t \in linked)
    /\ IF CanTryRemove
         THEN /\ mu' = [mu EXCEPT !.bits = @ \cup {"Spin", "Writer"}]
              /\ Become(t, [th[t] EXCEPT !.pc = "remove"])
         ELSE /\ th[t].pc = "timeout"
              /\ Goto(t, "retry")
              /\ UNCHANGED mu
    /\ UNCHANGED <<list, state, linked, waiting, sem, cvq, holds, own, prog>>

\* Unlink t if it is still queued, and release both.
TryRemoveEnd(t) ==
    /\ th[t].pc = "remove"
    /\ \E L \in {RemoveWaiter(list, t)} :
       LET found == Len(L.q) < Len(list.q)
           h     == QHead(L)
       IN  /\ list' = IF h = None THEN L
                      ELSE [L EXCEPT !.x[h].readers = 0,
                                     !.x[h].maybe_unlocking = FALSE]
           /\ state' = IF found THEN [state EXCEPT ![t] = "kAvailable"]
                                ELSE state
           /\ linked' = IF found THEN linked \ {t} ELSE linked
           /\ mu' = [bits |-> (mu.bits \cap {"Desig", "Event"}) \cup
                              IF h = None THEN {} ELSE {"Wait"},
                     high |-> IF h = None THEN 0 ELSE h]
    /\ Goto(t, "retry")
    /\ UNCHANGED <<waiting, sem, cvq, holds, own, prog>>

\* Mutant of TimeoutDone: the timeout and the condition stay as they were.
TimeoutDoneForgets(t) ==
    /\ th[t].pc = "retry"
    /\ t \notin linked
    /\ Goto(t, "block")
    /\ UNCHANGED <<mu, list, state, linked, waiting, sem, cvq, holds, own, prog>>

\* The thread is off the queue: its timeout and condition no longer matter.
TimeoutDone(t) ==
    /\ th[t].pc = "retry"
    /\ t \notin linked
    /\ Become(t, [th[t] EXCEPT !.pc = "block", !.timed = FALSE,
                               !.left = FALSE, !.cond = "null"])
    /\ UNCHANGED <<mu, list, state, linked, waiting, sem, cvq, holds, own, prog>>

----------------------------------------------------------------------------
(***************************************************************************)
(* Releasing: Unlock, ReaderUnlock and UnlockSlow.  The fast paths of the  *)
(* first two are the first two branches of UnlockSlow's loop.              *)
(***************************************************************************)

\* UnlockSlow has released the lock: wake the chosen waiters, then block if
\* the thread has queued itself, else return.
AfterWaking(t) ==
    IF th[t].requeue
      THEN [At(prog[t], th[t].ip) EXCEPT
              !.pc = IF th[t].cv = "none" THEN "block" ELSE "cvblock",
              !.how = th[t].how, !.cond = th[t].cond, !.cv = th[t].cv,
              !.timed = th[t].timed, !.left = th[t].left,
              !.blocked = th[t].blocked]
      ELSE Returned(t)

Released(t, wakes) ==
    /\ own' = [own EXCEPT ![t] = "free"]
    /\ Become(t, IF wakes = <<>> THEN AfterWaking(t)
                 ELSE [th[t] EXCEPT !.pc = "wake1", !.wake_list = wakes])

\* Mutant of UnlockFastWriter: releases although there are waiters to wake.
UnlockFastWriterBlind(t) ==
    /\ th[t].pc = "unlock"
    /\ Has("Writer")
    /\ ~th[t].requeue
    /\ mu' = [mu EXCEPT !.bits = @ \ {"WrWait", "Writer"}]
    /\ Released(t, <<>>)
    /\ UNCHANGED <<list, state, linked, waiting, sem, cvq, holds, prog>>

UnlockFastWriter(t) ==
    /\ th[t].pc = "unlock"
    /\ Has("Writer")
    /\ mu.bits \cap {"Wait", "Desig"} # {"Wait"}
    /\ ~th[t].requeue
    /\ mu' = [mu EXCEPT !.bits = @ \ {"WrWait", "Writer"}]
    /\ Released(t, <<>>)
    /\ UNCHANGED <<list, state, linked, waiting, sem, cvq, holds, prog>>

\* Mutant of UnlockFastReader: counts the reader out twice.
UnlockFastReaderTwice(t) ==
    /\ th[t].pc = "unlock"
    /\ mu.bits \cap {"Reader", "Wait"} = {"Reader"}
    /\ ~th[t].requeue
    /\ mu' = [bits |-> mu.bits \ IF mu.high = 1 THEN {"Reader"} ELSE {},
              high |-> mu.high - 2]
    /\ Released(t, <<>>)
    /\ UNCHANGED <<list, state, linked, waiting, sem, cvq, holds, prog>>

UnlockFastReader(t) ==
    /\ th[t].pc = "unlock"
    /\ mu.bits \cap {"Reader", "Wait"} = {"Reader"}
    /\ ~th[t].requeue
    /\ mu' = [bits |-> mu.bits \ IF mu.high = 1 THEN {"Reader"} ELSE {},
              high |-> mu.high - 1]
    /\ Released(t, <<>>)
    /\ UNCHANGED <<list, state, linked, waiting, sem, cvq, holds, prog>>

\* Neither applies: take the spinlock, remembering the word as it was.
UnlockTakeSpin(t) ==
    /\ th[t].pc = "unlock"
    /\ ~(Has("Writer") /\ mu.bits \cap {"Wait", "Desig"} # {"Wait"}
         /\ ~th[t].requeue)
    /\ ~(mu.bits \cap {"Reader", "Wait"} = {"Reader"} /\ ~th[t].requeue)
    /\ ~Has("Spin")
    /\ mu' = [mu EXCEPT !.bits = @ \cup {"Spin"}]
    /\ Become(t, [th[t] EXCEPT !.pc = "spin", !.v = mu])
    /\ UNCHANGED <<list, state, linked, waiting, sem, cvq, holds, own, prog>>

\* Enqueue of the unlocking thread itself on the list L, if it has a waitp
\* whose CondVar part is not in play; r is the reader count for a new list.
EnqueueSelf(t, L, r, p) ==
    IF th[t].requeue /\ th[t].cv = "none"
      THEN Check(Enqueue(L, t, th[t].how, th[t].cond, r, p), t \notin waiting)
      ELSE L

MarkSelf(t) ==
    IF th[t].requeue /\ th[t].cv = "none" THEN MarkQueued(t)
    ELSE UNCHANGED <<state, linked, waiting>>

\* A waiter that goes to the CondVar has been put on its queue first.
SelfReady(t) == th[t].cv # "pending"

\* No waiters: the thread is about to sleep and may be the first.
UnlockNoWaiters(t) ==
    /\ th[t].pc = "spin"
    /\ "Wait" \notin th[t].v.bits
    /\ SelfReady(t)
    /\ LET new_readers == IF mu.high >= 1 THEN mu.high - 1 ELSE mu.high
           clear == IF ~Has("Writer") /\ mu.high = 1
                      THEN {"WrWait", "Reader"} ELSE {"WrWait", "Writer"}
           kept  == mu.bits \ (clear \cup {"Spin"})
       IN  \E L \in {EnqueueSelf(t, list, new_readers, list.x[t].priority)} :
           /\ list' = Check(L, th[t].requeue)
           /\ mu' = IF L.q = <<>> THEN [bits |-> kept, high |-> new_readers]
                    ELSE [bits |-> kept \cup {"Wait"}, high |-> QHead(L)]
    /\ MarkSelf(t)
    /\ Released(t, <<>>)
    /\ UNCHANGED <<sem, cvq, holds, prog>>

\* What the thread sees under the spinlock when there are waiters.
hd(t) == th[t].v.high
NotLastReader(t) ==
    "Reader" \in th[t].v.bits /\ list.x[hd(t)].readers > 1

\* A reader but not the last: uncount it in the head, and perhaps queue it.
UnlockNotLastReader(t) ==
    /\ th[t].pc = "spin"
    /\ "Wait" \in th[t].v.bits
    /\ NotLastReader(t)
    /\ SelfReady(t)
    /\ \E p \in Priorities(t, t) :
         list' = EnqueueSelf(t, [list EXCEPT !.x[hd(t)].readers = @ - 1], 0, p)
    /\ mu' = [bits |-> th[t].v.bits, high |-> QHead(list')]
    /\ MarkSelf(t)
    /\ Released(t, <<>>)
    /\ UNCHANGED <<sem, cvq, holds, prog>>

\* The list once old_h, the terminator of an earlier scan, may skip again.
Restored(t) ==
    LET h   == hd(t)
        old == th[t].old_h
        L1  == Check(list, old = None \/ list.x[h].maybe_unlocking)
        L2  == Check([L1 EXCEPT !.x[old].may_skip = TRUE],
                     L1.x[old].skip = None)
    IN  IF old = None \/ L1.x[old].may_skip THEN L1
        ELSE IF h # old /\ MuEquivalentWaiter(L2, old, NextOf(L2, old))
          THEN SetSkip(L2, old, NextOf(L2, old)) ELSE L2

\* The lock is becoming free and there is a waiter.
LastOut(t) ==
    /\ th[t].pc = "spin"
    /\ "Wait" \in th[t].v.bits
    /\ ~NotLastReader(t)

\* The front waiter is a writer without a condition: no need to search.
EasyWriter(t) ==
    LET f == NextOf(list, hd(t))
    IN  list.x[f].how = "kExclusive" /\ GuaranteedEqual(list.x[f].cond, "null")

\* An earlier scan has found everyone there is to wake.
SearchComplete(t) ==
    /\ th[t].w # None
    /\ list.x[th[t].w].how = "kExclusive" \/ hd(t) = th[t].old_h

\* There are waiters this thread has to look at before it can release.
MustSearch(t) ==
    /\ LastOut(t)
    /\ ~EasyWriter(t)
    /\ ~SearchComplete(t)
    /\ th[t].old_h # hd(t)

\* Dequeue the waiters to wake and release both spinlock and lock.
UnlockAndWake(t) ==
    /\ LastOut(t)
    /\ EasyWriter(t) \/ SearchComplete(t)
    /\ SelfReady(t)
    /\ \E p \in Priorities(t, t), L0 \in {Restored(t)} :
       LET w  == IF EasyWriter(t) THEN NextOf(L0, hd(t)) ELSE th[t].w
           pw == IF EasyWriter(t) \/ th[t].pw = None THEN hd(t) ELSE th[t].pw
           L1 == IF EasyWriter(t) THEN [L0 EXCEPT !.x[w].wake = TRUE] ELSE L0
           wr == IF EasyWriter(t) \/ th[t].wr_wait THEN {"WrWait"} ELSE {}
       IN  \E d \in {DequeueAllWakeable(Check(L1, NextOf(L1, pw) = w), pw)} :
           \E L2 \in {EnqueueSelf(t, d.list, 0, p)} :
           LET h == QHead(L2)
           IN  /\ list' = Check(IF h = None THEN L2
                                ELSE [L2 EXCEPT !.x[h].readers = 0,
                                                !.x[h].maybe_unlocking = FALSE],
                                d.wake_list # <<>>)
               /\ mu' = [bits |-> (th[t].v.bits \cap {"Event"}) \cup {"Desig"}
                                  \cup IF h = None THEN {} ELSE wr \cup {"Wait"},
                         high |-> IF h = None THEN 0 ELSE h]
               /\ Released(t, d.wake_list)
    /\ MarkSelf(t)
    /\ UNCHANGED <<sem, cvq, holds, prog>>

\* The whole queue has been searched in vain: nobody to wake.
UnlockNobody(t) ==
    /\ LastOut(t)
    /\ ~EasyWriter(t) /\ ~SearchComplete(t)
    /\ th[t].old_h = hd(t)
    /\ SelfReady(t)
    /\ \E p \in Priorities(t, t) :
         list' = EnqueueSelf(t,
                   [Restored(t) EXCEPT !.x[hd(t)].readers = 0,
                                       !.x[hd(t)].maybe_unlocking = FALSE],
                   0, p)
    /\ mu' = [bits |-> th[t].v.bits \ {"Reader", "Writer", "WrWait"},
              high |-> QHead(list')]
    /\ MarkSelf(t)
    /\ Released(t, <<>>)
    /\ UNCHANGED <<sem, cvq, holds, prog>>

\* Search the waiters not seen yet, with only the lock held: mark the head
\* as the terminator and release the spinlock.
UnlockStartWalk(t) ==
    /\ MustSearch(t)
    /\ LET h == hd(t)
           L == Restored(t)
           o == th[t].old_h
       IN  /\ list' = Check([L EXCEPT !.x[h].may_skip = FALSE,
                                      !.x[h].maybe_unlocking = TRUE],
                            L.x[h].skip = None)
           /\ Become(t, [th[t] EXCEPT !.pc = "walk", !.v = ZeroWord,
                !.old_h = h, !.pw_walk = o,
                !.w_walk = IF o = None THEN NextOf(L, h) ELSE NextOf(L, o)])
    /\ mu' = th[t].v
    /\ UNCHANGED <<state, linked, waiting, sem, cvq, holds, own, prog>>

\* One waiter of the scan.
UnlockWalk(t) ==
    /\ th[t].pc = "walk"
    /\ LET x    == th[t].w_walk
           c    == list.x[x].cond
           true == c = "null" \/ (c # th[t].known_false /\ Eval(c))
           excl == list.x[x].how = "kExclusive"
           wake == true /\ (th[t].w = None \/ ~excl)
           stop == true /\ th[t].w = None /\ excl
           L    == [list EXCEPT !.x[x].wake = wake]
           sk   == Skip(L, x)
           pww  == IF wake THEN x ELSE sk.end
           r    == [th[t] EXCEPT
                      !.w = IF wake /\ @ = None THEN x ELSE @,
                      !.pw = IF wake /\ th[t].w = None THEN th[t].pw_walk ELSE @,
                      !.wr_wait = @ \/ (true /\ excl),
                      !.known_false = IF true THEN @ ELSE c,
                      !.pw_walk = pww]
       IN  /\ list' = IF wake THEN L ELSE sk.list
           /\ Become(t, IF stop \/ pww = th[t].old_h
                          THEN [r EXCEPT !.pc = "unlock", !.pw_walk = None,
                                         !.w_walk = None]
                          ELSE [r EXCEPT !.w_walk = NextOf(list, pww)])
    /\ UNCHANGED <<mu, state, linked, waiting, sem, cvq, holds, own, prog>>

----------------------------------------------------------------------------
(* Mutex::Wakeup, one store or post at a time *)

Waking(t) == Head(th[t].wake_list)

WakeupUnlink(t) ==
    /\ \/ th[t].pc = "wake1"
       \/ th[t].pc = "signal" /\ th[Waking(t)].timed  \* CondVar::Wakeup
    /\ linked' = linked \ {Waking(t)}
    /\ Goto(t, "wake2")
    /\ UNCHANGED <<mu, list, state, waiting, sem, cvq, holds, own, prog>>

WakeupAvailable(t) ==
    /\ th[t].pc = "wake2"
    /\ state' = [state EXCEPT ![Waking(t)] = "kAvailable"]
    /\ Goto(t, "wake3")
    /\ UNCHANGED <<mu, list, linked, waiting, sem, cvq, holds, own, prog>>

\* The thread's next wake-up after this one: of UnlockSlow or of SignalAll.
NextWake(t) ==
    IF Len(th[t].wake_list) = 1 THEN AfterWaking(t)
    ELSE [th[t] EXCEPT !.wake_list = Tail(@),
                       !.pc = IF prog[t][th[t].ip].op \in {"Signal", "SignalAll"}
                                THEN "signal" ELSE "wake1"]

WakeupPost(t) ==
    /\ th[t].pc = "wake3"
    /\ sem' = [sem EXCEPT ![Waking(t)] = @ + 1]
    /\ Become(t, NextWake(t))
    /\ UNCHANGED <<mu, list, state, linked, waiting, cvq, holds, own, prog>>

----------------------------------------------------------------------------
(***************************************************************************)
(* CondVar.  What the code does under kCvSpin is one step.                 *)
(***************************************************************************)

\* The client's loop test, then CondVar::WaitCommon up to its call of
\* UnlockSlow.
WaitBegin(t) ==
    /\ th[t].pc = "Wait"
    /\ Become(t, IF Eval(th[t].cond) THEN At(prog[t], th[t].ip + 1)
                 ELSE [th[t] EXCEPT !.pc = "unlock", !.requeue = TRUE,
                         !.cv = "pending", !.cond = "null",
                         !.how = IF Has("Writer") THEN "kExclusive"
                                                  ELSE "kShared"])
    /\ UNCHANGED <<mu, list, state, linked, waiting, sem, cvq, holds, own, prog>>

\* CondVarEnqueue, called by UnlockSlow just before it releases the lock.
CondVarEnqueue(t) ==
    /\ th[t].pc = "spin"
    /\ th[t].cv = "pending"
    /\ ~MustSearch(t)
    /\ cvq' = Append(cvq, t)
    /\ MarkQueued(t)
    /\ list' = Check(list, t \notin waiting)
    /\ Become(t, [th[t] EXCEPT !.cv = "queued"])
    /\ UNCHANGED <<mu, sem, holds, own, prog>>

\* Mutant of CvBlockCheck: waitp is not cleared on the way out.
CvBlockCheckKeepsWaitp(t) ==
    /\ th[t].pc = "cvblock"
    /\ Become(t, IF state[t] = "kQueued" THEN [th[t] EXCEPT !.pc = "cvsem"]
                 ELSE [th[t] EXCEPT !.pc = "loop", !.blocked = TRUE,
                         !.cv = "none", !.timed = FALSE, !.left = FALSE])
    /\ UNCHANGED <<mu, list, state, linked, waiting, sem, cvq, holds, own, prog>>

\* WaitCommon's loop; on the way out it calls Mutex::Trans.
CvBlockCheck(t) ==
    /\ th[t].pc = "cvblock"
    /\ IF state[t] = "kQueued"
         THEN Goto(t, "cvsem") /\ UNCHANGED <<waiting, list>>
         ELSE /\ Become(t, [th[t] EXCEPT !.pc = "loop", !.blocked = TRUE,
                              !.cv = "none", !.timed = FALSE, !.left = FALSE])
              /\ waiting' = waiting \ {t}
              /\ list' = Check(list, t \in waiting)
    /\ UNCHANGED <<mu, state, linked, sem, cvq, holds, own, prog>>

CvDecrement(t) ==
    /\ th[t].pc = "cvsem"
    /\ sem[t] > 0
    /\ sem' = [sem EXCEPT ![t] = @ - 1]
    /\ Goto(t, "cvblock")
    /\ UNCHANGED <<mu, list, state, linked, waiting, cvq, holds, own, prog>>

\* The deadline passes: from now on the wait has no timeout, although the
\* waitp that a signaller reads still has one.
CvTimeout(t) ==
    /\ th[t].pc = "cvsem"
    /\ th[t].left
    /\ Become(t, [th[t] EXCEPT !.pc = "cvremove", !.left = FALSE])
    /\ UNCHANGED <<mu, list, state, linked, waiting, sem, cvq, holds, own, prog>>

\* CondVar::Remove
CvRemove(t) ==
    /\ th[t].pc = "cvremove"
    /\ IF Contains(cvq, t)
         THEN /\ cvq' = RemoveFirst(cvq, t)
              /\ linked' = linked \ {t}
              /\ state' = [state EXCEPT ![t] = "kAvailable"]
         ELSE UNCHANGED <<cvq, linked, state>>
    /\ Goto(t, "cvblock")
    /\ UNCHANGED <<mu, list, waiting, sem, holds, own, prog>>

\* CondVar::Signal takes the first waiter off the queue, SignalAll all.
TakeWaiters(t, n) ==
    /\ cvq' = SubSeq(cvq, n + 1, Len(cvq))
    /\ Become(t, IF cvq = <<>> THEN Returned(t)
                 ELSE [th[t] EXCEPT !.pc = "signal",
                                    !.wake_list = SubSeq(cvq, 1, n)])
    /\ UNCHANGED <<mu, list, state, linked, waiting, sem, holds, own, prog>>

Signal(t)    == th[t].pc = "Signal" /\ TakeWaiters(t, 1)
SignalAll(t) == th[t].pc = "SignalAll" /\ TakeWaiters(t, Len(cvq))

(***************************************************************************)
(* Mutex::Fer, for a waiter without timeout: wake it if it could take the  *)
(* mutex now, else move it to the mutex's queue.                           *)
(***************************************************************************)
Conflicting(w) ==
    {"Writer"} \cup IF th[w].how = "kShared" THEN {} ELSE {"Reader"}

InFer(t) == th[t].pc = "signal" /\ ~th[Waking(t)].timed

FerChecks(L, w) == Check(L, th[w].cond = "null" /\ th[w].cv = "queued")

FerWake(t) ==
    /\ InFer(t)
    /\ mu.bits \cap Conflicting(Waking(t)) = {}
    /\ linked' = linked \ {Waking(t)}
    /\ list' = FerChecks(list, Waking(t))
    /\ Goto(t, "wake2")
    /\ UNCHANGED <<mu, state, waiting, sem, cvq, holds, own, prog>>

\* Mutant: the waiter is queued although the lock is free.
FerFirstWaiterAlways(t) ==
    /\ InFer(t)
    /\ mu.bits \cap {"Spin", "Wait"} = {}
    /\ LET w == Waking(t)
       IN  /\ list' = Enqueue(list, w, th[w].how, th[w].cond, mu.high, 0)
           /\ mu' = [bits |-> mu.bits \cup {"Wait"}, high |-> w]
           /\ MarkQueued(w)
    /\ Become(t, NextWake(t))
    /\ UNCHANGED <<sem, cvq, holds, own, prog>>

FerFirstWaiter(t) ==
    /\ InFer(t)
    /\ mu.bits \cap Conflicting(Waking(t)) # {}
    /\ mu.bits \cap {"Spin", "Wait"} = {}
    /\ LET w == Waking(t)
       IN  /\ list' = FerChecks(Enqueue(list, w, th[w].how, th[w].cond,
                                        mu.high, list.x[w].priority), w)
           /\ mu' = [bits |-> mu.bits \cup {"Wait"}, high |-> w]
           /\ MarkQueued(w)
    /\ Become(t, NextWake(t))
    /\ UNCHANGED <<sem, cvq, holds, own, prog>>

FerEnqueueBegin(t) ==
    /\ InFer(t)
    /\ mu.bits \cap Conflicting(Waking(t)) # {}
    /\ mu.bits \cap {"Spin", "Wait"} = {"Wait"}
    /\ mu' = [mu EXCEPT !.bits = @ \cup {"Spin", "Wait"}]
    /\ Goto(t, "fer")
    /\ UNCHANGED <<list, state, linked, waiting, sem, cvq, holds, own, prog>>

FerEnqueueEnd(t) ==
    /\ th[t].pc = "fer"
    /\ LET w == Waking(t)
       IN  /\ \E p \in Priorities(w, t) :
                list' = FerChecks(Enqueue(list, w, th[w].how, th[w].cond,
                                          0, p), w)
           /\ MarkQueued(w)
    /\ mu' = [bits |-> (mu.bits \ {"Spin"}) \cup {"Wait"},
              high |-> QHead(list')]
    /\ Become(t, NextWake(t))
    /\ UNCHANGED <<sem, cvq, holds, own, prog>>

----------------------------------------------------------------------------
(* The remaining calls *)

\* Mutant of Await: the mode in which the mutex is held is not remembered.
AwaitExclusive(t) ==
    /\ th[t].pc = "Await"
    /\ Become(t, IF Eval(th[t].cond) THEN Returned(t)
                 ELSE [th[t] EXCEPT !.pc = "unlock", !.requeue = TRUE])
    /\ UNCHANGED <<mu, list, state, linked, waiting, sem, cvq, holds, own, prog>>

\* Await: nothing to do if the condition holds, else AwaitCommon.
Await(t) ==
    /\ th[t].pc = "Await"
    /\ Become(t, IF Eval(th[t].cond) THEN Returned(t)
                 ELSE [th[t] EXCEPT !.pc = "unlock", !.requeue = TRUE,
                         !.how = IF Has("Writer") THEN "kExclusive"
                                                  ELSE "kShared"])
    /\ UNCHANGED <<mu, list, state, linked, waiting, sem, cvq, holds, own, prog>>

TryLimit == [kShared |-> 5, kExclusive |-> 1]

\* TryLock and ReaderTryLock: the load that precedes the compare_exchange.
TryLockLoad(t) ==
    /\ th[t].pc = "TryLock"
    /\ Become(t, [th[t] EXCEPT !.pc = "try", !.v = mu,
                               !.tries = TryLimit[th[t].how]])
    /\ UNCHANGED <<mu, list, state, linked, waiting, sem, cvq, holds, own, prog>>

\* The compare_exchange against the value loaded: a bounded number of tries,
\* and as many again once the word says that events are recorded.  A client
\* that does not get the lock makes no further calls.
TryLockCas(t) ==
    /\ th[t].pc = "try"
    /\ LET how == th[t].how
           v   == th[t].v
           n   == IF Has("Event") /\ "Event" \notin v.bits THEN TryLimit[how]
                  ELSE th[t].tries - 1
           give_up == At(prog[t], Len(prog[t]) + 1)
       IN  \/ /\ v.bits \cap slow_need_zero[how] # {}
              /\ Become(t, give_up)
              /\ UNCHANGED <<mu, own>>
           \/ /\ v.bits \cap slow_need_zero[how] = {} /\ mu = v
              /\ mu' = [bits |-> v.bits \cup {fast_or[how]},
                        high |-> IF fast_add[how] = 0 THEN v.high
                                 ELSE v.high + fast_add[how]]
              /\ own' = [own EXCEPT ![t] = how]
              /\ Become(t, Returned(t))
           \/ /\ v.bits \cap slow_need_zero[how] = {} /\ mu # v
              /\ Become(t, IF n = 0 THEN give_up
                           ELSE [th[t] EXCEPT !.v = mu, !.tries = n])
              /\ UNCHANGED <<mu, own>>
    /\ UNCHANGED <<list, state, linked, waiting, sem, cvq, holds, prog>>

\* EnableDebugLog: AtomicSetBits(kMuEvent), unless it is set, once kMuSpin is
\* clear.
EnableDebugLog(t) ==
    /\ th[t].pc = "EnableDebugLog"
    /\ Has("Event") \/ ~Has("Spin")
    /\ mu' = [mu EXCEPT !.bits = @ \cup {"Event"}]
    /\ Become(t, Returned(t))
    /\ UNCHANGED <<list, state, linked, waiting, sem, cvq, holds, own, prog>>

\* The client, holding the lock exclusively, writes its data.
ClientSet(t) ==
    /\ th[t].pc = "Set"
    /\ holds' = [holds EXCEPT ![th[t].cond] = prog[t][th[t].ip].val]
    /\ Become(t, Returned(t))
    /\ UNCHANGED <<mu, list, state, linked, waiting, sem, cvq, own, prog>>

----------------------------------------------------------------------------

Step(t) ==
    \/ LockAcquire(t) \/ LockBecomeFirstWaiter(t)
    \/ LockShareBegin(t) \/ LockShareEnd(t)
    \/ LockEnqueueBegin(t) \/ LockEnqueueEnd(t)
    \/ BlockCheck(t) \/ BlockDecrement(t) \/ BlockTimeout(t)
    \/ TryRemoveBegin(t) \/ TryRemoveEnd(t) \/ TimeoutDone(t)
    \/ UnlockFastWriter(t) \/ UnlockFastReader(t) \/ UnlockTakeSpin(t)
    \/ UnlockNoWaiters(t) \/ UnlockNotLastReader(t) \/ UnlockAndWake(t)
    \/ UnlockNobody(t) \/ UnlockStartWalk(t) \/ UnlockWalk(t)
    \/ WakeupUnlink(t) \/ WakeupAvailable(t) \/ WakeupPost(t)
    \/ WaitBegin(t) \/ CondVarEnqueue(t) \/ CvBlockCheck(t) \/ CvDecrement(t)
    \/ CvTimeout(t) \/ CvRemove(t) \/ Signal(t) \/ SignalAll(t)
    \/ FerWake(t) \/ FerFirstWaiter(t) \/ FerEnqueueBegin(t) \/ FerEnqueueEnd(t)
    \/ Await(t) \/ TryLockLoad(t) \/ TryLockCas(t) \/ EnableDebugLog(t)
    \/ ClientSet(t)

\* Every client has finished.
AllDone == (\A t \in Threads : th[t].pc = "done") /\ UNCHANGED vars

Next == (\E t \in Threads : Step(t)) \/ AllDone

\* Whether thread t can take a step: it cannot while it spins for kMuSpin or
\* waits on its semaphore, and when its program is over.
CanStep(t) ==
    CASE th[t].pc = "loop" ->
           \/ mu.bits \cap slow_need_zero[th[t].how] = {}
           \/ ~Has("Spin")
      [] th[t].pc = "unlock" ->
           \/ ~Has("Spin")
           \/ /\ ~th[t].requeue
              /\ \/ Has("Writer") /\ mu.bits \cap {"Wait", "Desig"} # {"Wait"}
                 \/ mu.bits \cap {"Reader", "Wait"} = {"Reader"}
      [] th[t].pc \in {"sem", "cvsem"} -> sem[t] > 0 \/ th[t].left
      [] th[t].pc = "retry" -> t \notin linked \/ CanTryRemove
      [] th[t].pc = "signal" ->
           \/ th[Waking(t)].timed
           \/ mu.bits \cap Conflicting(Waking(t)) = {}
           \/ ~Has("Spin")
      [] th[t].pc = "EnableDebugLog" -> Has("Event") \/ ~Has("Spin")
      [] th[t].pc = "done" -> FALSE
      [] OTHER -> TRUE

\* Weak fairness of each thread, WF_vars(Step(t)), spelled out with CanStep for
\* ENABLED: a thread that can take a step is eventually scheduled, and a
\* deadline that has been set eventually passes.
Fairness ==
    \A t \in Threads : []<>(~CanStep(t)) \/ []<><<Step(t)>>_vars

Spec == Init /\ [][Next]_vars /\ Fairness

----------------------------------------------------------------------------
(* Properties *)

\* The variables keep their types.
TypeOK ==
    /\ mu \in Word
    /\ list.q \in Seq(Threads) /\ list.x \in [Threads -> PerThreadSynch]
    /\ state \in [Threads -> {"kAvailable", "kQueued"}]
    /\ linked \subseteq Threads /\ waiting \subseteq Threads
    /\ sem \in [Threads -> Nat]
    /\ cvq \in Seq(Threads)
    /\ holds \in [Conds -> BOOLEAN]
    /\ own \in [Threads -> How \cup {"free"}]
    /\ th \in [Threads -> ThreadState]

\* The steps of the code on the mutex word are steps of MutexWord: the queue
\* only decides among the choices that module leaves open, and the reader
\* count survives its moves between the word and the last waiter.  What is
\* proved of MutexWord (mutual exclusion, the layout of the word, no update
\* overwritten by a plain store) therefore holds here.
MW == INSTANCE MutexWord WITH
        bits    <- mu.bits,
        readers <- IF Has("Wait") THEN list.x[mu.high].readers ELSE mu.high,
        at      <- [t \in Threads |->
                      CASE th[t].pc \in {"share", "enqueue", "remove", "spin"} ->
                             th[t].pc
                        [] th[t].pc = "fer" -> "enqueue"
                        [] OTHER -> "out"],
        v       <- [t \in Threads |-> IF th[t].pc = "spin" THEN th[t].v.bits
                                                           ELSE {}]

ImplementsMutexWord == MW!Spec

\* kMuWait and the pointer in the word describe the queue: LockSlowLoop,
\* UnlockSlow, TryRemove and Fer each store the last waiter they leave behind.
WordTellsQueue ==
    IF Has("Wait") THEN list.q # <<>> /\ mu.high = Last(list.q)
                   ELSE list.q = <<>>

\* No ABSL_RAW_CHECK of Enqueue, DequeueAllWakeable, UnlockSlow, Block, Fer and
\* CondVarEnqueue fails ("Mutex queue changed beneath us", "pw not w's
\* predecessor", "illegal skip from head", "unexpected empty wake list", ...).
ChecksPass == list.ok

\* The skip invariant of mutex.cc: a waiter's skip is null or a later waiter,
\* and everyone on the way to it waits for the same thing at the same priority.
SkipInvariant == SkipInvariantOf(list)

\* The rest of it: a waiter that may not skip does not.
MaySkipInvariant == MaySkipInvariantOf(list)

Queued(t) == Contains(list.q, t)

\* A thread that was blocked on the mutex, is no longer, and has not acquired
\* it yet.
Unblocked(t) ==
    /\ ~Queued(t) /\ ~Contains(cvq, t)
    /\ \/ th[t].pc = "loop" /\ th[t].blocked
       \/ th[t].pc \in {"block", "sem", "timeout", "retry", "remove",
                       "cvblock", "cvsem", "cvremove"}
       \/ th[t].pc \in {"wake1", "wake2", "wake3"} /\ th[t].requeue

\* INVARIANT1 of mutex.cc: while kMuDesig is set, a thread that was blocked on
\* the mutex is no longer and has not acquired it yet; Unlock may then leave
\* the other waiters to that thread.
DesignatedWaker == Has("Desig") => \E t \in Threads : Unblocked(t)

Runnable(t) == list.x[t].cond = "null" \/ Eval(list.x[t].cond)

\* No wake-up is lost: when the lock is free and a queued thread could take it
\* (its condition, if any, holds), some thread is on its way to the lock and
\* will look after the queue when it releases.
NoLostWakeup ==
    /\ mu.bits \cap {"Reader", "Writer"} = {}
    /\ \E t \in Threads : Queued(t) /\ Runnable(t)
    => \E t \in Threads : Unblocked(t)

\* UnlockSlow scans the queue without kMuSpin: while it does, the waiter it is
\* at and the one it will stop at stay queued, in that order, and nobody else
\* scans or removes.
WalkStable ==
    \A t \in Threads : th[t].pc = "walk" =>
        /\ Queued(th[t].w_walk) /\ Queued(th[t].old_h)
        /\ Pos(list, th[t].w_walk) <= Pos(list, th[t].old_h)
        /\ \A u \in Threads \ {t} : th[u].pc \notin {"walk", "remove"}

\* The queue is sound: the word points to it, no check of the code fails, and a
\* scan in progress has not lost its place.
QueueInv == TypeOK /\ WordTellsQueue /\ ChecksPass /\ WalkStable

\* Nobody who could run is forgotten: neither when the lock is free nor by a
\* holder that relies on the designated waker.
WakeInv == NoLostWakeup /\ DesignatedWaker

\* UnlockSlow wakes only waiters whose conditions hold as it releases the lock,
\* and a writer only alone.
WakeRunnable ==
    [][\A t \in Threads : th[t].pc = "spin" /\ th'[t].pc = "wake1" =>
         LET ws == ToSet(th'[t].wake_list)
         IN  /\ \A u \in ws : Runnable(u)
             /\ \A u \in ws : list.x[u].how = "kExclusive" => ws = {u}]_vars

\* The mode in which the client last locked the mutex.
Mode(t) ==
    LET locks == {i \in 1..th[t].ip : prog[t][i].op \in {"Lock", "TryLock"}}
    IN  prog[t][Max(locks)].how

\* A call that locks, or that waits with the lock held, returns with the lock
\* held in the mode asked for; if it has a condition and no deadline, the
\* condition holds.  It may have been through the queues of both the CondVar
\* and the mutex, have been woken in vain, and have timed out in between.
ReturnsHolding ==
    [][\A t \in Threads :
         LET o == prog[t][th[t].ip]
         IN  th'[t].ip # th[t].ip /\ o.op \in {"Lock", "Await", "Wait"} =>
               /\ own'[t] = Mode(t)
               /\ o.cond # "null" /\ ~o.timed => Eval(o.cond)]_vars

\* The priority kept in a PerThreadSynch is that thread's own, or still unread.
PriorityIsOwn == \A t \in Threads : list.x[t].priority \in {0, Prio[t]}

\* Every client finishes: no thread stays blocked on the mutex or on the
\* CondVar once what it waits for has happened, and every timed wait ends.
Termination == <>(\A t \in Threads : th[t].pc = "done")
=============================================================================
