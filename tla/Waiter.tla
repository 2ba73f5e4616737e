------------------------------- MODULE Waiter -------------------------------
(***************************************************************************)
(* PerThreadSem and the Waiter under it (absl/synchronization/internal/):  *)
(* FutexWaiter, SemWaiter, and the three that use a mutex and a condition  *)
(* variable of the platform, PthreadWaiter, StdcppWaiter, Win32Waiter.     *)
(*                                                                         *)
(* One thread, the owner, waits; any number of posters post; a ticker      *)
(* calls PerThreadSem::Tick.  A step is one atomic access or one call into *)
(* the kernel.  Whoever holds the platform mutex takes one step, as nobody *)
(* can look: its critical sections are atomic.                             *)
(***************************************************************************)
EXTENDS KernelTimeout, FiniteSets

CONSTANTS
    Posters,
    Kinds,         \* the implementations to check, of the five below
    Requests,      \* timeouts a caller asks for, [clock, nanos]
    kIdlePeriods,
    kNanosInMicro, kNanosInMilli, kInfiniteMillis,
    MaxPosts,      \* bound: wakeups posted
    MaxTicks,      \* bound: calls of Tick
    MaxClock       \* bound: both clocks stop here

ASSUME WaiterAssumption ==
    /\ Kinds \subseteq {"Futex", "Sem", "Pthread", "Stdcpp", "Win32"}
    /\ Requests \subseteq [clock : {"never", "steady", "wall"}, rel : {FALSE}, nanos : Int]
    /\ MaxClock \in 0..kMaxNanos
    /\ {kIdlePeriods, MaxPosts, MaxTicks} \subseteq Nat
    /\ {kNanosInMicro, kNanosInMilli, kInfiniteMillis} \subseteq Nat \ {0}

VARIABLES
    kind,          \* the implementation compiled in
    wakeups,       \* futex_, wakeups_ or wakeup_count_
    sem,           \* value of SemWaiter::sem_
    waiter_count,  \* waiter_count_ of the condition variable waiters
    identity,      \* ThreadIdentity: ticker, wait_start, is_idle, *blocked_count_ptr
    pc, first_pass, woken,  \* the owner, in PerThreadSemWait and Wait
    request, rep,  \* what it was asked, and the KernelTimeout made of it
    arm,           \* the timeout it passes to the kernel
    until,         \* what the kernel waits for while the owner sleeps
    poking,        \* posters (and "ticker") about to call Poke
    ticking,       \* value of the counter in a Tick under way, 0 if none
    posts,         \* how often Post was called
    steady, wall,  \* the clocks
    jumped         \* the wall clock was set

owner == <<pc, first_pass, woken, request, rep, arm, until>>
clocks == <<steady, wall, jumped>>
vars == <<kind, wakeups, sem, waiter_count, identity, owner, poking, ticking,
          posts, clocks>>

CvKinds == {"Pthread", "Stdcpp", "Win32"}

Never == [clock |-> "never", rel |-> FALSE, nanos |-> 0]

Init ==
    /\ kind \in Kinds
    /\ wakeups = 0 /\ sem = 0 /\ waiter_count = 0
    /\ identity = [ticker |-> 0, wait_start |-> 0, is_idle |-> FALSE, blocked |-> 0]
    /\ pc = "idle" /\ first_pass = TRUE /\ woken = FALSE
    /\ request = Never /\ rep = kNoTimeout /\ arm = Never /\ until = Never
    /\ poking = {} /\ ticking = 0 /\ posts = 0
    /\ steady = 0 /\ wall = 0 /\ jumped = FALSE

(***************************************************************************)
(* The owner                                                               *)
(***************************************************************************)

\* AbslInternalPerThreadSemWait up to the call of Wait, for a timeout as
\* asked: how long on the steady clock, or until when on the wall clock.
PerThreadSemWait ==
    /\ pc = "idle"
    /\ \E r \in Requests :
         /\ rep' = IF r.clock = "never" THEN kNoTimeout
                   ELSE IF r.clock = "steady" THEN FromDuration(r.nanos, steady)
                   ELSE FromTime(r.nanos)
         /\ request' = IF r.clock = "steady"
                       THEN [r EXCEPT !.nanos = Larger(@, 0) + steady] ELSE r
    /\ identity' = [ticker     |-> identity.ticker,
                    wait_start |-> IF identity.ticker = 0 THEN 1 ELSE identity.ticker,
                    is_idle    |-> FALSE,
                    blocked    |-> identity.blocked + 1]
    /\ waiter_count' = IF kind \in CvKinds THEN waiter_count + 1 ELSE waiter_count
    /\ pc' = "loop" /\ first_pass' = TRUE /\ woken' = FALSE
    /\ UNCHANGED <<kind, wakeups, sem, arm, until, poking, ticking, posts, clocks>>

\* Wait leaves with result r; the condition variable waiters count down.
Leave(r) ==
    /\ pc' = "return" /\ woken' = r
    /\ waiter_count' = IF kind \in CvKinds THEN waiter_count - 1 ELSE waiter_count

\* Mutant: the wakeup is seen and not consumed.
ConsumeNot ==
    /\ pc = "loop" /\ wakeups # 0
    /\ Leave(TRUE)
    /\ UNCHANGED <<kind, wakeups, sem, identity, first_pass, request, rep, arm, until,
                   poking, ticking, posts, clocks>>

\* The compare_exchange that takes a wakeup, or --wakeup_count_.
Consume ==
    /\ pc = "loop" /\ wakeups # 0
    /\ wakeups' = wakeups - 1
    /\ Leave(TRUE)
    /\ UNCHANGED <<kind, sem, identity, first_pass, request, rep, arm, until,
                   poking, ticking, posts, clocks>>

MaybeBecomeIdle ==
    identity' = IF ~identity.is_idle /\ identity.ticker - identity.wait_start > kIdlePeriods
                THEN [identity EXCEPT !.is_idle = TRUE] ELSE identity

\* What each implementation passes to the kernel: a relative or an absolute
\* time, and the clock that it counts on.
TimedWait ==
    LET Rel(c, n) == [clock |-> c, rel |-> TRUE, nanos |-> n]
        Abs(c, n) == [clock |-> c, rel |-> FALSE, nanos |-> n]
        left == InNanosecondsFromNow(rep, steady, wall)
        abs  == MakeAbsNanos(rep, steady, wall)
        millis == InMillisecondsFromNow(rep, steady, wall, kNanosInMilli, kInfiniteMillis)
    IN  IF ~has_timeout(rep) THEN Never
        ELSE IF kind = "Win32" THEN
          IF millis = kInfiniteMillis THEN Never ELSE Rel("steady", millis * kNanosInMilli)
        ELSE IF ~is_relative_timeout(rep) THEN
          Abs("wall", IF kind = "Stdcpp" THEN (abs \div kNanosInMicro) * kNanosInMicro ELSE abs)
        ELSE IF kind \in {"Futex", "Stdcpp"} THEN Rel("steady", left)
        ELSE Abs("steady", MakeClockAbsoluteTimespec(rep, steady, wall, steady))

\* No wakeup: prepare to sleep.  SemWaiter comes back here after a signal
\* (pc = "rearm") without looking at wakeups_ again.
PrepareToSleep ==
    /\ \/ pc = "loop" /\ wakeups = 0
       \/ pc = "rearm"
    /\ IF pc = "loop" /\ ~first_pass THEN MaybeBecomeIdle ELSE UNCHANGED identity
    /\ arm' = TimedWait
    /\ pc' = "arm"
    /\ UNCHANGED <<kind, wakeups, sem, waiter_count, first_pass, woken, request, rep,
                   until, poking, ticking, posts, clocks>>

GoAround == pc' = "loop" /\ first_pass' = FALSE

\* Mutant: the kernel sleeps without comparing the futex with 0.
SleepBlind ==
    /\ pc = "arm"
    /\ pc' = "asleep"
    /\ until' = IF arm.rel THEN [arm EXCEPT !.nanos = @ + steady] ELSE arm
    /\ arm' = Never
    /\ UNCHANGED <<kind, wakeups, sem, first_pass, woken, request, rep,
                   waiter_count, identity, poking, ticking, posts, clocks>>

\* The call into the kernel: the futex is compared with 0, a token of the
\* semaphore is taken, the platform mutex is released.
Sleep ==
    /\ pc = "arm"
    /\ arm' = Never
    /\ \/ /\ \/ kind = "Futex" /\ wakeups # 0 /\ sem' = sem
             \/ kind = "Sem" /\ sem > 0 /\ sem' = sem - 1
          /\ GoAround
          /\ UNCHANGED until
       \/ /\ \/ kind = "Futex" /\ wakeups = 0
             \/ kind = "Sem" /\ sem = 0
             \/ kind \in CvKinds
          /\ pc' = "asleep"
          /\ until' = IF arm.rel THEN [arm EXCEPT !.nanos = @ + steady] ELSE arm
          /\ UNCHANGED <<sem, first_pass>>
    /\ UNCHANGED <<kind, wakeups, woken, request, rep,
                   waiter_count, identity, poking, ticking, posts, clocks>>

\* A signal (EINTR), or a spurious wakeup of a condition variable.
Interrupted ==
    /\ pc = "asleep"
    /\ until' = Never
    /\ \/ kind = "Sem" /\ pc' = "rearm" /\ UNCHANGED first_pass
       \/ kind # "Sem" /\ GoAround
    /\ UNCHANGED <<kind, wakeups, sem, waiter_count, identity, woken, request, rep, arm,
                   poking, ticking, posts, clocks>>

\* Mutant: a waiter that times out stays counted.
TimedOutCounted ==
    /\ pc = "asleep"
    /\ \/ until.clock = "steady" /\ until.nanos <= steady
       \/ until.clock = "wall" /\ until.nanos <= wall
    /\ until' = Never
    /\ pc' = "return" /\ woken' = FALSE
    /\ UNCHANGED <<kind, wakeups, sem, waiter_count, identity, first_pass, request, rep, arm,
                   poking, ticking, posts, clocks>>

\* Mutant: the loop goes on after ETIMEDOUT.
TimedOutRetries ==
    /\ pc = "asleep"
    /\ \/ until.clock = "steady" /\ until.nanos <= steady
       \/ until.clock = "wall" /\ until.nanos <= wall
    /\ until' = Never
    /\ GoAround
    /\ UNCHANGED <<kind, wakeups, sem, waiter_count, identity, woken, request, rep, arm,
                   poking, ticking, posts, clocks>>

\* The kernel gives up: ETIMEDOUT.
TimedOut ==
    /\ pc = "asleep"
    /\ \/ until.clock = "steady" /\ until.nanos <= steady
       \/ until.clock = "wall" /\ until.nanos <= wall
    /\ until' = Never
    /\ Leave(FALSE)
    /\ UNCHANGED <<kind, wakeups, sem, identity, first_pass, request, rep, arm,
                   poking, ticking, posts, clocks>>

\* A sleeper in sem_wait gets a token.
TakeToken ==
    /\ pc = "asleep" /\ kind = "Sem" /\ sem > 0
    /\ sem' = sem - 1
    /\ until' = Never
    /\ GoAround
    /\ UNCHANGED <<kind, wakeups, waiter_count, identity, woken, request, rep, arm,
                   poking, ticking, posts, clocks>>

\* The rest of AbslInternalPerThreadSemWait.
WaitReturn ==
    /\ pc = "return"
    /\ identity' = [ticker |-> identity.ticker, wait_start |-> 0, is_idle |-> FALSE,
                    blocked |-> identity.blocked - 1]
    /\ pc' = "idle"
    /\ request' = Never /\ rep' = kNoTimeout /\ first_pass' = TRUE
    /\ UNCHANGED <<kind, wakeups, sem, waiter_count, woken, arm, until,
                   poking, ticking, posts, clocks>>

(***************************************************************************)
(* Posters and the ticker                                                  *)
(***************************************************************************)

\* Futex::Wake, pthread_cond_signal: whoever sleeps is let go.
WakeSleeper ==
    IF pc = "asleep" THEN until' = Never /\ GoAround
                     ELSE UNCHANGED <<pc, first_pass, until>>

InternalCondVarPoke ==
    IF waiter_count # 0 THEN WakeSleeper ELSE UNCHANGED <<pc, first_pass, until>>

\* The platform mutex is free: the owner holds it in Wait unless it sleeps.
MutexFree == kind \in CvKinds => pc \in {"idle", "asleep", "return"}

\* Mutant: the poke after the first wakeup is left out.
PostNoPoke(p) ==
    /\ posts < MaxPosts /\ p \notin poking /\ MutexFree
    /\ posts' = posts + 1
    /\ wakeups' = wakeups + 1
    /\ \/ kind \in CvKinds /\ InternalCondVarPoke /\ UNCHANGED poking
       \/ kind \notin CvKinds /\ UNCHANGED <<pc, first_pass, until, poking>>
    /\ UNCHANGED <<kind, sem, waiter_count, identity, woken, request, rep, arm, ticking, clocks>>

\* Post: the futex and semaphore waiters poke only when the count was 0.
Post(p) ==
    /\ posts < MaxPosts /\ p \notin poking /\ MutexFree
    /\ posts' = posts + 1
    /\ wakeups' = wakeups + 1
    /\ \/ kind \in CvKinds /\ InternalCondVarPoke /\ UNCHANGED poking
       \/ /\ kind \notin CvKinds
          /\ poking' = IF wakeups = 0 THEN poking \cup {p} ELSE poking
          /\ UNCHANGED <<pc, first_pass, until>>
    /\ UNCHANGED <<kind, sem, waiter_count, identity, woken, request, rep, arm, ticking, clocks>>

\* Poke, called by Post or by Tick.
Poke(p) ==
    /\ p \in poking /\ MutexFree
    /\ poking' = poking \ {p}
    /\ \/ kind = "Futex" /\ WakeSleeper /\ UNCHANGED sem
       \/ kind = "Sem" /\ sem' = sem + 1 /\ UNCHANGED <<pc, first_pass, until>>
       \/ kind \in CvKinds /\ InternalCondVarPoke /\ UNCHANGED sem
    /\ UNCHANGED <<kind, wakeups, waiter_count, identity, woken, request, rep, arm,
                   ticking, posts, clocks>>

\* PerThreadSem::Tick: the counter, then a look at the waiting thread.
Tick ==
    /\ ticking = 0 /\ "ticker" \notin poking /\ identity.ticker < MaxTicks
    /\ identity' = [identity EXCEPT !.ticker = @ + 1]
    /\ ticking' = identity.ticker + 1
    /\ UNCHANGED <<kind, wakeups, sem, waiter_count, owner, poking, posts, clocks>>

TickCheck ==
    /\ ticking # 0
    /\ ticking' = 0
    /\ poking' = IF /\ identity.wait_start # 0 /\ ~identity.is_idle
                    /\ ticking - identity.wait_start > kIdlePeriods
                 THEN poking \cup {"ticker"} ELSE poking
    /\ UNCHANGED <<kind, wakeups, sem, waiter_count, identity, owner, posts, clocks>>

(***************************************************************************)
(* The clocks: time passes, and the wall clock may be set once             *)
(***************************************************************************)
Advance ==
    /\ steady < MaxClock \/ wall < MaxClock
    /\ steady' = Smaller(steady + 1, MaxClock) /\ wall' = Smaller(wall + 1, MaxClock)
    /\ UNCHANGED <<kind, wakeups, sem, waiter_count, identity, owner, poking, ticking,
                   posts, jumped>>

SetWallClock ==
    /\ ~jumped /\ jumped' = TRUE
    /\ wall' \in 0..MaxClock
    /\ UNCHANGED <<kind, wakeups, sem, waiter_count, identity, owner, poking, ticking,
                   posts, steady>>

OwnerStep ==
    Consume \/ PrepareToSleep \/ Sleep \/ TimedOut \/ TakeToken \/ WaitReturn

PokeStep == \E p \in Posters \cup {"ticker"} : Poke(p)

Next ==
    \/ PerThreadSemWait \/ OwnerStep \/ Interrupted
    \/ \E p \in Posters : Post(p)
    \/ PokeStep \/ Tick \/ TickCheck
    \/ Advance \/ SetWallClock

\* The owner runs while it can, a poke that was begun is finished and time
\* passes; signals do not arrive so often that no sleep ever ends by itself.
\* Nothing obliges anyone to wait, to post or to tick.
Fairness ==
    /\ WF_vars(OwnerStep) /\ SF_vars(TimedOut)
    /\ WF_vars(PokeStep) /\ WF_vars(Advance)

Spec == Init /\ [][Next]_vars /\ Fairness

-----------------------------------------------------------------------------

TypeOK ==
    /\ kind \in Kinds /\ wakeups \in 0..MaxPosts /\ posts \in 0..MaxPosts
    /\ sem \in 0..(MaxPosts + MaxTicks) /\ waiter_count \in 0..1
    /\ identity.ticker \in 0..MaxTicks /\ identity.wait_start \in 0..Larger(MaxTicks, 1)
    /\ identity.blocked = IF pc = "idle" THEN 0 ELSE 1
    /\ identity.is_idle => pc \notin {"idle"} /\ identity.wait_start # 0
    /\ pc \in {"idle", "loop", "rearm", "arm", "asleep", "return"}
    /\ rep \in 0..kNoTimeout /\ poking \subseteq Posters \cup {"ticker"}

InWait == pc \notin {"idle", "return"}

Sem == INSTANCE Semaphore WITH count <- wakeups, waiting <- InWait

(***************************************************************************)
(* Every implementation is the counting semaphore that WaiterBase          *)
(* promises: Wait returns true exactly when it has consumed one Post, a    *)
(* Poke or a signal never ends a Wait, and a timeout consumes nothing.     *)
(***************************************************************************)
ImplementsSemaphore == Sem!Spec

(***************************************************************************)
(* A posted wakeup never meets a sleeping owner without someone on the way *)
(* to wake it: the poster that counted up from 0 has yet to poke, or its   *)
(* token lies in the semaphore.  Post pokes only when the count was 0, so  *)
(* this is what makes leaving out the later pokes safe.                    *)
(***************************************************************************)
NoLostPost ==
    pc = "asleep" /\ wakeups > 0 =>
        \/ kind = "Futex" /\ poking \cap Posters # {}
        \/ kind = "Sem" /\ (sem > 0 \/ poking \cap Posters # {})

\* Wait's bookkeeping of idleness is consistent, and no post is slept through.
WaiterInv == TypeOK /\ NoLostPost

(***************************************************************************)
(* Wait does not give up before the time its caller asked for, whatever    *)
(* the wall clock does to a relative timeout and however often the wait is *)
(* restarted.  Two waiters promise less for a time of the wall clock:      *)
(* StdcppWaiter cuts it to microseconds and may be early by less than one, *)
(* Win32Waiter waits for a duration and does not notice a clock set back.  *)
(***************************************************************************)
NoEarlyTimeout ==
    [][ pc = "asleep" /\ pc' = "return" =>
          \/ request.clock = "steady" /\ request.nanos <= steady
          \/ request.clock = "wall" /\ request.nanos <= wall
          \/ /\ kind = "Stdcpp" /\ request.clock = "wall"
             /\ request.nanos < wall + kNanosInMicro
          \/ kind = "Win32" /\ request.clock = "wall" /\ jumped ]_vars

(***************************************************************************)
(* Wait ends: when there is a wakeup, and, with a finite timeout, even if  *)
(* nobody ever posts (unless it is due after the clocks of the model stop).*)
(***************************************************************************)
WaitEnds ==
    [](/\ InWait /\ wakeups > 0 => <>(~InWait)
       /\ InWait /\ has_timeout(rep) => <>(~InWait \/ until.nanos > MaxClock))
=============================================================================
