---------------------------- MODULE WaiterProofs ----------------------------
(***************************************************************************)
(* Proofs about Waiter, for any sets of posters, implementations and       *)
(* requested timeouts, any range of the clocks and any number of posts and *)
(* ticks: the invariant of the run, the promise about early timeouts, and  *)
(* that every implementation is the semaphore of module Semaphore.         *)
(***************************************************************************)
EXTENDS Waiter, FiniteSetTheorems, TLAPS

Timeouts == [clock : {"never", "steady", "wall"}, rel : BOOLEAN, nanos : Int]

\* What TypeOK leaves open: the records, and how the counters are related.
Types ==
    /\ TypeOK
    /\ identity \in [ticker : Nat, wait_start : Nat, is_idle : BOOLEAN, blocked : Int]
    /\ request \in Timeouts /\ arm \in Timeouts /\ until \in Timeouts
    /\ sem \in Nat /\ wakeups <= posts /\ ticking \in Nat
    /\ steady \in 0..MaxClock /\ wall \in 0..MaxClock

\* What the owner's place says about the counters it maintains.
Bookkeeping ==
    /\ pc = "idle" <=> identity.wait_start = 0
    /\ waiter_count = IF kind \in CvKinds /\ InWait THEN 1 ELSE 0
    /\ pc = "rearm" => kind = "Sem"

\* Every token of the semaphore, and every poke that is still to come, is due
\* to a Post or a Tick of its own.
TokensCounted ==
    /\ IsFiniteSet(poking)
    /\ sem + Cardinality(poking) + (IF ticking = 0 THEN 0 ELSE 1)
          <= posts + identity.ticker

(***************************************************************************)
(* NoLostPost from the moment the owner has seen no wakeup.  A poster      *)
(* cannot come between the look at wakeup_count_ and the sleep of a        *)
(* condition variable waiter, but it can for the two others: the futex is  *)
(* compared again, and the semaphore keeps the token.                      *)
(***************************************************************************)
WakeupOnItsWay ==
    wakeups > 0 =>
        /\ kind = "Futex" /\ pc = "asleep" => poking \cap Posters # {}
        /\ kind = "Sem" /\ pc \in {"arm", "rearm", "asleep"} =>
              sem > 0 \/ poking \cap Posters # {}
        /\ kind \in CvKinds => pc \notin {"arm", "asleep"}

\* Until the wall clock is set, the clocks agree.
ClocksAgree == jumped \/ wall = steady

\* The KernelTimeout is due no earlier than what was asked, on the same clock.
RepIsRequest ==
    InWait /\ has_timeout(rep) =>
        /\ request.clock = IF is_relative_timeout(rep) THEN "steady" ELSE "wall"
        /\ request.nanos <= RawAbsNanos(rep)

\* A sleep that the kernel ends at time n of clock c has lasted long enough.
LongEnough(c, n) ==
    \/ c = "never"
    \/ c = "steady" /\ request.clock = "steady" /\ request.nanos <= n
    \/ c = "steady" /\ request.clock = "wall" /\ kind = "Win32" /\ (jumped \/ request.nanos <= n)
    \/ /\ c = "wall" /\ request.clock = "wall"
       /\ request.nanos <= n \/ (kind = "Stdcpp" /\ request.nanos < n + kNanosInMicro)

\* So has the sleep that is being prepared, however late it begins.
SleepsLongEnough ==
    /\ pc = "arm" =>
         /\ arm.rel => arm.clock = "steady"
         /\ LongEnough(arm.clock, IF arm.rel THEN arm.nanos + steady ELSE arm.nanos)
    /\ pc = "asleep" => LongEnough(until.clock, until.nanos)

\* The inductive invariant.
Inv == /\ Types /\ Bookkeeping /\ TokensCounted /\ WakeupOnItsWay
       /\ ClocksAgree /\ RepIsRequest /\ SleepsLongEnough

-----------------------------------------------------------------------------
(***************************************************************************)
(* Arithmetic of KernelTimeout                                             *)
(***************************************************************************)

\* Rounding to a multiple of u changes a number by less than u.
LEMMA Rounding ==
    ASSUME NEW a \in Nat, NEW u \in Nat \ {0}
    PROVE  /\ a \div u \in Nat
           /\ (a \div u) * u \in Nat
           /\ (a \div u) * u <= a
           /\ a < (a \div u) * u + u
<1>1. a \div u \in Nat /\ a = u * (a \div u) + (a % u) /\ a % u \in 0..(u - 1)
  OBVIOUS
<1> DEFINE q == a \div u
           r == a % u
<1>2. u * q = q * u /\ q * u \in Nat
  BY <1>1
<1> QED
  BY <1>1, <1>2

\* A KernelTimeout made of a time is none, or due on the wall clock and then.
LEMMA FromTimeIsTime ==
    ASSUME NEW t \in Int
    PROVE  /\ FromTime(t) \in 0..kNoTimeout
           /\ has_timeout(FromTime(t)) =>
                /\ ~is_relative_timeout(FromTime(t))
                /\ t <= RawAbsNanos(FromTime(t))
  BY KernelTimeoutAssumption DEF FromTime, ToInt64Nanoseconds, Larger, Smaller,
     kNoTimeout, has_timeout, is_relative_timeout, RawAbsNanos

\* A KernelTimeout made of a duration is none, or due on the steady clock
\* when the duration has passed; the sum does not overflow.
LEMMA FromDurationIsDuration ==
    ASSUME NEW d \in Int, NEW now \in 0..kMaxNanos
    PROVE  /\ FromDuration(d, now) \in 0..kNoTimeout
           /\ has_timeout(FromDuration(d, now)) =>
                /\ is_relative_timeout(FromDuration(d, now))
                /\ Larger(d, 0) + now <= RawAbsNanos(FromDuration(d, now))
  BY KernelTimeoutAssumption DEF FromDuration, ToInt64Nanoseconds, Larger, Smaller,
     kNoTimeout, has_timeout, is_relative_timeout, RawAbsNanos

\* What a waiter passes to the kernel lets it sleep long enough.
LEMMA TimedWaitLongEnough ==
    ASSUME Types, ClocksAgree, RepIsRequest, InWait
    PROVE  /\ TimedWait \in Timeouts
           /\ TimedWait.rel => TimedWait.clock = "steady"
           /\ LongEnough(TimedWait.clock,
                IF TimedWait.rel THEN TimedWait.nanos + steady ELSE TimedWait.nanos)
<1> DEFINE raw == RawAbsNanos(rep)
           left == InNanosecondsFromNow(rep, steady, wall)
           abs  == MakeAbsNanos(rep, steady, wall)
           millis == InMillisecondsFromNow(rep, steady, wall, kNanosInMilli, kInfiniteMillis)
<1> USE WaiterAssumption, KernelTimeoutAssumption
<1>1. /\ raw \in Nat /\ rep \in Nat /\ kind \in Kinds /\ steady \in Nat /\ wall \in Nat
      /\ request \in Timeouts
  BY DEF Types, TypeOK, kNoTimeout, RawAbsNanos
<1>2. CASE ~has_timeout(rep)
  <2>1. TimedWait = Never
    BY <1>2 DEF TimedWait
  <2> QED BY <2>1 DEF Never, Timeouts, LongEnough
<1>3. CASE has_timeout(rep)
  <2>1. /\ request.clock = IF is_relative_timeout(rep) THEN "steady" ELSE "wall"
        /\ request.nanos <= raw
    BY <1>3 DEF RepIsRequest
  <2>2. left = Larger(raw - (IF is_relative_timeout(rep) THEN steady ELSE wall), 0)
    BY <1>3 DEF InNanosecondsFromNow
  <2>3. left \in Nat /\ raw <= left + (IF is_relative_timeout(rep) THEN steady ELSE wall)
    BY <1>1, <2>2 DEF Larger
  <2>4. ~is_relative_timeout(rep) => abs \in Nat /\ raw <= abs
    BY <1>1, <1>3 DEF MakeAbsNanos, Larger
  <2> HIDE DEF raw, left, abs
  <2>5. CASE kind = "Win32"
    <3>1. CASE millis = kInfiniteMillis
      <4>1. TimedWait = Never
        BY <1>3, <2>5, <3>1 DEF TimedWait
      <4> QED BY <4>1 DEF Never, Timeouts, LongEnough
    <3>2. CASE millis # kInfiniteMillis
      <4>1. millis = (left + kNanosInMilli - 1) \div kNanosInMilli
        BY <3>2, <1>3 DEF InMillisecondsFromNow, Smaller, left
      <4>2. /\ millis * kNanosInMilli \in Nat
            /\ left + kNanosInMilli - 1 < millis * kNanosInMilli + kNanosInMilli
        <5>1. left + kNanosInMilli - 1 \in Nat /\ kNanosInMilli \in Nat \ {0}
          BY <2>3
        <5> QED BY <5>1, <4>1, Rounding
      <4> HIDE DEF millis
      <4> DEFINE m == millis * kNanosInMilli
      <4>3. TimedWait = [clock |-> "steady", rel |-> TRUE, nanos |-> m]
        BY <1>3, <2>5, <3>2 DEF TimedWait, millis
      <4>4. m \in Nat /\ left <= m
        BY <4>2, <2>3
      <4> HIDE DEF m
      <4> QED
        BY <1>1, <2>1, <2>3, <2>5, <4>3, <4>4 DEF Timeouts, LongEnough, ClocksAgree
    <3> QED BY <3>1, <3>2
  <2>6. CASE kind \in {"Futex", "Stdcpp"} /\ is_relative_timeout(rep)
    <3>1. TimedWait = [clock |-> "steady", rel |-> TRUE, nanos |-> left]
      BY <1>3, <2>6 DEF TimedWait, left
    <3> QED BY <1>1, <2>1, <2>3, <2>6, <3>1 DEF Timeouts, LongEnough
  <2>7. CASE kind \in {"Sem", "Pthread"} /\ is_relative_timeout(rep)
    <3> DEFINE due == MakeClockAbsoluteTimespec(rep, steady, wall, steady)
    <3>1. TimedWait = [clock |-> "steady", rel |-> FALSE, nanos |-> due]
      BY <1>3, <2>7 DEF TimedWait
    <3>2. due \in Nat /\ raw <= due
      BY <1>1, <1>3, <2>7 DEF MakeClockAbsoluteTimespec, Larger, raw
    <3> HIDE DEF due
    <3> QED BY <1>1, <2>1, <2>7, <3>1, <3>2 DEF Timeouts, LongEnough
  <2>8. CASE kind \in {"Futex", "Sem", "Pthread"} /\ ~is_relative_timeout(rep)
    <3>1. TimedWait = [clock |-> "wall", rel |-> FALSE, nanos |-> abs]
      BY <1>3, <2>8 DEF TimedWait, abs
    <3> QED BY <1>1, <2>1, <2>4, <2>8, <3>1 DEF Timeouts, LongEnough
  <2>9. CASE kind = "Stdcpp" /\ ~is_relative_timeout(rep)
    <3> DEFINE cut == (abs \div kNanosInMicro) * kNanosInMicro
    <3>1. TimedWait = [clock |-> "wall", rel |-> FALSE, nanos |-> cut]
      BY <1>3, <2>9 DEF TimedWait, abs
    <3>2. cut \in Nat /\ abs < cut + kNanosInMicro
      BY <2>4, <2>9, Rounding
    <3>3. kNanosInMicro \in Nat
      OBVIOUS
    <3> HIDE DEF cut
    <3> QED BY <1>1, <2>1, <2>4, <2>9, <3>1, <3>2, <3>3 DEF Timeouts, LongEnough
  <2> QED BY <1>1, <2>5, <2>6, <2>7, <2>8, <2>9
<1> QED BY <1>2, <1>3

-----------------------------------------------------------------------------
(***************************************************************************)
(* The invariant is inductive                                              *)
(***************************************************************************)

\* One more process about to poke is at most one more to count.
LEMMA OnePokerMore ==
    ASSUME NEW S, IsFiniteSet(S), NEW p
    PROVE  /\ IsFiniteSet(S \cup {p})
           /\ Cardinality(S) \in Nat /\ Cardinality(S \cup {p}) \in Nat
           /\ Cardinality(S \cup {p}) <= Cardinality(S) + 1
  BY SMTT(30), FS_AddElement, FS_CardinalityType

\* A poker that pokes is one less.
LEMMA OnePokerLess ==
    ASSUME NEW S, IsFiniteSet(S), NEW p \in S
    PROVE  /\ IsFiniteSet(S \ {p})
           /\ Cardinality(S) \in Nat /\ Cardinality(S \ {p}) \in Nat
           /\ Cardinality(S \ {p}) = Cardinality(S) - 1
  BY FS_RemoveElement, FS_CardinalityType

\* The constants, one by one.
LEMMA ConstantTypes ==
    /\ {MaxPosts, MaxTicks, kMaxNanos, kNoTimeout} \subseteq Nat
    /\ MaxClock \in 0..kMaxNanos
  BY WaiterAssumption, KernelTimeoutAssumption DEF kNoTimeout

\* To sleep without a timeout is a timeout too.
LEMMA NeverIsTimeout == Never \in Timeouts
  BY DEF Never, Timeouts

\* What TokensCounted counts with are numbers.
LEMMA CountTypes ==
    ASSUME Inv
    PROVE  /\ posts \in Nat /\ wakeups \in Nat /\ sem \in Nat
           /\ ticking \in Nat /\ identity.ticker \in Nat
           /\ IsFiniteSet(poking) /\ Cardinality(poking) \in Nat
  BY FS_CardinalityType, ConstantTypes DEF Inv, Types, TypeOK, TokensCounted

\* The initial state satisfies the inductive invariant.
LEMMA InitInv == Init => Inv
<1> SUFFICES ASSUME Init PROVE Inv
  OBVIOUS
<1>1. Types
  BY ConstantTypes DEF Init, Types, TypeOK, Timeouts, Never, kNoTimeout, Larger
<1>2. TokensCounted
  BY FS_EmptySet DEF Init, TokensCounted
<1>3. Bookkeeping /\ WakeupOnItsWay /\ ClocksAgree /\ RepIsRequest /\ SleepsLongEnough
  BY DEF Init, Bookkeeping, WakeupOnItsWay, ClocksAgree, RepIsRequest, SleepsLongEnough,
         InWait, CvKinds
<1> QED BY <1>1, <1>2, <1>3 DEF Inv

\* PerThreadSemWait: the KernelTimeout is made.
LEMMA PerThreadSemWaitInv == ASSUME Inv, PerThreadSemWait PROVE Inv'
<1> USE ConstantTypes DEF Inv
<1>1. Types'
  <2>1. PICK r \in Requests :
          /\ rep' = IF r.clock = "never" THEN kNoTimeout
                    ELSE IF r.clock = "steady" THEN FromDuration(r.nanos, steady)
                    ELSE FromTime(r.nanos)
          /\ request' = IF r.clock = "steady"
                        THEN [r EXCEPT !.nanos = Larger(@, 0) + steady] ELSE r
    BY DEF PerThreadSemWait
  <2>2. /\ r \in Timeouts /\ r.clock \in {"never", "steady", "wall"} /\ r.nanos \in Int
        /\ steady \in 0..kMaxNanos
    <3>1. r \in [clock : {"never", "steady", "wall"}, rel : {FALSE}, nanos : Int]
      BY WaiterAssumption
    <3>2. steady \in 0..kMaxNanos
      BY DEF Types
    <3> QED BY <3>1, <3>2 DEF Timeouts
  <2>3. r.clock = "steady" =>
          request' = [clock |-> "steady", rel |-> r.rel, nanos |-> Larger(r.nanos, 0) + steady]
    BY <2>1, <2>2 DEF Timeouts
  <2>4. rep' \in 0..kNoTimeout
    BY <2>1, <2>2, FromTimeIsTime, FromDurationIsDuration
  <2>5. request' \in Timeouts
    BY <2>1, <2>2, <2>3 DEF Timeouts, Larger
  <2>6. TypeOK'
    BY <2>4 DEF Types, TypeOK, Larger, Bookkeeping, InWait, CvKinds, PerThreadSemWait
  <2> QED BY <2>5, <2>6 DEF Types, PerThreadSemWait, clocks
<1>2. Bookkeeping'
  BY DEF Types, TypeOK, Bookkeeping, InWait, CvKinds, PerThreadSemWait,
     clocks
<1>3. TokensCounted'
  BY DEF TokensCounted, PerThreadSemWait, clocks
<1>4. WakeupOnItsWay'
  BY DEF Types, TypeOK, WakeupOnItsWay, Bookkeeping, InWait, CvKinds,
     PerThreadSemWait, clocks
<1>5. (ClocksAgree /\ RepIsRequest /\ SleepsLongEnough)'
  <2>1. PICK r \in Requests :
          /\ rep' = IF r.clock = "never" THEN kNoTimeout
                    ELSE IF r.clock = "steady" THEN FromDuration(r.nanos, steady)
                    ELSE FromTime(r.nanos)
          /\ request' = IF r.clock = "steady"
                        THEN [r EXCEPT !.nanos = Larger(@, 0) + steady] ELSE r
    BY DEF PerThreadSemWait
  <2>2. /\ r \in Timeouts /\ r.clock \in {"never", "steady", "wall"} /\ r.nanos \in Int
        /\ steady \in 0..kMaxNanos
    <3>1. r \in [clock : {"never", "steady", "wall"}, rel : {FALSE}, nanos : Int]
      BY WaiterAssumption
    <3>2. steady \in 0..kMaxNanos
      BY DEF Types
    <3> QED BY <3>1, <3>2 DEF Timeouts
  <2>3. r.clock = "steady" =>
          request' = [clock |-> "steady", rel |-> r.rel, nanos |-> Larger(r.nanos, 0) + steady]
    BY <2>1, <2>2 DEF Timeouts
  <2>4. RepIsRequest'
    <3>1. CASE r.clock = "never"
      BY <2>1, <3>1 DEF RepIsRequest, has_timeout
    <3>2. CASE r.clock = "steady"
      BY <2>1, <2>2, <2>3, <3>2, FromDurationIsDuration DEF RepIsRequest
    <3>3. CASE r.clock = "wall"
      BY <2>1, <2>2, <3>3, FromTimeIsTime DEF RepIsRequest
    <3> QED BY <2>2, <3>1, <3>2, <3>3
  <2> QED BY <2>4 DEF PerThreadSemWait, ClocksAgree, SleepsLongEnough, clocks
<1> QED BY <1>1, <1>2, <1>3, <1>4, <1>5

\* Wait takes a wakeup.
LEMMA ConsumeInv == ASSUME Inv, Consume PROVE Inv'
<1> USE ConstantTypes DEF Inv
<1>1. Types'
  <2>1. TypeOK'
    BY DEF Types, TypeOK, Bookkeeping, InWait, CvKinds, Consume, Leave
  <2> QED BY <2>1, CountTypes DEF Types, Timeouts, Never, Consume, Leave, clocks
<1>2. Bookkeeping'
  BY DEF Types, TypeOK, Bookkeeping, InWait, CvKinds, Consume, Leave,
     clocks
<1>3. TokensCounted'
  BY DEF TokensCounted, Consume, Leave, clocks
<1>4. WakeupOnItsWay'
  BY DEF Types, TypeOK, WakeupOnItsWay, Bookkeeping, InWait, CvKinds,
     Consume, Leave, clocks
<1>5. (ClocksAgree /\ RepIsRequest /\ SleepsLongEnough)'
  BY DEF Types, TypeOK, Timeouts, ClocksAgree, RepIsRequest,
     SleepsLongEnough, LongEnough, InWait, Consume, Leave, clocks
<1> QED BY <1>1, <1>2, <1>3, <1>4, <1>5

\* Wait has seen no wakeup, or goes back to sem_timedwait.
LEMMA PrepareToSleepInv == ASSUME Inv, PrepareToSleep PROVE Inv'
<1> USE ConstantTypes DEF Inv
<1>1. Types'
  <2>1. arm' \in Timeouts
    BY TimedWaitLongEnough DEF PrepareToSleep, InWait
  <2>2. CASE identity' = identity
    BY <2>1, <2>2 DEF Types, TypeOK, PrepareToSleep, clocks
  <2>3. CASE identity' = [identity EXCEPT !.is_idle = TRUE]
    <3>1. identity' = [ticker |-> identity.ticker, wait_start |-> identity.wait_start,
                       is_idle |-> TRUE, blocked |-> identity.blocked]
      BY <2>3 DEF Types
    <3>2. identity.wait_start # 0 /\ pc' = "arm"
      BY DEF PrepareToSleep, Bookkeeping
    <3> QED BY <2>1, <3>1, <3>2 DEF Types, TypeOK, PrepareToSleep, clocks
  <2> QED BY <2>2, <2>3 DEF PrepareToSleep, MaybeBecomeIdle
<1>2. Bookkeeping'
  <2>1. identity'.wait_start = identity.wait_start
    BY DEF Types, PrepareToSleep, MaybeBecomeIdle
  <2> QED BY <2>1 DEF Bookkeeping, InWait, CvKinds, PrepareToSleep
<1>3. TokensCounted'
  <2>1. identity'.ticker = identity.ticker
    BY DEF Types, PrepareToSleep, MaybeBecomeIdle
  <2> QED BY <2>1 DEF TokensCounted, PrepareToSleep
<1>4. WakeupOnItsWay'
  BY DEF Types, TypeOK, WakeupOnItsWay, Bookkeeping, InWait, CvKinds,
     PrepareToSleep, clocks
<1>5. (ClocksAgree /\ RepIsRequest /\ SleepsLongEnough)'
  <2>1. /\ TimedWait.rel => TimedWait.clock = "steady"
        /\ LongEnough(TimedWait.clock,
             IF TimedWait.rel THEN TimedWait.nanos + steady ELSE TimedWait.nanos)
    BY TimedWaitLongEnough DEF PrepareToSleep, InWait
  <2> QED BY <2>1 DEF PrepareToSleep, ClocksAgree, RepIsRequest, SleepsLongEnough,
             LongEnough, InWait, clocks
<1> QED BY <1>1, <1>2, <1>3, <1>4, <1>5

\* Wait calls the kernel.
LEMMA SleepInv == ASSUME Inv, Sleep PROVE Inv'
<1> USE ConstantTypes DEF Inv
<1>1. Types'
  <2>1. until' \in Timeouts
    <3>1. [arm EXCEPT !.nanos = @ + steady] =
            [clock |-> arm.clock, rel |-> arm.rel, nanos |-> arm.nanos + steady]
      BY DEF Types, Timeouts
    <3> QED BY <3>1 DEF Types, Timeouts, Sleep
  <2> QED BY <2>1 DEF Types, TypeOK, Timeouts, Never, Sleep, GoAround, clocks
<1>2. Bookkeeping'
  BY DEF Types, TypeOK, Bookkeeping, InWait, CvKinds, Sleep, GoAround,
     clocks
<1>3. TokensCounted'
  BY CountTypes DEF TokensCounted, Sleep
<1>4. WakeupOnItsWay'
  BY DEF Types, TypeOK, WakeupOnItsWay, Bookkeeping, InWait, CvKinds,
     Sleep, GoAround, clocks
<1>5. (ClocksAgree /\ RepIsRequest /\ SleepsLongEnough)'
  <2>1. pc' = "asleep" =>
          /\ until'.clock = arm.clock
          /\ until'.nanos = IF arm.rel THEN arm.nanos + steady ELSE arm.nanos
    <3>1. [arm EXCEPT !.nanos = @ + steady] =
            [clock |-> arm.clock, rel |-> arm.rel, nanos |-> arm.nanos + steady]
      BY DEF Types, Timeouts
    <3> QED BY <3>1 DEF Sleep, GoAround
  <2> QED BY <2>1 DEF Sleep, GoAround, ClocksAgree, RepIsRequest, SleepsLongEnough,
             LongEnough, InWait, clocks
<1> QED BY <1>1, <1>2, <1>3, <1>4, <1>5

\* A signal or a spurious wakeup.
LEMMA InterruptedInv == ASSUME Inv, Interrupted PROVE Inv'
<1> USE ConstantTypes DEF Inv
<1>1. Types'
  BY SMTT(30) DEF Types, TypeOK, Timeouts, Never, Bookkeeping, InWait, CvKinds,
     Interrupted, GoAround, clocks
<1>2. Bookkeeping'
  BY DEF Types, TypeOK, Bookkeeping, InWait, CvKinds, Interrupted,
     GoAround, clocks
<1>3. TokensCounted'
  BY DEF TokensCounted, Interrupted, GoAround, clocks
<1>4. WakeupOnItsWay'
  BY DEF Types, TypeOK, WakeupOnItsWay, Bookkeeping, InWait, CvKinds,
     Interrupted, GoAround, clocks
<1>5. (ClocksAgree /\ RepIsRequest /\ SleepsLongEnough)'
  BY DEF Types, TypeOK, Timeouts, ClocksAgree, RepIsRequest,
     SleepsLongEnough, LongEnough, InWait, Interrupted, GoAround, clocks
<1> QED BY <1>1, <1>2, <1>3, <1>4, <1>5

\* The kernel gives up.
LEMMA TimedOutInv == ASSUME Inv, TimedOut PROVE Inv'
<1> USE ConstantTypes DEF Inv
<1>1. Types'
  <2>1. TypeOK'
    BY DEF Types, TypeOK, Bookkeeping, InWait, CvKinds, TimedOut, Leave
  <2> QED BY <2>1 DEF Types, Timeouts, Never, TimedOut, Leave, clocks
<1>2. Bookkeeping'
  BY DEF Types, TypeOK, Bookkeeping, InWait, CvKinds, TimedOut, Leave,
     clocks
<1>3. TokensCounted'
  BY DEF TokensCounted, TimedOut, Leave, clocks
<1>4. WakeupOnItsWay'
  BY DEF Types, TypeOK, WakeupOnItsWay, Bookkeeping, InWait, CvKinds,
     TimedOut, Leave, clocks
<1>5. (ClocksAgree /\ RepIsRequest /\ SleepsLongEnough)'
  BY DEF Types, TypeOK, Timeouts, ClocksAgree, RepIsRequest,
     SleepsLongEnough, LongEnough, InWait, TimedOut, Leave, clocks
<1> QED BY <1>1, <1>2, <1>3, <1>4, <1>5

\* sem_wait takes a token.
LEMMA TakeTokenInv == ASSUME Inv, TakeToken PROVE Inv'
<1> USE ConstantTypes DEF Inv
<1>1. Types'
  BY DEF Types, TypeOK, Timeouts, Never, Bookkeeping, InWait, CvKinds,
     TakeToken, GoAround, clocks
<1>2. Bookkeeping'
  BY DEF Types, TypeOK, Bookkeeping, InWait, CvKinds, TakeToken, GoAround,
     clocks
<1>3. TokensCounted'
  BY CountTypes DEF TokensCounted, TakeToken
<1>4. WakeupOnItsWay'
  BY DEF Types, TypeOK, WakeupOnItsWay, Bookkeeping, InWait, CvKinds,
     TakeToken, GoAround, clocks
<1>5. (ClocksAgree /\ RepIsRequest /\ SleepsLongEnough)'
  BY DEF Types, TypeOK, Timeouts, ClocksAgree, RepIsRequest,
     SleepsLongEnough, LongEnough, InWait, TakeToken, GoAround, clocks
<1> QED BY <1>1, <1>2, <1>3, <1>4, <1>5

\* PerThreadSemWait returns.
LEMMA WaitReturnInv == ASSUME Inv, WaitReturn PROVE Inv'
<1> USE ConstantTypes DEF Inv
<1>1. Types'
  <2>1. TypeOK'
    BY DEF Types, TypeOK, Bookkeeping, InWait, CvKinds, WaitReturn, Larger
  <2> QED BY <2>1 DEF Types, Timeouts, Never, WaitReturn, clocks
<1>2. Bookkeeping'
  BY DEF Types, TypeOK, Bookkeeping, InWait, CvKinds, WaitReturn, clocks
<1>3. TokensCounted'
  BY DEF TokensCounted, WaitReturn, clocks
<1>4. WakeupOnItsWay'
  BY DEF Types, TypeOK, WakeupOnItsWay, Bookkeeping, InWait, CvKinds,
     WaitReturn, clocks
<1>5. (ClocksAgree /\ RepIsRequest /\ SleepsLongEnough)'
  BY DEF Types, TypeOK, Timeouts, ClocksAgree, RepIsRequest,
     SleepsLongEnough, LongEnough, InWait, WaitReturn, clocks
<1> QED BY <1>1, <1>2, <1>3, <1>4, <1>5

\* Post, by any poster.
LEMMA PostInv == ASSUME Inv, NEW p \in Posters, Post(p) PROVE Inv'
<1> USE ConstantTypes DEF Inv
<1>1. Types'
  <2>1. TypeOK'
    BY DEF Types, TypeOK, Bookkeeping, InWait, CvKinds, Post, InternalCondVarPoke, WakeSleeper, GoAround
  <2>2. until' \in Timeouts
    <3>1. until' = Never \/ until' = until
      BY DEF Post, InternalCondVarPoke, WakeSleeper
    <3> QED BY <3>1, NeverIsTimeout DEF Types
  <2> QED BY <2>1, <2>2, CountTypes DEF Types, Post, clocks
<1>2. Bookkeeping'
  BY DEF Types, TypeOK, Bookkeeping, InWait, CvKinds, Post, MutexFree,
     InternalCondVarPoke, WakeSleeper, GoAround, clocks
<1>3. TokensCounted'
  <2>1. CASE poking' = poking
    BY <2>1, CountTypes DEF TokensCounted, Post
  <2>2. CASE poking' = poking \cup {p}
    <3>1. sem' = sem /\ posts' = posts + 1 /\ ticking' = ticking /\ identity' = identity
      BY DEF Post
    <3>2. IsFiniteSet(poking') /\ Cardinality(poking') \in Nat
          /\ Cardinality(poking') <= Cardinality(poking) + 1
      BY <2>2, OnePokerMore, CountTypes
    <3> QED BY <3>1, <3>2, CountTypes DEF TokensCounted
  <2> QED BY <2>1, <2>2 DEF Post
<1>4. WakeupOnItsWay'
  BY DEF Types, TypeOK, WakeupOnItsWay, Bookkeeping, InWait, CvKinds, Post,
     MutexFree, InternalCondVarPoke, WakeSleeper, GoAround, clocks
<1>5. (ClocksAgree /\ RepIsRequest /\ SleepsLongEnough)'
  BY DEF Types, TypeOK, Timeouts, ClocksAgree, RepIsRequest,
     SleepsLongEnough, LongEnough, InWait, Post, MutexFree,
     InternalCondVarPoke, WakeSleeper, GoAround, clocks
<1> QED BY <1>1, <1>2, <1>3, <1>4, <1>5

\* Poke, by any poster or the ticker.
LEMMA PokeInv == ASSUME Inv, NEW p \in Posters \cup {"ticker"}, Poke(p) PROVE Inv'
<1> USE ConstantTypes DEF Inv
<1>1. Types'
  <2>1. sem' \in 0..(MaxPosts + MaxTicks) /\ sem' \in Nat
    BY OnePokerLess DEF Types, TypeOK, TokensCounted, Poke
  <2>2. TypeOK'
    BY <2>1 DEF Types, TypeOK, Poke, InternalCondVarPoke, WakeSleeper, GoAround
  <2>3. until' \in Timeouts
    <3>1. until' = Never \/ until' = until
      BY DEF Poke, InternalCondVarPoke, WakeSleeper
    <3> QED BY <3>1, NeverIsTimeout DEF Types
  <2> QED BY <2>1, <2>2, <2>3 DEF Types, Poke, clocks
<1>2. Bookkeeping'
  BY DEF Types, TypeOK, Bookkeeping, InWait, CvKinds, Poke, MutexFree,
     InternalCondVarPoke, WakeSleeper, GoAround, clocks
<1>3. TokensCounted'
  <2>1. /\ p \in poking /\ poking' = poking \ {p}
        /\ posts' = posts /\ ticking' = ticking /\ identity' = identity
        /\ sem' = sem \/ sem' = sem + 1
    BY DEF Poke
  <2>2. IsFiniteSet(poking') /\ Cardinality(poking') \in Nat
        /\ Cardinality(poking') = Cardinality(poking) - 1
    BY <2>1, OnePokerLess, CountTypes
  <2> QED BY <2>1, <2>2, CountTypes DEF TokensCounted
<1>4. WakeupOnItsWay'
  BY DEF Types, TypeOK, WakeupOnItsWay, Bookkeeping, InWait, CvKinds, Poke,
     MutexFree, InternalCondVarPoke, WakeSleeper, GoAround, clocks
<1>5. (ClocksAgree /\ RepIsRequest /\ SleepsLongEnough)'
  BY DEF Types, TypeOK, Timeouts, ClocksAgree, RepIsRequest,
     SleepsLongEnough, LongEnough, InWait, Poke, MutexFree,
     InternalCondVarPoke, WakeSleeper, GoAround, clocks
<1> QED BY <1>1, <1>2, <1>3, <1>4, <1>5

\* Tick counts.
LEMMA TickInv == ASSUME Inv, Tick PROVE Inv'
<1> USE ConstantTypes DEF Inv
<1>1. Types'
  <2>1. identity' = [ticker |-> identity.ticker + 1, wait_start |-> identity.wait_start,
                     is_idle |-> identity.is_idle, blocked |-> identity.blocked]
    BY DEF Types, Tick
  <2> QED BY <2>1 DEF Types, TypeOK, Tick, owner, clocks
<1>2. Bookkeeping'
  <2>1. identity' = [ticker |-> identity.ticker + 1, wait_start |-> identity.wait_start,
                     is_idle |-> identity.is_idle, blocked |-> identity.blocked]
    BY DEF Types, Tick
  <2> QED BY <2>1 DEF Bookkeeping, InWait, Tick, owner
<1>3. TokensCounted'
  <2>1. identity' = [ticker |-> identity.ticker + 1, wait_start |-> identity.wait_start,
                     is_idle |-> identity.is_idle, blocked |-> identity.blocked]
    BY DEF Types, Tick
  <2> QED BY <2>1, CountTypes DEF TokensCounted, Tick
<1>4. WakeupOnItsWay'
  BY DEF Types, TypeOK, WakeupOnItsWay, Bookkeeping, InWait, CvKinds, Tick,
     owner, clocks
<1>5. (ClocksAgree /\ RepIsRequest /\ SleepsLongEnough)'
  BY DEF Types, TypeOK, Timeouts, ClocksAgree, RepIsRequest,
     SleepsLongEnough, LongEnough, InWait, Tick, owner, clocks
<1> QED BY <1>1, <1>2, <1>3, <1>4, <1>5

\* Tick looks at the waiting thread.
LEMMA TickCheckInv == ASSUME Inv, TickCheck PROVE Inv'
<1> USE ConstantTypes DEF Inv
<1>1. Types'
  BY DEF Types, TypeOK, Timeouts, Never, Bookkeeping, InWait, CvKinds,
     TickCheck, owner, clocks
<1>2. Bookkeeping'
  BY DEF Types, TypeOK, Bookkeeping, InWait, CvKinds, TickCheck, owner,
     clocks
<1>3. TokensCounted'
  <2> USE CountTypes
  <2>0. sem' = sem /\ posts' = posts /\ identity' = identity /\ ticking # 0 /\ ticking' = 0
    BY DEF TickCheck
  <2>1. CASE poking' = poking
    BY <2>0, <2>1 DEF TokensCounted
  <2>2. CASE poking' = poking \cup {"ticker"}
    BY <2>0, <2>2, OnePokerMore DEF TokensCounted
  <2> QED BY <2>1, <2>2 DEF TickCheck
<1>4. WakeupOnItsWay'
  BY DEF Types, TypeOK, WakeupOnItsWay, Bookkeeping, InWait, CvKinds,
     TickCheck, owner, clocks
<1>5. (ClocksAgree /\ RepIsRequest /\ SleepsLongEnough)'
  BY DEF Types, TypeOK, Timeouts, ClocksAgree, RepIsRequest,
     SleepsLongEnough, LongEnough, InWait, TickCheck, owner, clocks
<1> QED BY <1>1, <1>2, <1>3, <1>4, <1>5

\* Time passes.
LEMMA AdvanceInv == ASSUME Inv, Advance PROVE Inv'
<1> USE ConstantTypes DEF Inv
<1>1. Types'
  BY DEF Types, TypeOK, Timeouts, Never, Bookkeeping, InWait, CvKinds,
     Advance, owner, Smaller
<1>2. Bookkeeping'
  BY DEF Types, TypeOK, Bookkeeping, InWait, CvKinds, Advance, owner,
     Smaller
<1>3. TokensCounted'
  BY DEF TokensCounted, Advance, owner, Smaller
<1>4. WakeupOnItsWay'
  BY DEF Types, TypeOK, WakeupOnItsWay, Bookkeeping, InWait, CvKinds,
     Advance, owner, Smaller
<1>5. (ClocksAgree /\ RepIsRequest /\ SleepsLongEnough)'
  BY SMTT(30) DEF Types, TypeOK, Timeouts, ClocksAgree, RepIsRequest,
     SleepsLongEnough, LongEnough, InWait, Advance, owner, Smaller
<1> QED BY <1>1, <1>2, <1>3, <1>4, <1>5

\* The wall clock is set.
LEMMA SetWallClockInv == ASSUME Inv, SetWallClock PROVE Inv'
<1> USE ConstantTypes DEF Inv
<1>1. Types'
  BY DEF Types, TypeOK, Timeouts, Never, Bookkeeping, InWait, CvKinds,
     SetWallClock, owner
<1>2. Bookkeeping'
  BY DEF Types, TypeOK, Bookkeeping, InWait, CvKinds, SetWallClock, owner
<1>3. TokensCounted'
  BY DEF TokensCounted, SetWallClock, owner
<1>4. WakeupOnItsWay'
  BY DEF Types, TypeOK, WakeupOnItsWay, Bookkeeping, InWait, CvKinds,
     SetWallClock, owner
<1>5. (ClocksAgree /\ RepIsRequest /\ SleepsLongEnough)'
  BY DEF Types, TypeOK, Timeouts, ClocksAgree, RepIsRequest,
     SleepsLongEnough, LongEnough, InWait, SetWallClock, owner
<1> QED BY <1>1, <1>2, <1>3, <1>4, <1>5

\* Every step of the owner, a poster, the ticker or a clock keeps the invariant.
LEMMA NextInv == Inv /\ [Next]_vars => Inv'
<1> SUFFICES ASSUME Inv, [Next]_vars PROVE Inv'
  OBVIOUS
<1>1. CASE UNCHANGED vars
  <2> USE <1>1 DEF Inv, vars, owner, clocks
  <2>1. (Types /\ Bookkeeping)'
    BY DEF Types, TypeOK, Bookkeeping, InWait
  <2>2. (TokensCounted /\ WakeupOnItsWay /\ ClocksAgree)'
    BY DEF TokensCounted, WakeupOnItsWay, ClocksAgree
  <2>3. (RepIsRequest /\ SleepsLongEnough)'
    BY DEF RepIsRequest, SleepsLongEnough, LongEnough, InWait
  <2> QED BY <2>1, <2>2, <2>3
<1>2. CASE Next
  <2>1. CASE OwnerStep
    BY <2>1, ConsumeInv, PrepareToSleepInv, SleepInv, TimedOutInv, TakeTokenInv,
       WaitReturnInv DEF OwnerStep
  <2>2. CASE PerThreadSemWait \/ Interrupted
    BY <2>2, PerThreadSemWaitInv, InterruptedInv
  <2>3. CASE (\E p \in Posters : Post(p)) \/ PokeStep
    BY <2>3, PostInv, PokeInv DEF PokeStep
  <2>4. CASE Tick \/ TickCheck \/ Advance \/ SetWallClock
    BY <2>4, TickInv, TickCheckInv, AdvanceInv, SetWallClockInv
  <2> QED BY <1>2, <2>1, <2>2, <2>3, <2>4 DEF Next
<1> QED BY <1>1, <1>2

\* The invariant of the run is part of the inductive one.
LEMMA InvImpliesWaiterInv == Inv => WaiterInv
<1> SUFFICES ASSUME Inv PROVE NoLostPost
  BY DEF Inv, Types, WaiterInv
<1>1. kind \in {"Futex", "Sem"} \cup CvKinds
  BY WaiterAssumption DEF Inv, Types, TypeOK, CvKinds
<1> QED BY <1>1 DEF Inv, WakeupOnItsWay, NoLostPost

\* The inductive invariant holds in every reachable state.
LEMMA AlwaysInv == Spec => []Inv
  BY InitInv, NextInv, PTL DEF Spec

-----------------------------------------------------------------------------

(***************************************************************************)
(* The counts of wakeups, tokens and waiters stay in range, the idle       *)
(* bookkeeping of PerThreadSem is consistent, and no posted wakeup is ever *)
(* slept through, in each of the five waiters.                             *)
(***************************************************************************)
THEOREM WaiterInvariant == Spec => []WaiterInv
  BY AlwaysInv, InvImpliesWaiterInv, PTL

(***************************************************************************)
(* Wait never gives up before the time its caller asked for, with the      *)
(* tolerance that the property grants to StdcppWaiter and Win32Waiter.     *)
(***************************************************************************)
THEOREM WaiterNoEarlyTimeout == Spec => NoEarlyTimeout
<1> DEFINE Enough ==
      \/ request.clock = "steady" /\ request.nanos <= steady
      \/ request.clock = "wall" /\ request.nanos <= wall
      \/ /\ kind = "Stdcpp" /\ request.clock = "wall"
         /\ request.nanos < wall + kNanosInMicro
      \/ kind = "Win32" /\ request.clock = "wall" /\ jumped
<1>1. Inv /\ [Next]_vars => [pc = "asleep" /\ pc' = "return" => Enough]_vars
  <2> SUFFICES ASSUME Inv, Next, pc = "asleep", pc' = "return" PROVE Enough
    BY DEF vars
  <2>1. TimedOut
    BY DEF Next, OwnerStep, PerThreadSemWait, Consume, PrepareToSleep, Sleep, TakeToken,
       WaitReturn, Interrupted, Post, PokeStep, Poke, InternalCondVarPoke, WakeSleeper,
       GoAround, Tick, TickCheck, Advance, SetWallClock, owner
  <2>2. /\ steady \in Int /\ wall \in Int /\ until.nanos \in Int /\ request.nanos \in Int
        /\ kNanosInMicro \in Int /\ (jumped \/ wall = steady)
    BY WaiterAssumption DEF Inv, Types, Timeouts, ClocksAgree
  <2>3. LongEnough(until.clock, until.nanos)
    BY DEF Inv, SleepsLongEnough
  <2> QED BY <2>1, <2>2, <2>3 DEF TimedOut, LongEnough
<1> QED BY <1>1, AlwaysInv, PTL DEF Spec, NoEarlyTimeout

(***************************************************************************)
(* FutexWaiter, SemWaiter, PthreadWaiter, StdcppWaiter and Win32Waiter     *)
(* implement the counting semaphore: a step of any of them is Post, the    *)
(* begin or one of the two ends of Wait, or changes nothing of it.         *)
(***************************************************************************)
THEOREM WaiterImplementsSemaphore == Spec => ImplementsSemaphore
<1>1. Init => Sem!Init
  BY DEF Init, Sem!Init, InWait
<1>2. Inv /\ [Next]_vars => [Sem!Next]_(Sem!vars)
  <2> SUFFICES ASSUME Inv, [Next]_vars
               PROVE  Sem!Next \/ UNCHANGED <<wakeups, InWait, woken>>
    BY DEF Sem!vars
  <2>1. ASSUME NEW p \in Posters, Post(p) PROVE Sem!Post
    BY <2>1 DEF Post, Sem!Post, InWait, InternalCondVarPoke, WakeSleeper, GoAround
  <2>2. ASSUME PerThreadSemWait PROVE Sem!WaitBegin
    BY <2>2 DEF PerThreadSemWait, Sem!WaitBegin, InWait
  <2>3. ASSUME Consume PROVE Sem!WaitWoken
    BY <2>3, CountTypes DEF Consume, Leave, Sem!WaitWoken, InWait
  <2>4. ASSUME TimedOut PROVE Sem!WaitTimedOut
    BY <2>4 DEF TimedOut, Leave, Sem!WaitTimedOut, InWait
  <2>5. CASE PrepareToSleep \/ Sleep \/ TakeToken \/ WaitReturn \/ Interrupted
    BY <2>5 DEF PrepareToSleep, Sleep, TakeToken, WaitReturn, Interrupted, GoAround, InWait
  <2>6. CASE PokeStep
    BY <2>6 DEF PokeStep, Poke, InternalCondVarPoke, WakeSleeper, GoAround, InWait
  <2>7. CASE Tick \/ TickCheck \/ Advance \/ SetWallClock \/ UNCHANGED vars
    BY <2>7 DEF Tick, TickCheck, Advance, SetWallClock, vars, owner, InWait
  <2> QED BY <2>1, <2>2, <2>3, <2>4, <2>5, <2>6, <2>7 DEF Next, OwnerStep, Sem!Next
<1> QED BY <1>1, <1>2, AlwaysInv, PTL DEF Spec, ImplementsSemaphore, Sem!Spec
=============================================================================
