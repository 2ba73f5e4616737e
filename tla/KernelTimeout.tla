--------------------------- MODULE KernelTimeout ---------------------------
(***************************************************************************)
(* KernelTimeout (absl/synchronization/internal/kernel_timeout.h, .cc): an *)
(* optional timeout in one unsigned word rep, whose low bit tells a        *)
(* duration (a time of the steady clock) from a time (of the wall clock).  *)
(*                                                                         *)
(* kMaxNanos stands for INT64_MAX.  A Duration or Time is the integer      *)
(* number of nanoseconds it denotes, and is infinite above kMaxNanos; the  *)
(* readings of the two clocks are parameters.                              *)
(***************************************************************************)
EXTENDS Integers

CONSTANT kMaxNanos

ASSUME KernelTimeoutAssumption == kMaxNanos \in Nat \ {0}

kNoTimeout == 2 * kMaxNanos + 1

Larger(a, b)  == IF a < b THEN b ELSE a
Smaller(a, b) == IF b < a THEN b ELSE a

\* ToUnixNanos and ToInt64Nanoseconds saturate.
ToInt64Nanoseconds(d) == Larger(Smaller(d, kMaxNanos), -kMaxNanos - 1)

\* KernelTimeout(absl::Time)
FromTime(t) ==
    LET unix_nanos == Larger(ToInt64Nanoseconds(t), 0)
    IN  IF unix_nanos >= kMaxNanos THEN kNoTimeout ELSE 2 * unix_nanos

\* Mutant: the comparison wraps where the code subtracts first.
FromDurationWraps(d, steady) ==
    LET nanos == Larger(ToInt64Nanoseconds(d), 0)
    IN  2 * ((nanos + steady) % (kMaxNanos + 1)) + 1

\* KernelTimeout(absl::Duration)
FromDuration(d, steady) ==
    LET nanos == Larger(ToInt64Nanoseconds(d), 0)
    IN  IF nanos > kMaxNanos - steady THEN kNoTimeout
                                      ELSE 2 * (nanos + steady) + 1

has_timeout(rep) == rep # kNoTimeout

is_relative_timeout(rep) == rep % 2 = 1

RawAbsNanos(rep) == rep \div 2

\* The time on the wall clock at which the timeout expires, never 0.
MakeAbsNanos(rep, steady, wall) ==
    IF ~has_timeout(rep) THEN kMaxNanos
    ELSE IF is_relative_timeout(rep)
         THEN LET nanos == Larger(RawAbsNanos(rep) - steady, 0)
              IN  IF nanos > kMaxNanos - wall THEN kMaxNanos ELSE nanos + wall
         ELSE Larger(RawAbsNanos(rep), 1)

\* What is left until the timeout expires.
InNanosecondsFromNow(rep, steady, wall) ==
    IF ~has_timeout(rep) THEN kMaxNanos
    ELSE Larger(RawAbsNanos(rep) -
                (IF is_relative_timeout(rep) THEN steady ELSE wall), 0)

\* The time on clock c (reading now) at which the timeout expires.
MakeClockAbsoluteTimespec(rep, steady, wall, now) ==
    IF ~has_timeout(rep) THEN kMaxNanos
    ELSE Larger(now + RawAbsNanos(rep) -
                (IF is_relative_timeout(rep) THEN steady ELSE wall), 1)

\* What is left, in units of unit nanoseconds rounded up; kInfinite for ever.
InMillisecondsFromNow(rep, steady, wall, unit, kInfinite) ==
    LET ns == InNanosecondsFromNow(rep, steady, wall)
    IN  IF ~has_timeout(rep) \/ ns >= kMaxNanos - unit + 1 THEN kInfinite
        ELSE Smaller((ns + unit - 1) \div unit, kInfinite)
=============================================================================
