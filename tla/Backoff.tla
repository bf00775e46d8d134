------------------------------- MODULE Backoff -------------------------------
(***************************************************************************)
(* The backoff strategies (backoff.go): pure functions from the number of  *)
(* an attempt, from 0, to a duration.  A duration is an integer of bounded *)
(* width, from -Limit to Limit - 1, and wraps around.  The floats of the   *)
(* exponential strategy are rationals here, without their rounding.        *)
(***************************************************************************)
EXTENDS Integers

CONSTANT Limit     \* 2^63 nanoseconds in the code

ASSUME BackoffAssumption == Limit \in Nat \ {0}

Durations == -Limit..(Limit - 1)

Wrap(n) == ((n + Limit) % (2 * Limit)) - Limit

\* The multiplier of the exponential strategy is num / den.
Exponential(initial, num, den, max) ==
  [kind |-> "exponential", initial |-> initial, num |-> num, den |-> den, max |-> max]
Constant(delay) == [kind |-> "constant", initial |-> delay]
Linear(initial, increment, max) ==
  [kind |-> "linear", initial |-> initial, increment |-> increment, max |-> max]

\* The settings there are, with the types of their fields, and those the
\* constructors accept.
Strategies ==
       [kind : {"exponential"}, initial : Durations, max : Durations,
        num : Nat \ {0}, den : Nat \ {0}]
  \cup [kind : {"constant"}, initial : Durations]
  \cup [kind : {"linear"}, initial : Durations, increment : Durations, max : Durations]

Accepted(s) ==
  /\ s.initial > 0
  /\ s.kind = "exponential" => s.max >= s.initial /\ s.num >= s.den
  /\ s.kind = "linear"      => s.max >= s.initial /\ s.increment >= 0

\* The powers of a number up to the nth.
Powers(b, n) == LET power[k \in 0..n] == IF k = 0 THEN 1 ELSE b * power[k - 1]
                IN  power

\* Capped before the conversion to an integer, where the code cannot wrap.
ExponentialDelay(s, attempt) ==
  LET num   == s.initial * Powers(s.num, attempt)[attempt]
      den   == Powers(s.den, attempt)[attempt]
  IN  IF num > s.max * den THEN s.max ELSE num \div den

\* Mutant: past the cap the strategy starts over.
LinearRestarts(s, attempt) ==
  LET delay == Wrap(s.initial + Wrap(s.increment * attempt))
  IN  IF delay > s.max THEN s.initial ELSE delay

LinearDelay(s, attempt) ==
  LET delay == Wrap(s.initial + Wrap(s.increment * attempt))
  IN  IF delay > s.max THEN s.max ELSE delay

NextDelay(s, attempt) ==
  CASE s.kind = "exponential" -> ExponentialDelay(s, attempt)
    [] s.kind = "constant"    -> s.initial
    [] s.kind = "linear"      -> LinearDelay(s, attempt)

\* The longest wait of a strategy.
Longest(s) == IF s.kind = "constant" THEN s.initial ELSE s.max

\* The sum of a linear strategy stays within a duration up to an attempt.
NoOverflow(s, attempt) ==
  s.kind = "linear" => s.initial + s.increment * attempt < Limit
=============================================================================
