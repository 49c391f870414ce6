----------------------------- MODULE RateLimiter -----------------------------
(***************************************************************************)
(* What a token bucket promises, whatever its implementation: tokens are   *)
(* paid for with time.  "spent" is the instant up to which the bucket's    *)
(* fill has been handed out; it may lag the instant at which the latest    *)
(* grant becomes usable by at most a full bucket, is never turned back,    *)
(* and runs ahead of the clock by at most the permitted debt.              *)
(***************************************************************************)
EXTENDS Integers

CONSTANTS Requests, Size, Interval, MaxDebt, StartTime

VARIABLES
  now,    \* the clock
  spent,  \* time up to which the fill has been handed out
  ready   \* when the tokens of the latest grant become usable

vars == <<now, spent, ready>>

Init ==
  /\ now = StartTime
  /\ spent = -(Size * Interval)
  /\ ready = 0

\* Time passes.
Tick ==
  /\ now' > now
  /\ UNCHANGED <<spent, ready>>

\* n tokens are granted, usable from ready' on.
Grant(n) ==
  /\ now' = now
  /\ ready' >= now
  /\ ready' >= ready
  /\ spent' >= spent + n * Interval
  /\ spent' >= ready' - Size * Interval + n * Interval
  /\ spent' <= ready' + n * Interval
  /\ spent' <= now + MaxDebt

Next == Tick \/ \E n \in Requests : Grant(n)

Spec == Init /\ [][Next]_vars

=============================================================================
