------------------------ MODULE TokenBucketAlgorithm ------------------------
(***************************************************************************)
(* The lazy token bucket arithmetic shared by the two bucket              *)
(* implementations: calcWaitTime of buckets/memory/bucket.go and the Lua   *)
(* script of buckets/redis/bucket_factory.go.  The constants are one       *)
(* bucket's configuration; time is counted in the units of Interval.       *)
(***************************************************************************)
EXTENDS Integers

CONSTANTS
  Size,      \* cfg.Size: how many tokens the bucket accumulates at most
  Interval,  \* nanosBetweenTokens
  MaxDebt,   \* cfg.MaxDebtMillis in the units of Interval
  WordMax    \* 2^63 in the code: arithmetic is two's complement int64

ASSUME BucketConfigAssumption ==
  /\ Size \in Nat \ {0}
  /\ Interval \in Nat \ {0}
  /\ MaxDebt \in Nat
  /\ WordMax \in Nat \ {0}

\* What an int64 holds after an operation whose exact result is x.
Wrap(x) ==
  IF x < WordMax /\ -WordMax <= x
  THEN x
  ELSE x - 2 * WordMax * ((x + WordMax) \div (2 * WordMax))

Lesser(x, y) == IF x < y THEN x ELSE y

\* Mutant of Refilled: a full bucket keeps filling.
RefilledUncapped(t, tna, ac) ==
  IF t > tna THEN ac + (t - tna) \div Interval ELSE ac

\* The tokens that have accumulated when the bucket is looked at, at time t.
Refilled(t, tna, ac) ==
  IF t > tna THEN Lesser(Size, ac + (t - tna) \div Interval) ELSE ac

\* The time from which the next tokens can be used, as seen at time t.
Available(t, tna) == IF t > tna THEN t ELSE tna

\* Mutants of CalcWaitTime: accumulated tokens are not taken out; there is no
\* debt cap; new debt replaces the outstanding one; the state is saved before
\* the request is found to be too long.
CalcWaitTimeKeepingTokens(requested, maxWait, t, tna, ac) ==
  LET available == Available(t, tna)
      tokens    == Refilled(t, tna, ac)
      debtTo    == available + (requested - Lesser(tokens, requested)) * Interval
  IN  IF debtTo - t > MaxDebt \/ available - t > maxWait
      THEN [wait |-> -1, tna |-> tna, ac |-> ac]
      ELSE [wait |-> available - t, tna |-> debtTo, ac |-> tokens]

CalcWaitTimeUncapped(requested, maxWait, t, tna, ac) ==
  LET available == Available(t, tna)
      tokens    == Refilled(t, tna, ac)
      used      == Lesser(tokens, requested)
  IN  IF available - t > maxWait
      THEN [wait |-> -1, tna |-> tna, ac |-> ac]
      ELSE [wait |-> available - t, ac |-> tokens - used,
            tna |-> available + (requested - used) * Interval]

CalcWaitTimeNewDebtOnly(requested, maxWait, t, tna, ac) ==
  LET available == Available(t, tna)
      tokens    == Refilled(t, tna, ac)
      used      == Lesser(tokens, requested)
      debtTo    == t + (requested - used) * Interval
  IN  IF debtTo - t > MaxDebt \/ available - t > maxWait
      THEN [wait |-> -1, tna |-> tna, ac |-> ac]
      ELSE [wait |-> available - t, tna |-> debtTo, ac |-> tokens - used]

CalcWaitTimeSavedEarly(requested, maxWait, t, tna, ac) ==
  LET available == Available(t, tna)
      tokens    == Refilled(t, tna, ac)
      used      == Lesser(tokens, requested)
      debtTo    == available + (requested - used) * Interval
  IN  [wait |-> IF debtTo - t > MaxDebt \/ available - t > maxWait
                THEN -1 ELSE available - t,
       tna |-> debtTo, ac |-> tokens - used]

(***************************************************************************)
(* One request against a bucket whose state is tna, ac, at time t.  A      *)
(* rejected request (wait = -1) leaves the bucket as it was; a granted one *)
(* uses accumulated tokens first and borrows the others from the future.   *)
(***************************************************************************)
CalcWaitTime(requested, maxWait, t, tna, ac) ==
  LET available == Available(t, tna)
      tokens    == Refilled(t, tna, ac)
      wait      == available - t
      used      == Lesser(tokens, requested)
      debtTo    == Wrap(available + Wrap((requested - used) * Interval))
  IN  IF Wrap(debtTo - t) > MaxDebt \/ (wait > 0 /\ wait > maxWait)
      THEN [wait |-> -1, tna |-> tna, ac |-> ac]
      ELSE [wait |-> wait, tna |-> debtTo, ac |-> tokens - used]

=============================================================================
