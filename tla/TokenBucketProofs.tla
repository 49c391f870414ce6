-------------------------- MODULE TokenBucketProofs --------------------------
(***************************************************************************)
(* Proofs about the in-memory token bucket, for every configuration, every *)
(* set of callers and every request size that keeps the accounting inside  *)
(* int64.                                                                  *)
(***************************************************************************)
EXTENDS TokenBucket, TLAPS

-----------------------------------------------------------------------------
(***************************************************************************)
(* Arithmetic.                                                             *)
(***************************************************************************)

\* A product distributes over a difference and a sum.
LEMMA Distribute ==
  ASSUME NEW a \in Int, NEW b \in Int, NEW k \in Int
  PROVE  (a - b) * k = a * k - b * k /\ (a + b) * k = a * k + b * k
  BY Z3

\* Multiplying by a natural number preserves order.
LEMMA Scale ==
  ASSUME NEW a \in Int, NEW b \in Int, NEW k \in Nat, a <= b
  PROVE  a * k <= b * k
<1>1. b - a \in Nat
  OBVIOUS
<1>2. (b - a) * k \in Nat
  BY <1>1, Z3
<1>3. (b - a) * k = b * k - a * k
  BY Distribute
<1> QED
  BY <1>2, <1>3

\* Whole intervals fit into the time they were counted in.
LEMMA WholeIntervals ==
  ASSUME NEW a \in Nat, NEW k \in Nat \ {0}
  PROVE  a \div k \in Nat /\ (a \div k) * k <= a
  BY Z3

\* An int64 holds every number in its range.
LEMMA WrapInRange ==
  ASSUME NEW x \in Nat, x < WordMax
  PROVE  Wrap(x) = x
  BY BucketConfigAssumption DEF Wrap

-----------------------------------------------------------------------------
(***************************************************************************)
(* What one request does to a bucket.                                      *)
(***************************************************************************)

\* Refilling leaves between 0 and Size tokens and never creates more fill
\* than the time that has passed since the bucket was last looked at.
LEMMA RefillPaysForItself ==
  ASSUME NEW t \in Nat, NEW tna \in Nat, NEW ac \in 0..Size
  PROVE  /\ Refilled(t, tna, ac) \in 0..Size
         /\ Available(t, tna) \in Nat
         /\ Available(t, tna) >= t
         /\ Available(t, tna) >= tna
         /\ tna - ac * Interval <= Available(t, tna) - Refilled(t, tna, ac) * Interval
<1> DEFINE d == (t - tna) \div Interval
<1>0. Size \in Nat /\ Interval \in Nat \ {0} /\ ac \in Nat /\ ac <= Size
  BY BucketConfigAssumption
<1>1. CASE t > tna
  <2>1. t - tna \in Nat
    BY <1>1
  <2>2. d \in Nat /\ d * Interval <= t - tna
    BY <1>0, <2>1, WholeIntervals
  <2>3. Refilled(t, tna, ac) \in 0..Size /\ Refilled(t, tna, ac) <= ac + d
    BY <1>0, <1>1, <2>2 DEF Refilled, Lesser
  <2>4. Refilled(t, tna, ac) * Interval <= (ac + d) * Interval
    BY <1>0, <2>2, <2>3, Scale
  <2>5. (ac + d) * Interval = ac * Interval + d * Interval
    BY <1>0, <2>2, Distribute
  <2>6. Available(t, tna) = t
    BY <1>1 DEF Available
  <2>7. /\ Refilled(t, tna, ac) * Interval \in Int
        /\ ac * Interval \in Int
        /\ d * Interval \in Int
    BY <1>0, <2>2, <2>3
  <2> HIDE DEF d
  <2> QED
    BY <1>1, <2>2, <2>3, <2>4, <2>5, <2>6, <2>7
<1>2. CASE ~(t > tna)
  BY <1>0, <1>2 DEF Refilled, Available
<1> QED
  BY <1>1, <1>2

\* A rejected request changes nothing; a granted one is usable no sooner than
\* what was granted before, stays within the debt cap, and pays for its tokens.
LEMMA CalcWaitTimePays ==
  ASSUME NoOverflow,
         NEW n \in Requests, NEW maxWait \in Int,
         NEW t \in Nat, t <= MaxTime,
         NEW tna \in Nat, tna <= t + MaxDebt,
         NEW ac \in 0..Size,
         NEW res, res = CalcWaitTime(n, maxWait, t, tna, ac)
  PROVE  \/ res = [wait |-> -1, tna |-> tna, ac |-> ac]
         \/ /\ res.wait \in Nat
            /\ res.tna \in Nat
            /\ res.ac \in 0..Size
            /\ t + res.wait >= tna
            /\ res.tna >= t + res.wait
            /\ res.tna <= t + MaxDebt
            /\ res.tna - res.ac * Interval >= (tna - ac * Interval) + n * Interval
            /\ res.tna - res.ac * Interval >= (t + res.wait) - Size * Interval + n * Interval
            /\ res.tna - res.ac * Interval <= (t + res.wait) + n * Interval
<1> DEFINE available == Available(t, tna)
           tokens == Refilled(t, tna, ac)
           used == Lesser(tokens, n)
           exact == available + (n - used) * Interval
<1>0. /\ Size \in Nat /\ Interval \in Nat \ {0} /\ MaxDebt \in Nat
      /\ WordMax \in Nat /\ n \in Nat /\ MaxTime \in Nat
  BY BucketConfigAssumption, CallAssumption
<1>1. /\ tokens \in 0..Size
      /\ available \in Nat
      /\ available >= t
      /\ available >= tna
      /\ tna - ac * Interval <= available - tokens * Interval
  BY RefillPaysForItself
<1>2. available <= t + MaxDebt
  BY <1>0 DEF Available
<1>3. used \in Nat /\ used <= tokens /\ used <= n
  BY <1>0, <1>1 DEF Lesser
<1> HIDE DEF used
<1>4. (n - used) * Interval \in Nat /\ (n - used) * Interval <= n * Interval
  <2>1. n - used \in Nat /\ n - used <= n
    BY <1>0, <1>3
  <2>2. (n - used) * Interval <= n * Interval
    BY <1>0, <2>1, Scale
  <2>3. (n - used) * Interval \in Nat
    BY <1>0, <2>1
  <2> QED
    BY <2>2, <2>3
<1>5. MaxTime + MaxDebt + n * Interval < WordMax
  BY DEF NoOverflow
<1>6. n * Interval \in Nat
  BY <1>0
<1> HIDE DEF available, tokens
<1>7. exact \in Nat /\ exact >= available /\ exact >= t /\ exact < WordMax
  BY <1>0, <1>1, <1>2, <1>4, <1>5, <1>6
<1>8. /\ Wrap((n - used) * Interval) = (n - used) * Interval
      /\ Wrap(exact) = exact
      /\ Wrap(exact - t) = exact - t
  <2>1. exact - t \in Nat /\ exact - t < WordMax
    BY <1>0, <1>7
  <2>2. (n - used) * Interval < WordMax
    BY <1>0, <1>4, <1>5, <1>6
  <2> QED
    BY <1>4, <1>7, <2>1, <2>2, WrapInRange
<1>9. res = IF exact - t > MaxDebt \/ (available - t > 0 /\ available - t > maxWait)
            THEN [wait |-> -1, tna |-> tna, ac |-> ac]
            ELSE [wait |-> available - t, tna |-> exact, ac |-> tokens - used]
  BY <1>8 DEF CalcWaitTime, available, tokens, used
<1>10. exact - (tokens - used) * Interval = available - tokens * Interval + n * Interval
  <2>1. (n - used) * Interval = n * Interval - used * Interval
    BY <1>0, <1>3, Distribute
  <2>2. (tokens - used) * Interval = tokens * Interval - used * Interval
    BY <1>0, <1>1, <1>3, Distribute
  <2>3. used * Interval \in Int /\ tokens * Interval \in Int
    BY <1>0, <1>1, <1>3
  <2> QED
    BY <1>1, <1>6, <2>1, <2>2, <2>3
<1>11. 0 <= tokens * Interval /\ tokens * Interval <= Size * Interval
  BY <1>0, <1>1, Scale
<1>12. ASSUME res # [wait |-> -1, tna |-> tna, ac |-> ac]
       PROVE  /\ res.wait = available - t
              /\ res.tna = exact
              /\ res.ac = tokens - used
              /\ exact - t <= MaxDebt
  <2>1. /\ ~(exact - t > MaxDebt)
        /\ res = [wait |-> available - t, tna |-> exact, ac |-> tokens - used]
    BY <1>9, <1>12
  <2> QED
    BY <1>0, <1>7, <2>1
<1>13. /\ tokens * Interval \in Int
       /\ Size * Interval \in Int
       /\ ac * Interval \in Int
       /\ tokens - used \in 0..Size
  BY <1>0, <1>1, <1>3
<1> HIDE DEF exact
<1> QED
  BY <1>0, <1>1, <1>2, <1>6, <1>7, <1>10, <1>11, <1>12, <1>13

-----------------------------------------------------------------------------
(***************************************************************************)
(* The accounting invariant.                                               *)
(***************************************************************************)

\* A new bucket's accounts are in order: NewBucket starts it full.
LEMMA AccountingInit == Init => Accounting
<1> SUFFICES ASSUME Init PROVE Accounting
  OBVIOUS
<1>1. TypeOK
  <2>1. ledger \in [open : BOOLEAN, mark : Int, before : Nat, total : Nat, ready : Int]
    BY DEF Init, EmptyLedger
  <2>2. /\ req \in [Callers -> WaitTimeReq \cup {NoRequest}]
        /\ rsp \in [Callers -> Int]
        /\ pc \in [Callers -> {"idle", "sending", "receiving"}]
    BY DEF Init, NoAnswer
  <2>3. now \in Nat /\ tokensNextAvailableNanos \in Int /\ accumulatedTokens \in 0..Size
    <3>1. now = StartTime /\ tokensNextAvailableNanos = 0 /\ accumulatedTokens = Size
      BY DEF Init
    <3> QED
      BY <3>1, BucketConfigAssumption, CallAssumption
  <2>4. closed \in BOOLEAN /\ loop \in {"running", "returned"}
    BY DEF Init
  <2> QED
    BY <2>1, <2>2, <2>3, <2>4 DEF TypeOK
<1> QED
  BY <1>1, BucketConfigAssumption, CallAssumption
     DEF Init, Accounting, UsableRateBound, EmptyLedger

\* The accounts stay in order when the loop serves a request.
LEMMA LoopServeAccounts ==
  ASSUME NoOverflow, Accounting, NEW c \in Callers, LoopServe(c)
  PROVE  Accounting'
<1> DEFINE r == req[c]
           n == r.requested
           tna == tokensNextAvailableNanos
           ac == accumulatedTokens
           res == CalcWaitTime(n, r.maxWaitTimeNanos, now, tna, ac)
           usable == now + res.wait
<1>0. /\ Size \in Nat /\ Interval \in Nat \ {0} /\ MaxDebt \in Nat
      /\ Size * Interval \in Nat
  BY BucketConfigAssumption
<1>1. /\ TypeOK /\ now \in Nat /\ now <= MaxTime
      /\ tna \in Nat /\ tna <= now + MaxDebt
      /\ ac \in 0..Size /\ ac * Interval \in Nat
      /\ ledger.ready <= tna /\ ledger.ready \in Int /\ ledger.mark \in Int
      /\ ledger.total \in Nat /\ ledger.total * Interval \in Nat
      /\ ledger.before \in Nat /\ ledger.before * Interval \in Nat
      /\ ledger.open \in BOOLEAN
  BY <1>0 DEF Accounting, TypeOK
<1>2. /\ n \in Requests /\ n \in Nat /\ n * Interval \in Nat
      /\ r.maxWaitTimeNanos \in Int
  <2>1. r \in WaitTimeReq
    BY DEF Accounting, LoopServe
  <2>2. n \in Requests /\ r.maxWaitTimeNanos \in MaxWaits
    BY <2>1 DEF WaitTimeReq
  <2> HIDE DEF n, r
  <2>3. n \in Nat /\ r.maxWaitTimeNanos \in Int
    BY <2>2, CallAssumption
  <2> QED
    BY <1>0, <2>2, <2>3
<1>3. /\ tokensNextAvailableNanos' = res.tna
      /\ accumulatedTokens' = res.ac
      /\ IF res.wait < 0 THEN UNCHANGED ledger ELSE Record(n, usable)
      /\ rsp' = [rsp EXCEPT ![c] = res.wait]
      /\ pc' = [pc EXCEPT ![c] = "receiving"]
      /\ UNCHANGED <<now, closed, loop, req>>
  BY DEF LoopServe
<1>4. \/ res = [wait |-> -1, tna |-> tna, ac |-> ac]
      \/ /\ res.wait \in Nat
         /\ res.tna \in Nat
         /\ res.ac \in 0..Size
         /\ usable >= tna
         /\ res.tna >= usable
         /\ res.tna <= now + MaxDebt
         /\ res.tna - res.ac * Interval >= (tna - ac * Interval) + n * Interval
         /\ res.tna - res.ac * Interval >= usable - Size * Interval + n * Interval
         /\ res.tna - res.ac * Interval <= usable + n * Interval
  BY <1>1, <1>2, CalcWaitTimePays
<1> HIDE DEF r, n, tna, ac, res
<1>5. /\ pc' \in [Callers -> {"idle", "sending", "receiving"}]
      /\ \A d \in Callers : pc'[d] = "sending" => req'[d] \in WaitTimeReq
  BY <1>1, <1>3 DEF Accounting, TypeOK
<1>6. CASE res = [wait |-> -1, tna |-> tna, ac |-> ac]
  <2>1. /\ res.wait = -1 /\ UNCHANGED ledger
        /\ tokensNextAvailableNanos' = tna /\ accumulatedTokens' = ac
    BY <1>3, <1>6
  <2> QED
    BY <1>1, <1>3, <1>5, <2>1
       DEF Accounting, TypeOK, Spent, UsableRateBound, tna, ac
<1>7. CASE res # [wait |-> -1, tna |-> tna, ac |-> ac]
  <2>1. /\ res.wait \in Nat
        /\ res.tna \in Nat
        /\ res.ac \in 0..Size
        /\ usable >= tna
        /\ res.tna >= usable
        /\ res.tna <= now + MaxDebt
        /\ res.tna - res.ac * Interval >= (tna - ac * Interval) + n * Interval
        /\ res.tna - res.ac * Interval >= usable - Size * Interval + n * Interval
    BY <1>4, <1>7
  <2>2. Record(n, usable) /\ usable \in Nat /\ res.ac * Interval \in Int
    BY <1>0, <1>1, <1>3, <2>1
  <2>3. Spent' = res.tna - res.ac * Interval /\ Spent = tna - ac * Interval
    BY <1>3 DEF Spent, tna, ac
  <2>4. /\ rsp' \in [Callers -> Int]
        /\ tokensNextAvailableNanos' \in Nat
        /\ tokensNextAvailableNanos' <= now' + MaxDebt
        /\ accumulatedTokens' \in 0..Size
    BY <1>1, <1>3, <2>1 DEF TypeOK
  <2>5. ledger.open => ledger.total * Interval <= (Spent - ledger.mark) + Size * Interval
    BY DEF Accounting
  <2> HIDE DEF usable
  <2>6. /\ ledger' \in [open : BOOLEAN, mark : Int, before : Nat, total : Nat, ready : Int]
        /\ ledger'.ready = usable
    <3>1. ledger \in [open : BOOLEAN, mark : Int, before : Nat, total : Nat, ready : Int]
      BY <1>1 DEF TypeOK
    <3>2. ledger.total + n \in Nat
      BY <1>1, <1>2
    <3>3. usable \in Int /\ n \in Nat
      BY <1>2, <2>2
    <3>4. CASE ledger' = [ledger EXCEPT !.before = ledger.total,
                                        !.total  = ledger.total + n,
                                        !.ready  = usable]
      BY <1>1, <3>1, <3>2, <3>3, <3>4
    <3>5. CASE ledger' = [ledger EXCEPT !.ready = usable]
      BY <3>1, <3>3, <3>5
    <3>6. CASE ledger' = [open |-> TRUE, mark |-> usable, before |-> 0,
                          total |-> n, ready |-> usable]
      BY <3>3, <3>6
    <3> QED
      BY <2>2, <3>4, <3>5, <3>6 DEF Record
  <2>7. (ledger.total + n) * Interval = ledger.total * Interval + n * Interval
    BY <1>0, <1>1, <1>2, Distribute
  <2>8. ledger'.open => ledger'.total * Interval <= (Spent' - ledger'.mark) + Size * Interval
    <3>1. CASE ledger.open
      <4>1. ledger'.total = ledger.total + n /\ ledger'.mark = ledger.mark
        BY <1>1, <2>2, <3>1 DEF Record, TypeOK
      <4> QED
        BY <1>0, <1>1, <1>2, <2>1, <2>2, <2>3, <2>5, <2>7, <3>1, <4>1
    <3>2. CASE ~ledger.open /\ ledger'.open
      <4>1. ledger'.total = n /\ ledger'.mark = usable
        BY <1>1, <2>2, <3>2 DEF Record, TypeOK
      <4> QED
        BY <1>0, <1>1, <1>2, <2>1, <2>2, <2>3, <4>1
    <3> QED
      BY <3>1, <3>2
  <2>9. UsableRateBound'
    <3>1. CASE ledger.open
      <4>1. ledger'.before = ledger.total /\ ledger'.mark = ledger.mark
        BY <1>1, <2>2, <3>1 DEF Record, TypeOK
      <4> QED
        BY <1>0, <1>1, <2>1, <2>2, <2>3, <2>5, <2>6, <3>1, <4>1 DEF UsableRateBound
    <3>2. CASE ~ledger.open /\ ledger'.open
      <4>1. ledger'.before = 0 /\ ledger'.mark = usable
        BY <1>1, <2>2, <3>2 DEF Record, TypeOK
      <4> QED
        BY <1>0, <2>2, <2>6, <4>1 DEF UsableRateBound
    <3> QED
      BY <3>1, <3>2 DEF UsableRateBound
  <2>10. TypeOK'
    BY <1>1, <1>3, <1>5, <2>4, <2>6 DEF TypeOK
  <2> QED
    BY <1>1, <1>3, <1>5, <2>1, <2>4, <2>6, <2>8, <2>9, <2>10 DEF Accounting
<1> QED
  BY <1>6, <1>7

\* The accounts stay in order in every step, whoever takes it.
LEMMA AccountingStep ==
  ASSUME NoOverflow, Accounting, [Next]_vars
  PROVE  Accounting'
<1> USE DEF Accounting
<1>1. CASE Tick
  BY <1>1, BucketConfigAssumption, CallAssumption
     DEF Tick, bucket, TypeOK, Spent, UsableRateBound
<1>2. CASE Destroy
  BY <1>2 DEF Destroy, bucket, TypeOK, Spent, UsableRateBound
<1>3. CASE LoopReturn
  BY <1>3 DEF LoopReturn, bucket, TypeOK, Spent, UsableRateBound
<1>4. ASSUME NEW c \in Callers, NEW r \in WaitTimeReq, TakeSend(c, r)
      PROVE  Accounting'
  BY <1>4 DEF TakeSend, bucket, TypeOK, Spent, UsableRateBound
<1>5. ASSUME NEW c \in Callers, LoopServe(c)
      PROVE  Accounting'
  BY <1>5, LoopServeAccounts
<1>6. ASSUME NEW c \in Callers, TakeReturn(c)
      PROVE  Accounting'
  BY <1>6 DEF TakeReturn, bucket, TypeOK, Spent, UsableRateBound, NoAnswer
<1>7. CASE UNCHANGED vars
  BY <1>7 DEF vars, bucket, TypeOK, Spent, UsableRateBound
<1> QED
  BY <1>1, <1>2, <1>3, <1>4, <1>5, <1>6, <1>7 DEF Next

\* The accounts are always in order.
THEOREM AccountingAlways ==
  ASSUME NoOverflow
  PROVE  Spec => []Accounting
<1>1. Init => Accounting
  BY AccountingInit
<1>2. Accounting /\ [Next]_vars => Accounting'
  BY AccountingStep
<1> QED
  BY <1>1, <1>2, PTL DEF Spec

\* The bucket's state, its channels and its callers always have their types.
THEOREM TypeCorrect ==
  ASSUME NoOverflow
  PROVE  Spec => []TypeOK
<1>1. Accounting => TypeOK
  BY DEF Accounting
<1> QED
  BY <1>1, AccountingAlways, PTL

\* Callers that honour the waits Take returns never exceed the fill rate by
\* more than one full bucket, over any interval between two grants.
THEOREM UsableRateBounded ==
  ASSUME NoOverflow
  PROVE  Spec => []UsableRateBound
<1>1. Accounting => UsableRateBound
  BY DEF Accounting
<1> QED
  BY <1>1, AccountingAlways, PTL

\* What calcWaitTime has handed out since any grant never exceeds the fill,
\* one full bucket and the configured debt.
THEOREM GrantedRateBounded ==
  ASSUME NoOverflow
  PROVE  Spec => []GrantedRateBound
<1>1. Accounting => GrantedRateBound
  <2> SUFFICES ASSUME Accounting, ledger.open
               PROVE  ledger.total * Interval <= (now - ledger.mark) + Size * Interval + MaxDebt
    BY DEF GrantedRateBound
  <2>1. /\ now \in Nat /\ tokensNextAvailableNanos \in Int /\ accumulatedTokens \in Nat
        /\ ledger.mark \in Int /\ ledger.total \in Nat
        /\ Size \in Nat /\ Interval \in Nat /\ MaxDebt \in Nat
    BY BucketConfigAssumption DEF Accounting, TypeOK
  <2>2. /\ accumulatedTokens * Interval \in Nat
        /\ ledger.total * Interval \in Nat
        /\ Size * Interval \in Nat
    BY <2>1
  <2>3. /\ tokensNextAvailableNanos <= now + MaxDebt
        /\ ledger.total * Interval
             <= ((tokensNextAvailableNanos - accumulatedTokens * Interval) - ledger.mark)
                + Size * Interval
    BY DEF Accounting, Spent
  <2> QED
    BY <2>1, <2>2, <2>3
<1> QED
  BY <1>1, AccountingAlways, PTL

-----------------------------------------------------------------------------
(***************************************************************************)
(* The steps of the bucket, seen by the rate limiter it implements.        *)
(***************************************************************************)

\* Serving a request either leaves the limiter alone or is one of its grants.
LEMMA LoopServeGrants ==
  ASSUME NoOverflow, Accounting, NEW c \in Callers, LoopServe(c)
  PROVE  \/ UNCHANGED <<now, Spent, ledger>>
         \/ \E n \in Requests : Limiter!Grant(n)
<1> DEFINE r == req[c]
           n == r.requested
           tna == tokensNextAvailableNanos
           ac == accumulatedTokens
           res == CalcWaitTime(n, r.maxWaitTimeNanos, now, tna, ac)
           usable == now + res.wait
<1>1. /\ now \in Nat /\ now <= MaxTime
      /\ tna \in Nat /\ tna <= now + MaxDebt
      /\ ac \in 0..Size /\ ledger.ready <= tna /\ ledger.ready \in Int
      /\ ledger \in [open : BOOLEAN, mark : Int, before : Nat, total : Nat, ready : Int]
  BY DEF Accounting, TypeOK
<1>2. n \in Requests /\ n \in Nat /\ r.maxWaitTimeNanos \in Int
  <2>1. r \in WaitTimeReq
    BY DEF Accounting, LoopServe
  <2>2. n \in Requests /\ r.maxWaitTimeNanos \in MaxWaits
    BY <2>1 DEF WaitTimeReq
  <2> HIDE DEF n, r
  <2> QED
    BY <2>2, CallAssumption
<1>3. /\ tokensNextAvailableNanos' = res.tna
      /\ accumulatedTokens' = res.ac
      /\ IF res.wait < 0 THEN UNCHANGED ledger ELSE Record(n, usable)
      /\ now' = now
  BY DEF LoopServe
<1>4. \/ res = [wait |-> -1, tna |-> tna, ac |-> ac]
      \/ /\ res.wait \in Nat
         /\ res.tna \in Nat
         /\ res.ac \in 0..Size
         /\ usable >= tna
         /\ res.tna >= usable
         /\ res.tna <= now + MaxDebt
         /\ res.tna - res.ac * Interval >= (tna - ac * Interval) + n * Interval
         /\ res.tna - res.ac * Interval >= usable - Size * Interval + n * Interval
         /\ res.tna - res.ac * Interval <= usable + n * Interval
  BY <1>1, <1>2, CalcWaitTimePays
<1> HIDE DEF r, n, res
<1>5. CASE res = [wait |-> -1, tna |-> tna, ac |-> ac]
  <2>1. res.wait = -1 /\ res.tna = tna /\ res.ac = ac
    BY <1>5
  <2> QED
    BY <1>3, <2>1 DEF Spent
<1>6. CASE res # [wait |-> -1, tna |-> tna, ac |-> ac]
  <2>1. /\ res.wait \in Nat
        /\ res.tna \in Nat
        /\ res.ac \in 0..Size
        /\ usable >= tna
        /\ res.tna <= now + MaxDebt
        /\ res.tna - res.ac * Interval >= (tna - ac * Interval) + n * Interval
        /\ res.tna - res.ac * Interval >= usable - Size * Interval + n * Interval
        /\ res.tna - res.ac * Interval <= usable + n * Interval
    BY <1>4, <1>6
  <2>2. Record(n, usable) /\ usable \in Nat
    BY <1>1, <1>3, <2>1
  <2>3. Spent' = res.tna - res.ac * Interval /\ Spent = tna - ac * Interval
    BY <1>3 DEF Spent
  <2>4. res.ac * Interval \in Nat
    BY <2>1, BucketConfigAssumption
  <2>5. Spent' <= now + MaxDebt
    BY <1>1, <2>1, <2>3, <2>4, BucketConfigAssumption
  <2> HIDE DEF usable
  <2>6. ledger'.ready = usable
    <3>1. CASE ledger' = [ledger EXCEPT !.before = ledger.total,
                                        !.total  = ledger.total + n,
                                        !.ready  = usable]
      BY <1>1, <3>1
    <3>2. CASE ledger' = [ledger EXCEPT !.ready = usable]
      BY <1>1, <3>2
    <3>3. CASE ledger' = [open |-> TRUE, mark |-> usable, before |-> 0,
                          total |-> n, ready |-> usable]
      BY <3>3
    <3> QED
      BY <2>2, <3>1, <3>2, <3>3 DEF Record
  <2>7. usable >= now /\ usable >= ledger.ready
    BY <1>1, <2>1, <2>2 DEF usable
  <2>8. Limiter!Grant(n)
    BY <1>3, <2>1, <2>3, <2>5, <2>6, <2>7 DEF Limiter!Grant
  <2> QED
    BY <1>2, <2>8
<1> QED
  BY <1>5, <1>6

\* Every step of the bucket is a step of the rate limiter or leaves it alone.
LEMMA StepImplementsLimiter ==
  ASSUME NoOverflow, Accounting, [Next]_vars
  PROVE  [Limiter!Next]_(Limiter!vars)
<1> USE DEF Limiter!vars
<1>1. CASE Tick
  <2>1. now' > now /\ UNCHANGED <<Spent, ledger>>
    BY <1>1 DEF Tick, bucket, Spent, Accounting, TypeOK
  <2> QED
    BY <2>1 DEF Limiter!Next, Limiter!Tick
<1>2. CASE Destroy \/ LoopReturn
  BY <1>2 DEF Destroy, LoopReturn, bucket, Spent
<1>3. ASSUME NEW c \in Callers, NEW r \in WaitTimeReq, TakeSend(c, r)
      PROVE  [Limiter!Next]_(Limiter!vars)
  BY <1>3 DEF TakeSend, bucket, Spent
<1>4. ASSUME NEW c \in Callers, LoopServe(c)
      PROVE  [Limiter!Next]_(Limiter!vars)
  BY <1>4, LoopServeGrants DEF Limiter!Next
<1>5. ASSUME NEW c \in Callers, TakeReturn(c)
      PROVE  [Limiter!Next]_(Limiter!vars)
  BY <1>5 DEF TakeReturn, bucket, Spent
<1>6. CASE UNCHANGED vars
  BY <1>6 DEF vars, Spent
<1> QED
  BY <1>1, <1>2, <1>3, <1>4, <1>5, <1>6 DEF Next

\* The in-memory bucket implements the rate limiter's promise.
THEOREM BucketImplementsRateLimiter ==
  ASSUME NoOverflow
  PROVE  Spec => ImplementsRateLimiter
<1>1. Init => Limiter!Init
  <2>1. ASSUME Init
        PROVE  /\ now = StartTime /\ ledger.ready = 0
               /\ Spent = 0 - Size * Interval
    BY <2>1 DEF Init, EmptyLedger, Spent
  <2>2. 0 - Size * Interval = -(Size * Interval)
    BY BucketConfigAssumption
  <2> QED
    BY <2>1, <2>2 DEF Limiter!Init
<1>2. Accounting /\ [Next]_vars => [Limiter!Next]_(Limiter!vars)
  BY StepImplementsLimiter
<1> QED
  BY <1>1, <1>2, AccountingAlways, PTL DEF Spec, ImplementsRateLimiter, Limiter!Spec

\* A later Take is never told of an earlier instant than one before it was.
THEOREM FirstComeFirstUsableAlways ==
  ASSUME NoOverflow
  PROVE  Spec => FirstComeFirstUsable
<1>1. Accounting /\ [Next]_vars => [ledger'.ready >= ledger.ready]_vars
  <2> SUFFICES ASSUME Accounting, [Next]_vars
               PROVE  ledger'.ready >= ledger.ready \/ UNCHANGED vars
    OBVIOUS
  <2>1. ledger.ready \in Int
    BY DEF Accounting, TypeOK
  <2>2. [Limiter!Next]_(Limiter!vars)
    BY StepImplementsLimiter
  <2> QED
    BY <2>1, <2>2 DEF Limiter!Next, Limiter!vars, Limiter!Tick, Limiter!Grant
<1> QED
  BY <1>1, AccountingAlways, PTL DEF Spec, FirstComeFirstUsable
=============================================================================
