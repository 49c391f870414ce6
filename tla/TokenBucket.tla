----------------------------- MODULE TokenBucket -----------------------------
(***************************************************************************)
(* The in-memory token bucket (buckets/memory/bucket.go): callers hand     *)
(* requests to the bucket's only goroutine over an unbuffered channel and  *)
(* wait for its answer; Destroy asks that goroutine to return.             *)
(***************************************************************************)
EXTENDS TokenBucketAlgorithm

CONSTANTS
  Callers,    \* goroutines that call Take
  Requests,   \* token counts asked for
  MaxWaits,   \* maximum wait times asked for
  StartTime,  \* clock reading when the bucket is created
  MaxTime     \* bound on the clock

ASSUME CallAssumption ==
  /\ Requests \subseteq Nat \ {0}
  /\ MaxWaits \subseteq Int
  /\ StartTime \in Nat
  /\ MaxTime \in Nat
  /\ StartTime <= MaxTime

VARIABLES
  now,                       \* time.Now()
  tokensNextAvailableNanos,
  accumulatedTokens,
  closed,                    \* the closer channel has been closed
  loop,                      \* the waitTimeLoop goroutine
  pc,                        \* where each caller is inside Take
  req,                       \* the waitTimeReq each caller has made
  rsp,                       \* the response channel of each caller's request
  ledger                     \* history: the grants since a chosen one

bucket == <<tokensNextAvailableNanos, accumulatedTokens>>
vars == <<now, tokensNextAvailableNanos, accumulatedTokens, closed, loop,
          pc, req, rsp, ledger>>

NoRequest == [requested |-> 0, maxWaitTimeNanos |-> 0]
NoAnswer == -2   \* an empty response channel
TimedOut == -1

WaitTimeReq == [requested : Requests, maxWaitTimeNanos : MaxWaits]

(***************************************************************************)
(* The ledger watches an interval of grants that starts at any one grant.  *)
(* It is no part of the code: no guard of an action of the code reads it.  *)
(***************************************************************************)
EmptyLedger ==
  [open   |-> FALSE,  \* the first grant of the interval has been made
   mark   |-> 0,      \* when its tokens became usable
   before |-> 0,      \* tokens granted in the interval before the last grant
   total  |-> 0,      \* tokens granted in the interval
   ready  |-> 0]      \* when the tokens of the latest grant become usable

Record(n, usable) ==
  \/ /\ ledger.open
     /\ ledger' = [ledger EXCEPT !.before = ledger.total,
                                 !.total  = ledger.total + n,
                                 !.ready  = usable]
  \/ /\ ~ledger.open
     /\ ledger' = [ledger EXCEPT !.ready = usable]
  \/ /\ ~ledger.open
     /\ ledger' = [open |-> TRUE, mark |-> usable, before |-> 0,
                   total |-> n, ready |-> usable]

-----------------------------------------------------------------------------
\* NewBucket: the bucket starts full and its goroutine running.
Init ==
  /\ now = StartTime
  /\ tokensNextAvailableNanos = 0
  /\ accumulatedTokens = Size
  /\ closed = FALSE
  /\ loop = "running"
  /\ pc = [c \in Callers |-> "idle"]
  /\ req = [c \in Callers |-> NoRequest]
  /\ rsp = [c \in Callers |-> NoAnswer]
  /\ ledger = EmptyLedger

Tick ==
  /\ now < MaxTime
  /\ now' = now + 1
  /\ UNCHANGED <<bucket, closed, loop, pc, req, rsp, ledger>>

\* Take makes a request and blocks sending it on waitTimer.
TakeSend(c, r) ==
  /\ pc[c] = "idle"
  /\ pc' = [pc EXCEPT ![c] = "sending"]
  /\ req' = [req EXCEPT ![c] = r]
  /\ UNCHANGED <<now, bucket, closed, loop, rsp, ledger>>

\* Mutant of LoopServe: a request that times out is dropped unanswered.
LoopServeGrantsOnly(c) ==
  LET r   == req[c]
      res == CalcWaitTime(r.requested, r.maxWaitTimeNanos, now,
                          tokensNextAvailableNanos, accumulatedTokens)
  IN  /\ loop = "running"
      /\ pc[c] = "sending"
      /\ pc' = [pc EXCEPT ![c] = "receiving"]
      /\ rsp' = [rsp EXCEPT ![c] = IF res.wait < 0 THEN NoAnswer ELSE res.wait]
      /\ tokensNextAvailableNanos' = res.tna
      /\ accumulatedTokens' = res.ac
      /\ UNCHANGED <<now, closed, loop, req, ledger>>

\* waitTimeLoop receives c's request, works it out and answers it.
LoopServe(c) ==
  LET r   == req[c]
      res == CalcWaitTime(r.requested, r.maxWaitTimeNanos, now,
                          tokensNextAvailableNanos, accumulatedTokens)
  IN  /\ loop = "running"
      /\ pc[c] = "sending"
      /\ pc' = [pc EXCEPT ![c] = "receiving"]
      /\ rsp' = [rsp EXCEPT ![c] = res.wait]
      /\ tokensNextAvailableNanos' = res.tna
      /\ accumulatedTokens' = res.ac
      /\ IF res.wait < 0 THEN UNCHANGED ledger
                         ELSE Record(r.requested, now + res.wait)
      /\ UNCHANGED <<now, closed, loop, req>>

\* Mutant of LoopReturn: pending requests take precedence over the closer.
LoopReturnWhenIdle ==
  /\ loop = "running"
  /\ closed
  /\ \A c \in Callers : pc[c] # "sending"
  /\ loop' = "returned"
  /\ UNCHANGED <<now, bucket, closed, pc, req, rsp, ledger>>

\* waitTimeLoop finds the closer closed and returns.
LoopReturn ==
  /\ loop = "running"
  /\ closed
  /\ loop' = "returned"
  /\ UNCHANGED <<now, bucket, closed, pc, req, rsp, ledger>>

\* Take reads its answer, which empties the channel, and returns.
TakeReturn(c) ==
  /\ pc[c] = "receiving"
  /\ rsp[c] # NoAnswer
  /\ pc' = [pc EXCEPT ![c] = "idle"]
  /\ req' = [req EXCEPT ![c] = NoRequest]
  /\ rsp' = [rsp EXCEPT ![c] = NoAnswer]
  /\ UNCHANGED <<now, bucket, closed, loop, ledger>>

\* The container destroys the bucket, once.
Destroy ==
  /\ ~closed
  /\ closed' = TRUE
  /\ UNCHANGED <<now, bucket, loop, pc, req, rsp, ledger>>

Next ==
  \/ Tick
  \/ Destroy
  \/ LoopReturn
  \/ \E c \in Callers :
       \/ \E r \in WaitTimeReq : TakeSend(c, r)
       \/ LoopServe(c)
       \/ TakeReturn(c)

(***************************************************************************)
(* A goroutine that can run is scheduled.  Senders blocked on a channel    *)
(* are queued first come, first served, so the loop serves each of them    *)
(* unless it returns first.  Nothing obliges a caller to call, the owner   *)
(* to destroy the bucket or, in the model, the clock to move.              *)
(***************************************************************************)
Fairness ==
  /\ WF_vars(LoopReturn)
  /\ \A c \in Callers : WF_vars(LoopServe(c)) /\ WF_vars(TakeReturn(c))

Spec == Init /\ [][Next]_vars /\ Fairness

-----------------------------------------------------------------------------
TypeOK ==
  /\ now \in Nat
  /\ tokensNextAvailableNanos \in Int
  /\ accumulatedTokens \in 0..Size
  /\ closed \in BOOLEAN
  /\ loop \in {"running", "returned"}
  /\ pc \in [Callers -> {"idle", "sending", "receiving"}]
  /\ req \in [Callers -> WaitTimeReq \cup {NoRequest}]
  /\ rsp \in [Callers -> Int]
  /\ ledger \in [open : BOOLEAN, mark : Int, before : Nat, total : Nat, ready : Int]

(***************************************************************************)
(* Between any two grants, the tokens handed out from the first up to but  *)
(* not including the second are paid for by the time between the instants  *)
(* at which the two become usable, save one full bucket: callers that      *)
(* honour their waits never exceed the fill rate by more than a burst.     *)
(***************************************************************************)
UsableRateBound ==
  ledger.open =>
    ledger.before * Interval <= (ledger.ready - ledger.mark) + Size * Interval

(***************************************************************************)
(* All the tokens handed out from any grant on, those of the last and      *)
(* largest request included, are covered by elapsed time, one full bucket  *)
(* and the debt cap that calcWaitTime checks before it commits.            *)
(***************************************************************************)
GrantedRateBound ==
  ledger.open =>
    ledger.total * Interval <= (now - ledger.mark) + Size * Interval + MaxDebt

(***************************************************************************)
(* Why the two bounds hold: spent = tokensNextAvailableNanos less the time *)
(* that the accumulated tokens stand for never decreases, and every grant  *)
(* raises it by at least what it hands out.                                *)
(***************************************************************************)
Spent == tokensNextAvailableNanos - accumulatedTokens * Interval

Accounting ==
  /\ TypeOK
  /\ now <= MaxTime
  /\ \A c \in Callers : pc[c] = "sending" => req[c] \in WaitTimeReq
  /\ 0 <= tokensNextAvailableNanos
  /\ tokensNextAvailableNanos <= now + MaxDebt
  /\ ledger.ready <= tokensNextAvailableNanos
  /\ ledger.open => ledger.total * Interval <= (Spent - ledger.mark) + Size * Interval
  /\ UsableRateBound

\* Tokens become usable in the order in which they were granted: the instant
\* until which a later Take is told to wait is never before that of an earlier.
FirstComeFirstUsable == [][ledger'.ready >= ledger.ready]_vars

\* A Take that reaches the loop is answered unless the bucket is destroyed.
ServedUnlessDestroyed ==
  \A c \in Callers : pc[c] = "sending" ~> (pc[c] = "idle" \/ closed)

\* Destroy ends the goroutine, however many callers keep sending to it.
DestroyEndsLoop == closed ~> loop = "returned"

\* Requests that were made before Destroy are answered.
InFlightServed ==
  \A c \in Callers : (pc[c] = "sending" /\ ~closed) ~> pc[c] = "idle"

\* Requests are small enough for the accounting to stay inside int64, which
\* is what a bucket's MaxTokensPerRequest is there to ensure.
NoOverflow ==
  \A n \in Requests : MaxTime + MaxDebt + n * Interval < WordMax

\* The rate limiter that this bucket implements: time that has been handed
\* out is the next availability less the time accumulated tokens stand for.
Limiter == INSTANCE RateLimiter WITH
  spent <- Spent,
  ready <- ledger.ready

\* Every step of the in-memory bucket is a step its promise allows.
ImplementsRateLimiter == Limiter!Spec

=============================================================================
