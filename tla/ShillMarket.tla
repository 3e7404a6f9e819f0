----------------------------- MODULE ShillMarket -----------------------------
(***************************************************************************)
(* The shill market: the paid endpoint POST /shill/:tokenAddr              *)
(* (apps/server/src/x402/index.ts), the order queue in Postgres            *)
(* (state/shill-order-store.ts) and the orchestrator that pays for an      *)
(* order, pulls it and has it posted to X (runs/shill-market.ts,           *)
(* agents/market-maker.ts, tools/post-shill-for.ts, tools/x-post.ts).      *)
(*                                                                         *)
(* Each paid request gets a fresh UUID, so the order of payer o is named   *)
(* o.  A payer is an orchestration (Runs), which pays over the loopback    *)
(* interface, or with a stub in a dry run (StubRuns), or anyone else who   *)
(* pays the endpoint (Buyers).  An action is the code between two awaits;  *)
(* pc and http name the await a run and a request are suspended at.  A     *)
(* statement that was on its way when the process died is one that failed, *)
(* applied or not, just before the crash.                                  *)
(***************************************************************************)
EXTENDS Naturals, FiniteSets

CONSTANTS
  Runs,         \* shill-market orchestrations
  StubRuns,     \* those that pay through stubCreatorPaymentPhase
  Buyers,       \* other callers of POST /shill/:tokenAddr
  MaxRetries,   \* retries of post_to_x after its first attempt
  MaxCrashes,   \* bound: process restarts
  MaxFailures,  \* bound: queries that fail
  MaxLost       \* bound: answers that never arrive or cannot be read

ASSUME MarketAssumption ==
  /\ StubRuns \subseteq Runs /\ Runs \intersect Buyers = {}
  /\ MaxRetries \in Nat
  /\ MaxCrashes \in Nat /\ MaxFailures \in Nat /\ MaxLost \in Nat

Orders == Runs \union Buyers
Payers == Orders \ StubRuns

VARIABLES
  row,      \* status of the order's row in shill_orders
  hash,     \* its payload's paidTxHash
  settled,  \* orders whose USDC transfer is on the chain
  tweets,   \* tweets X holds for the order
  http,     \* stage of the paid request
  resp,     \* what its caller has been answered
  pc,       \* await the orchestration is suspended at
  attempt,  \* retries of post_to_x so far
  claim,    \* transaction hash of the run's x402-tx artifact
  trail,    \* status of the run's last shill-order artifact
  keyed,    \* the process was started with credentials for X
  crashes, failures, lost

dbVars    == <<row, hash>>
worldVars == <<settled, tweets>>
httpVars  == <<http, resp>>
runVars   == <<pc, attempt, claim, trail>>
outerVars == <<keyed, crashes, failures, lost>>
vars == <<dbVars, worldVars, httpVars, runVars, outerVars>>

Ended == {"done", "error", "crashed"}

TypeOK ==
  /\ row \in [Orders -> {"none", "queued", "processing", "done", "failed"}]
  /\ hash \in [Orders -> {"none", "sentinel", "tx"}]
  /\ settled \subseteq Orders
  /\ tweets \in [Orders -> Nat]
  /\ http \in [Payers -> {"idle", "enqueue", "settle", "record", "ended"}]
  /\ resp \in [Payers -> {"none", "ok", "refused"}]
  /\ pc \in [Runs -> {"idle", "paying", "stub", "lore", "pull", "draft", "post",
                      "markDone", "markFailed"} \union Ended]
  /\ attempt \in [Runs -> 0..MaxRetries]
  /\ claim \in [Runs -> {"none", "sentinel", "tx"}]
  /\ trail \in [Runs -> {"none", "queued", "done", "failed"}]
  /\ keyed \in BOOLEAN
  /\ crashes \in 0..MaxCrashes /\ failures \in 0..MaxFailures /\ lost \in 0..MaxLost

Init ==
  /\ row = [o \in Orders |-> "none"] /\ hash = [o \in Orders |-> "none"]
  /\ settled = {} /\ tweets = [o \in Orders |-> 0]
  /\ http = [o \in Payers |-> "idle"] /\ resp = [o \in Payers |-> "none"]
  /\ pc = [r \in Runs |-> "idle"] /\ attempt = [r \in Runs |-> 0]
  /\ claim = [r \in Runs |-> "none"] /\ trail = [r \in Runs |-> "none"]
  /\ keyed \in BOOLEAN /\ crashes = 0 /\ failures = 0 /\ lost = 0

-----------------------------------------------------------------------------
Goto(r, at)    == pc' = [pc EXCEPT ![r] = at]
SetRow(o, st)  == row' = [row EXCEPT ![o] = st]
Serve(o, at)   == http' = [http EXCEPT ![o] = at]
Answer(o, ans) == resp' = [resp EXCEPT ![o] = ans]

QueryFails ==
  failures < MaxFailures /\ failures' = failures + 1 /\ UNCHANGED <<keyed, crashes, lost>>
AnswerLost == lost < MaxLost /\ lost' = lost + 1 /\ UNCHANGED <<keyed, crashes, failures>>

\* The INSERT of enqueue: a queued row under the sentinel hash.
Enqueue(o) ==
  /\ SetRow(o, "queued")
  /\ hash' = [hash EXCEPT ![o] = "sentinel"]

\* The statements guarded by WHERE status = ...; they match no other row.
PullById(o)     == row[o] = "queued" /\ SetRow(o, "processing")
MarkOrder(o, v) == row[o] = "processing" /\ SetRow(o, v)

\* recordSettlement: WHERE the payload still carries the sentinel.
RecordSettlement(o) ==
  hash' = IF hash[o] = "sentinel" THEN [hash EXCEPT ![o] = "tx"] ELSE hash

-----------------------------------------------------------------------------
\* The paid request.  The middleware verifies the payment, runs the handler,
\* settles on the chain if the handler answered below 400, and flushes.
Request(o) ==
  /\ http[o] = "idle" /\ (o \in Runs => pc[o] = "paying")
  /\ \/ Serve(o, "enqueue") /\ UNCHANGED resp
     \/ Serve(o, "ended") /\ Answer(o, "refused")
  /\ UNCHANGED <<dbVars, worldVars, runVars, outerVars>>

EnqueueDone(o) ==
  /\ http[o] = "enqueue"
  /\ Enqueue(o) /\ Serve(o, "settle")
  /\ UNCHANGED <<worldVars, resp, runVars, outerVars>>

\* A 500, so nothing is settled; the INSERT may have been applied.
EnqueueFailed(o) ==
  /\ http[o] = "enqueue" /\ QueryFails
  /\ Enqueue(o) \/ UNCHANGED dbVars
  /\ Serve(o, "ended") /\ Answer(o, "refused")
  /\ UNCHANGED <<worldVars, runVars>>

\* Slip: no finish hook.
SettleDoneUnhooked(o) ==
  /\ http[o] = "settle"
  /\ settled' = settled \union {o}
  /\ Serve(o, "ended") /\ Answer(o, "ok")
  /\ UNCHANGED <<dbVars, tweets, runVars, outerVars>>

\* The transfer is on the chain and the answer flushed: finish fires and the
\* handler's hook sends the UPDATE of recordSettlement.
SettleDone(o) ==
  /\ http[o] = "settle"
  /\ settled' = settled \union {o}
  /\ Serve(o, "record") /\ Answer(o, "ok")
  /\ UNCHANGED <<dbVars, tweets, runVars, outerVars>>

\* Slip: the hook passes on whatever the facilitator answered.
SettleFailedRecorded(o) ==
  /\ http[o] = "settle"
  /\ Serve(o, "record") /\ Answer(o, "refused")
  /\ UNCHANGED <<dbVars, worldVars, runVars, outerVars>>

\* No transaction: a 402, and the hook leaves the sentinel.
SettleFailed(o) ==
  /\ http[o] = "settle"
  /\ Serve(o, "ended") /\ Answer(o, "refused")
  /\ UNCHANGED <<dbVars, worldVars, runVars, outerVars>>

\* Money moved but somebody did not hear of it: the facilitator reported a
\* failure or the caller hung up before the flush (no finish), or the answer
\* was lost after it.
SettleUnheard(o) ==
  /\ http[o] = "settle" /\ AnswerLost
  /\ settled' = settled \union {o}
  /\ Serve(o, "ended") \/ Serve(o, "record")
  /\ Answer(o, "refused")
  /\ UNCHANGED <<dbVars, tweets, runVars>>

RecordDone(o) ==
  /\ http[o] = "record"
  /\ RecordSettlement(o) /\ Serve(o, "ended")
  /\ UNCHANGED <<row, worldVars, resp, runVars, outerVars>>

\* Logged and swallowed.
RecordFailed(o) ==
  /\ http[o] = "record" /\ QueryFails
  /\ RecordSettlement(o) \/ UNCHANGED hash
  /\ Serve(o, "ended")
  /\ UNCHANGED <<row, worldVars, resp, runVars>>

-----------------------------------------------------------------------------
\* The orchestrator, phase by phase.
Start(r) ==
  /\ pc[r] = "idle"
  /\ Goto(r, IF r \in StubRuns THEN "stub" ELSE "paying")
  /\ UNCHANGED <<dbVars, worldVars, httpVars, attempt, claim, trail, outerVars>>

\* The payment returned: the x402-tx and the queued artifact, then the lore.
EmitQueued(r, txHash) ==
  /\ claim' = [claim EXCEPT ![r] = txHash]
  /\ trail' = [trail EXCEPT ![r] = "queued"]
  /\ Goto(r, "lore")

\* Slip: the answer's status is not looked at.
PaidUnchecked(r) ==
  /\ pc[r] = "paying" /\ resp[r] # "none"
  /\ EmitQueued(r, "tx")
  /\ UNCHANGED <<dbVars, worldVars, httpVars, attempt, outerVars>>

Paid(r) ==
  /\ pc[r] = "paying" /\ resp[r] = "ok"
  /\ EmitQueued(r, "tx")
  /\ UNCHANGED <<dbVars, worldVars, httpVars, attempt, outerVars>>

PaymentFailed(r) ==
  /\ pc[r] = "paying" /\ resp[r] = "refused"
  /\ Goto(r, "error")
  /\ UNCHANGED <<dbVars, worldVars, httpVars, attempt, claim, trail, outerVars>>

StubPaid(r) ==
  /\ pc[r] = "stub"
  /\ Enqueue(r) /\ EmitQueued(r, "sentinel")
  /\ UNCHANGED <<worldVars, httpVars, attempt, outerVars>>

LoreRead(r) ==
  /\ pc[r] = "lore"
  /\ Goto(r, "pull")
  /\ UNCHANGED <<dbVars, worldVars, httpVars, attempt, claim, trail, outerVars>>

PullDone(r) ==
  /\ pc[r] = "pull"
  /\ PullById(r) /\ Goto(r, "draft")
  /\ UNCHANGED <<hash, worldVars, httpVars, attempt, claim, trail, outerVars>>

\* Slip: the agent throws what its tool threw.
DraftRethrown(r) ==
  /\ pc[r] = "draft"
  /\ Goto(r, "post") \/ Goto(r, "error")
  /\ UNCHANGED <<dbVars, worldVars, httpVars, attempt, claim, trail, outerVars>>

\* post_shill_for drafts until the guard passes (or fails, at most
\* MAX_ATTEMPTS drafts); a throw is a decision to skip.  Without credentials
\* nothing is drafted: the tools of the default phase are created before the
\* agent is called and throw through the run; those of invoke_shiller throw when
\* they are used, which is a decision to skip.
Draft(r) ==
  /\ pc[r] = "draft"
  /\ \/ keyed /\ Goto(r, "post")
     \/ ~keyed /\ Goto(r, "error")
     \/ Goto(r, "markFailed")
  /\ UNCHANGED <<dbVars, worldVars, httpVars, attempt, claim, trail, outerVars>>

\* Slip: the count starts over.
RetryForever(r) ==
  /\ attempt' = [attempt EXCEPT ![r] = (@ + 1) % (MaxRetries + 1)]
  /\ UNCHANGED pc

\* Slip: one attempt too many.
RetryLate(r) ==
  \/ /\ attempt[r] <= MaxRetries
     /\ attempt' = [attempt EXCEPT ![r] = @ + 1] /\ UNCHANGED pc
  \/ /\ attempt[r] > MaxRetries
     /\ Goto(r, "markFailed") /\ UNCHANGED attempt

\* post_to_x tries again, or gives up after MaxRetries retries.
Retry(r) ==
  \/ /\ attempt[r] < MaxRetries
     /\ attempt' = [attempt EXCEPT ![r] = @ + 1] /\ UNCHANGED pc
  \/ /\ attempt[r] = MaxRetries
     /\ Goto(r, "markFailed") /\ UNCHANGED attempt

Tweeted(r) == tweets' = [tweets EXCEPT ![r] = @ + 1]

\* One attempt of post_to_x and what becomes of it.
XAccepts(r) ==
  /\ Tweeted(r) /\ Goto(r, "markDone")
  /\ UNCHANGED <<attempt, outerVars>>

\* 429, 5xx, or a request that never reached X.
XUnavailable(r) == Retry(r) /\ UNCHANGED <<tweets, outerVars>>

\* Any other 4xx, or the tweet guard of post_to_x.
XRejects(r) == Goto(r, "markFailed") /\ UNCHANGED <<tweets, attempt, outerVars>>

\* X posted it, and the answer was lost (retried) or had no id in it (thrown).
XUnheard(r) ==
  /\ Tweeted(r) /\ AnswerLost
  /\ Retry(r) \/ (Goto(r, "markFailed") /\ UNCHANGED attempt)

PostToX(r) ==
  /\ pc[r] = "post"
  /\ XAccepts(r) \/ XUnavailable(r) \/ XRejects(r) \/ XUnheard(r)
  /\ UNCHANGED <<dbVars, settled, httpVars, claim, trail>>

\* The row is updated, then the artifacts are emitted and the run ends.
Marked(r, v) ==
  /\ trail' = [trail EXCEPT ![r] = v]
  /\ Goto(r, "done")
  /\ UNCHANGED <<hash, worldVars, httpVars, attempt, claim, outerVars>>

\* Slip: the artifact goes out before the row is marked.
MarkFailedEarly(r) ==
  /\ pc[r] = "markFailed"
  /\ Marked(r, "failed") /\ UNCHANGED row

MarkDone(r)   == pc[r] = "markDone" /\ MarkOrder(r, "done") /\ Marked(r, "done")
MarkFailed(r) == pc[r] = "markFailed" /\ MarkOrder(r, "failed") /\ Marked(r, "failed")

\* A statement of the orchestrator fails, applied or not: the run ends in an
\* error and nothing takes the order up again.
StatementFailed(r) ==
  /\ \/ pc[r] = "stub" /\ (Enqueue(r) \/ UNCHANGED dbVars)
     \/ pc[r] = "lore" /\ UNCHANGED dbVars
     \/ pc[r] = "pull" /\ (PullById(r) \/ UNCHANGED row) /\ UNCHANGED hash
     \/ pc[r] = "markDone" /\ (MarkOrder(r, "done") \/ UNCHANGED row) /\ UNCHANGED hash
     \/ pc[r] = "markFailed" /\ (MarkOrder(r, "failed") \/ UNCHANGED row) /\ UNCHANGED hash
  /\ QueryFails
  /\ Goto(r, "error")
  /\ UNCHANGED <<worldVars, httpVars, attempt, claim, trail>>

\* The process dies: runs and requests are gone, rows, chain and tweets stay; it
\* may be started again with other credentials.
Crash ==
  /\ crashes < MaxCrashes /\ crashes' = crashes + 1 /\ keyed' \in BOOLEAN
  /\ pc' = [r \in Runs |-> IF pc[r] \in Ended \union {"idle"} THEN pc[r] ELSE "crashed"]
  /\ http' = [o \in Payers |-> IF http[o] = "idle" THEN "idle" ELSE "ended"]
  /\ UNCHANGED <<dbVars, worldVars, resp, attempt, claim, trail, failures, lost>>

-----------------------------------------------------------------------------
Exchange(o) ==
  \/ EnqueueDone(o) \/ EnqueueFailed(o)
  \/ SettleDone(o) \/ SettleFailed(o) \/ SettleUnheard(o)
  \/ RecordDone(o) \/ RecordFailed(o)

Payment(r) == (r \in Payers /\ (Paid(r) \/ PaymentFailed(r))) \/ StubPaid(r)

Advance(r) ==
  \/ Payment(r) \/ LoreRead(r) \/ PullDone(r) \/ Draft(r) \/ PostToX(r)
  \/ MarkDone(r) \/ MarkFailed(r) \/ StatementFailed(r)

Next ==
  \/ \E o \in Payers : Request(o) \/ Exchange(o)
  \/ \E r \in Runs : Start(r) \/ Advance(r)
  \/ Crash

Spec == Init /\ [][Next]_vars

\* Every query, settlement, model call and HTTP request ends one way or
\* another, a loopback request arrives, and an installed hook runs.
Fairness ==
  /\ \A o \in Payers : WF_vars(Exchange(o))
  /\ \A r \in Runs : WF_vars(Advance(r))
  /\ \A r \in Runs \ StubRuns : WF_vars(Request(r))

FairSpec == Spec /\ Fairness

-----------------------------------------------------------------------------
\* Nothing ever goes wrong outside the code.
Undisturbed == crashes = 0 /\ failures = 0 /\ lost = 0

Verdict(o) == IF row[o] \in {"done", "failed"} THEN row[o] ELSE "open"

\* The market keeps the promise of a sale: no tweet before the transfer is on
\* the chain although the order is queued before it is paid, one verdict for
\* an order, a success only for a posted one, and no tweet after the verdict
\* (enqueue-before-settle, pullById, markDone, markFailed).
S == INSTANCE Sale WITH Free <- StubRuns, paid <- settled, posts <- tweets,
                        verdict <- [o \in Orders |-> Verdict(o)]
SaleKept == S!Spec

\* A transaction hash is never claimed for money that did not move, in the row
\* or in the artifact, and once the reconciliation hook is through, the row
\* carries the hash that the artifact shows (reconcileSettlement,
\* recordSettlement, createRealCreatorPaymentPhase).
HashesTrue ==
  /\ \A o \in Orders : hash[o] = "tx" => o \in settled
  /\ \A r \in Runs :
       claim[r] = "tx" => /\ r \in settled
                          /\ Undisturbed /\ http[r] = "ended" => hash[r] = "tx"

\* The verdict and the artifacts tell what X holds: a run that finished left
\* its row in the state of its last artifact, and an order has more tweets
\* than its verdict says only by answers of X that were lost.
OutcomesTrue ==
  /\ \A r \in Runs : /\ trail[r] \in {"done", "failed"} => row[r] = trail[r]
                     /\ pc[r] = "done" => trail[r] \in {"done", "failed"}
  /\ \A o \in Orders : tweets[o] <= lost + (IF row[o] = "failed" THEN 0 ELSE 1)

\* The row waits for the run that drives it in the state that its next
\* statement asks for, so the throws of pullById, markDone and markFailed's
\* callers are out of reach.
RowAwaitsRun(r) ==
  /\ pc[r] \in {"lore", "pull"} => row[r] = "queued"
  /\ pc[r] \in {"draft", "post", "markDone", "markFailed"} => row[r] = "processing"

\* Two things leave an order without its verdict when no process crashes, no
\* query fails and no answer is lost: a payment that failed, whose order stays
\* queued, and a process without credentials for X, where the default phase throws
\* after the order was paid for and pulled, and it stays processing.
OrdersSettled ==
  \A r \in Runs :
    /\ RowAwaitsRun(r)
    /\ pc[r] \in Ended /\ Undisturbed =>
         /\ row[r] = "queued" => r \notin settled \union StubRuns
         /\ row[r] = "processing" => ~keyed /\ pc[r] = "error" /\ tweets[r] = 0

\* A run that has started ends, through every retry of the posting loop.
RunsEnd == \A r \in Runs : (pc[r] # "idle") ~> (pc[r] \in Ended)

\* A settled order gets its real hash unless something failed meanwhile.
Reconciled == \A o \in Payers : (o \in settled) ~> (hash[o] = "tx" \/ ~Undisturbed)

\* What the endpoint tells whoever pays it: the Shiller picks a paid order up
\* on its next tick.
PaidOrderServed ==
  \A o \in Payers : (o \in settled) ~> (row[o] \in {"done", "failed"} \/ ~Undisturbed)

=============================================================================
