-------------------------- MODULE ShillMarketProofs --------------------------
(* Theorems about ShillMarket, for every set of runs and buyers and every     *)
(* bound.                                                                     *)
EXTENDS ShillMarket, TLAPS

\* The steps of a request and of a run, one name each, for the case splits.
RequestStep(o) ==
  Request(o) \/ EnqueueDone(o) \/ EnqueueFailed(o) \/ SettleDone(o) \/ SettleFailed(o)
    \/ SettleUnheard(o) \/ RecordDone(o) \/ RecordFailed(o)

LEMMA Steps ==
  Next <=> \/ \E o \in Payers : RequestStep(o)
           \/ \E r \in Runs : Start(r) \/ Advance(r)
           \/ Crash
BY DEF Next, RequestStep, Exchange

-----------------------------------------------------------------------------
LEMMA TypeInit == Init => TypeOK
BY MarketAssumption DEF Init, TypeOK

LEMMA TypeStep == TypeOK /\ [Next]_vars => TypeOK'
<1> SUFFICES ASSUME TypeOK, [Next]_vars PROVE TypeOK'
  OBVIOUS
<1> USE MarketAssumption
<1>1. ASSUME NEW o \in Payers, RequestStep(o) PROVE TypeOK'
  <2>1. o \in Orders
    BY DEF Payers
  <2>2. CASE Request(o)
    BY <2>1, <2>2 DEF TypeOK, Request, Serve, Answer, dbVars, worldVars, runVars, outerVars
  <2>3. CASE EnqueueDone(o)
    BY <2>1, <2>3 DEF TypeOK, EnqueueDone, Enqueue, SetRow, Serve, worldVars, runVars, outerVars
  <2>4. CASE EnqueueFailed(o)
    BY <2>1, <2>4 DEF TypeOK, EnqueueFailed, QueryFails, Enqueue, SetRow, Serve, Answer,
                      dbVars, worldVars, runVars
  <2>5. CASE SettleDone(o)
    BY <2>1, <2>5 DEF TypeOK, SettleDone, Serve, Answer, dbVars, runVars, outerVars
  <2>6. CASE SettleFailed(o)
    BY <2>1, <2>6 DEF TypeOK, SettleFailed, Serve, Answer, dbVars, worldVars, runVars, outerVars
  <2>7. CASE SettleUnheard(o)
    BY <2>1, <2>7 DEF TypeOK, SettleUnheard, AnswerLost, Serve, Answer, dbVars, runVars
  <2>8. CASE RecordDone(o)
    BY <2>1, <2>8 DEF TypeOK, RecordDone, RecordSettlement, Serve, worldVars, runVars, outerVars
  <2>9. CASE RecordFailed(o)
    BY <2>1, <2>9 DEF TypeOK, RecordFailed, RecordSettlement, QueryFails, Serve, worldVars, runVars
  <2>10. QED
    BY <1>1, <2>2, <2>3, <2>4, <2>5, <2>6, <2>7, <2>8, <2>9 DEF RequestStep
<1>2. ASSUME NEW r \in Runs, Start(r) \/ Advance(r) PROVE TypeOK'
  <2>1. r \in Orders
    BY DEF Orders
  <2>2. CASE Start(r)
    BY <2>2 DEF TypeOK, Start, Goto, Ended, dbVars, worldVars, httpVars, outerVars
  <2>3. CASE Payment(r)
    BY <2>1, <2>3 DEF TypeOK, Payment, Paid, PaymentFailed, StubPaid, EmitQueued, Enqueue, SetRow,
                      Goto, Ended, dbVars, worldVars, httpVars, outerVars
  <2>4. CASE LoreRead(r) \/ PullDone(r) \/ Draft(r)
    BY <2>1, <2>4 DEF TypeOK, LoreRead, PullDone, Draft, PullById, SetRow, Goto, Ended,
                      dbVars, worldVars, httpVars, outerVars
  <2>5. CASE PostToX(r)
    BY <2>1, <2>5 DEF TypeOK, PostToX, XAccepts, XUnavailable, XRejects, XUnheard, Tweeted, Retry,
                      AnswerLost, Goto, Ended, dbVars, httpVars, outerVars
  <2>6. CASE MarkDone(r) \/ MarkFailed(r)
    BY <2>1, <2>6 DEF TypeOK, MarkDone, MarkFailed, Marked, MarkOrder, SetRow, Goto, Ended,
                      worldVars, httpVars, outerVars
  <2>7. CASE StatementFailed(r)
    BY <2>1, <2>7 DEF TypeOK, StatementFailed, QueryFails, Enqueue, PullById, MarkOrder, SetRow,
                      Goto, Ended, dbVars, worldVars, httpVars
  <2>8. QED
    BY <1>2, <2>2, <2>3, <2>4, <2>5, <2>6, <2>7 DEF Advance
<1>3. ASSUME Crash PROVE TypeOK'
  BY <1>3 DEF TypeOK, Crash, Ended, dbVars, worldVars
<1>4. ASSUME UNCHANGED vars PROVE TypeOK'
  BY <1>4 DEF TypeOK, vars, dbVars, worldVars, httpVars, runVars, outerVars
<1>5. QED
  BY <1>1, <1>2, <1>3, <1>4, Steps

\* Every variable keeps its type; in particular post_to_x never counts more
\* retries than it may make.
THEOREM TypeCorrect == Spec => []TypeOK
BY TypeInit, TypeStep, PTL DEF Spec

-----------------------------------------------------------------------------
\* What holds of a paid request at each stage: the order is queued before its
\* transfer and settled before its answer, and what the caller has heard or the
\* row says of the transfer is true.
RequestSafe(o) ==
  /\ http[o] \in {"idle", "enqueue"} => row[o] = "none"
  /\ http[o] \in {"idle", "enqueue", "settle"} => o \notin settled /\ resp[o] = "none"
  /\ http[o] = "settle" => row[o] = "queued" /\ hash[o] = "sentinel"
  /\ http[o] = "record" => o \in settled /\ hash[o] # "none"
  /\ resp[o] = "ok" => o \in settled /\ http[o] \in {"record", "ended"} /\ row[o] # "none"
  /\ hash[o] = "tx" => o \in settled
  /\ Undisturbed =>
       /\ resp[o] = "ok" /\ http[o] = "ended" => hash[o] = "tx"
       /\ resp[o] = "refused" => o \notin settled /\ http[o] = "ended"

\* A dry run pays nothing and claims no transfer.
StubSafe(r) ==
  r \in StubRuns => /\ pc[r] \in {"idle", "stub"} => row[r] = "none"
                    /\ pc[r] # "paying"
                    /\ r \notin settled /\ hash[r] # "tx" /\ claim[r] # "tx"

\* A run goes on only once it was told that it paid, and while it drives an
\* order nobody else touches the row.
RunSafe(r) ==
  /\ pc[r] = "stub" => r \in StubRuns
  /\ pc[r] \in {"idle", "paying"} => row[r] \in {"none", "queued"}
  /\ r \in Payers /\ pc[r] \in {"lore", "pull", "draft", "post", "markDone", "markFailed"}
       => resp[r] = "ok"
  /\ r \in Payers /\ claim[r] = "tx" => resp[r] = "ok"
  /\ RowAwaitsRun(r)
  /\ pc[r] \in Ended /\ Undisturbed =>
       \/ row[r] \in {"done", "failed"}
       \/ r \in Payers /\ resp[r] = "refused" /\ row[r] \in {"none", "queued"}
       \/ row[r] = "processing" /\ ~keyed /\ pc[r] = "error" /\ tweets[r] = 0

\* Tweets beyond the one a verdict stands for come from lost answers.
PostSafe(r) ==
  /\ tweets[r] <= lost + 1
  /\ pc[r] \notin {"markDone"} \union Ended => tweets[r] <= lost
  /\ row[r] = "failed" => tweets[r] <= lost
  /\ pc[r] = "markDone" => tweets[r] > 0
  /\ trail[r] \in {"done", "failed"} => row[r] = trail[r] /\ pc[r] \in Ended
  /\ pc[r] = "done" => trail[r] \in {"done", "failed"}

\* Nobody works on the order of an outside buyer.
BuyerSafe == \A b \in Buyers : tweets[b] = 0

MarketSafe ==
  /\ \A o \in Payers : RequestSafe(o)
  /\ \A r \in Runs : StubSafe(r) /\ RunSafe(r) /\ PostSafe(r)
  /\ BuyerSafe

LEMMA SafeInit == Init => MarketSafe
BY MarketAssumption DEF Init, MarketSafe, RequestSafe, StubSafe, RunSafe, PostSafe, BuyerSafe,
                        RowAwaitsRun, Ended, Orders, Payers

\* What a step of o's request leaves alone, and what can only grow.
LEMMA RequestFrame ==
  ASSUME TypeOK, NEW o \in Payers, RequestStep(o)
  PROVE  /\ \A p \in Orders \ {o} : /\ row'[p] = row[p] /\ hash'[p] = hash[p]
                                    /\ p \in settled' <=> p \in settled
         /\ \A p \in Payers \ {o} : http'[p] = http[p] /\ resp'[p] = resp[p]
         /\ UNCHANGED <<tweets, runVars>>
         /\ Undisturbed' => Undisturbed
         /\ keyed' = keyed
         /\ lost' \in {lost, lost + 1}
BY MarketAssumption
   DEF TypeOK, Undisturbed, RequestStep, Request, EnqueueDone, EnqueueFailed, SettleDone, SettleFailed,
       SettleUnheard, RecordDone, RecordFailed, RecordSettlement, QueryFails, AnswerLost,
       Enqueue, SetRow, Serve, Answer, dbVars, worldVars, runVars, outerVars, Payers

\* The same for a step of run r.
LEMMA RunFrame ==
  ASSUME TypeOK, NEW r \in Runs, Start(r) \/ Advance(r)
  PROVE  /\ \A p \in Orders \ {r} : row'[p] = row[p] /\ hash'[p] = hash[p] /\ tweets'[p] = tweets[p]
         /\ \A q \in Runs \ {r} : pc'[q] = pc[q] /\ claim'[q] = claim[q] /\ trail'[q] = trail[q]
         /\ UNCHANGED <<settled, http, resp>>
         /\ Undisturbed' => Undisturbed
         /\ keyed' = keyed
         /\ lost' \in {lost, lost + 1}
<1> USE MarketAssumption DEF TypeOK, Undisturbed
<1>1. CASE Start(r) \/ LoreRead(r) \/ PullDone(r) \/ Draft(r)
  BY <1>1 DEF Start, LoreRead, PullDone, Draft, PullById, SetRow, Goto,
              dbVars, worldVars, httpVars, outerVars
<1>2. CASE Payment(r)
  BY <1>2 DEF Payment, Paid, PaymentFailed, StubPaid, EmitQueued, Enqueue, SetRow, Goto,
              dbVars, worldVars, httpVars, outerVars
<1>3. CASE PostToX(r)
  BY <1>3 DEF PostToX, XAccepts, XUnavailable, XRejects, XUnheard, Tweeted, Retry, AnswerLost, Goto,
              dbVars, httpVars, outerVars
<1>4. CASE MarkDone(r) \/ MarkFailed(r)
  BY <1>4 DEF MarkDone, MarkFailed, Marked, MarkOrder, SetRow, Goto, worldVars, httpVars, outerVars
<1>5. CASE StatementFailed(r)
  BY <1>5 DEF StatementFailed, QueryFails, Enqueue, PullById, MarkOrder, SetRow, Goto,
              dbVars, worldVars, httpVars
<1>6. QED
  BY <1>1, <1>2, <1>3, <1>4, <1>5 DEF Advance

\* A step of o's request keeps what is known of o.
LEMMA RequestEffect ==
  ASSUME TypeOK, MarketSafe, NEW o \in Payers, RequestStep(o)
  PROVE  RequestSafe(o)' /\ (o \in Runs => (StubSafe(o) /\ RunSafe(o) /\ PostSafe(o))')
<1> USE MarketAssumption DEF TypeOK
<1>1. RequestSafe(o) /\ (o \in Runs => StubSafe(o) /\ RunSafe(o) /\ PostSafe(o)) /\ o \in Orders
  BY DEF MarketSafe, Payers
<1>2. o \notin StubRuns /\ (o \in Runs => o \in Payers)
  BY DEF Payers
<1> USE DEF RequestSafe, StubSafe, RunSafe, PostSafe, RowAwaitsRun, Undisturbed, Ended
<1>3. CASE Request(o)
  BY <1>1, <1>2, <1>3 DEF Request, Serve, Answer, dbVars, worldVars, runVars, outerVars
<1>4. CASE EnqueueDone(o)
  BY <1>1, <1>2, <1>4 DEF EnqueueDone, Enqueue, SetRow, Serve, worldVars, runVars, outerVars
<1>5. CASE EnqueueFailed(o)
  BY <1>1, <1>2, <1>5 DEF EnqueueFailed, QueryFails, Enqueue, SetRow, Serve, Answer,
                          dbVars, worldVars, runVars
<1>6. CASE SettleDone(o)
  BY <1>1, <1>2, <1>6 DEF SettleDone, Serve, Answer, dbVars, runVars, outerVars
<1>7. CASE SettleFailed(o)
  BY <1>1, <1>2, <1>7 DEF SettleFailed, Serve, Answer, dbVars, worldVars, runVars, outerVars
<1>8. CASE SettleUnheard(o)
  BY <1>1, <1>2, <1>8 DEF SettleUnheard, AnswerLost, Serve, Answer, dbVars, runVars
<1>9. CASE RecordDone(o)
  BY <1>1, <1>2, <1>9 DEF RecordDone, RecordSettlement, Serve, worldVars, runVars, outerVars
<1>10. CASE RecordFailed(o)
  BY <1>1, <1>2, <1>10 DEF RecordFailed, RecordSettlement, QueryFails, Serve, worldVars, runVars
<1>11. QED
  BY <1>3, <1>4, <1>5, <1>6, <1>7, <1>8, <1>9, <1>10 DEF RequestStep

\* A step of run r keeps what is known of r.
LEMMA RunEffect ==
  ASSUME TypeOK, MarketSafe, NEW r \in Runs, Start(r) \/ Advance(r)
  PROVE  (r \in Payers => RequestSafe(r)') /\ (StubSafe(r) /\ RunSafe(r) /\ PostSafe(r))'
<1> USE MarketAssumption DEF TypeOK
<1>1. (r \in Payers => RequestSafe(r)) /\ StubSafe(r) /\ RunSafe(r) /\ PostSafe(r) /\ r \in Orders
  BY DEF MarketSafe, Orders
<1>2. r \in Payers <=> r \notin StubRuns
  BY DEF Payers, Orders
<1> USE DEF RequestSafe, StubSafe, RunSafe, PostSafe, RowAwaitsRun, Undisturbed, Ended
<1>3. CASE Start(r)
  BY <1>1, <1>2, <1>3 DEF Start, Goto, dbVars, worldVars, httpVars, outerVars
<1>4. CASE Payment(r)
  <2>1. CASE r \in Payers /\ Paid(r)
    BY <1>1, <1>2, <2>1 DEF Paid, EmitQueued, Goto, dbVars, worldVars, httpVars, outerVars
  <2>2. CASE r \in Payers /\ PaymentFailed(r)
    BY <1>1, <1>2, <2>2 DEF PaymentFailed, Goto, dbVars, worldVars, httpVars, outerVars
  <2>3. CASE StubPaid(r)
    BY <1>1, <1>2, <2>3 DEF StubPaid, EmitQueued, Enqueue, SetRow, Goto, worldVars, httpVars, outerVars
  <2>4. QED
    BY <1>4, <2>1, <2>2, <2>3 DEF Payment
<1>5. CASE LoreRead(r) \/ PullDone(r) \/ Draft(r)
  BY <1>1, <1>2, <1>5 DEF LoreRead, PullDone, Draft, PullById, SetRow, Goto,
                          dbVars, worldVars, httpVars, outerVars
<1>6. CASE PostToX(r)
  BY <1>1, <1>2, <1>6 DEF PostToX, XAccepts, XUnavailable, XRejects, XUnheard, Tweeted, Retry,
                          AnswerLost, Goto, dbVars, httpVars, outerVars
<1>7. CASE MarkDone(r) \/ MarkFailed(r)
  BY <1>1, <1>2, <1>7 DEF MarkDone, MarkFailed, Marked, MarkOrder, SetRow, Goto,
                          worldVars, httpVars, outerVars
<1>8. CASE StatementFailed(r)
  BY <1>1, <1>2, <1>8 DEF StatementFailed, QueryFails, Enqueue, PullById, MarkOrder, SetRow, Goto,
                          dbVars, worldVars, httpVars
<1>9. QED
  BY <1>3, <1>4, <1>5, <1>6, <1>7, <1>8 DEF Advance

LEMMA SafeStep == TypeOK /\ TypeOK' /\ MarketSafe /\ [Next]_vars => MarketSafe'
<1> SUFFICES ASSUME TypeOK, TypeOK', MarketSafe, [Next]_vars PROVE MarketSafe'
  OBVIOUS
<1> USE MarketAssumption
<1>1. ASSUME NEW o \in Payers, RequestStep(o) PROVE MarketSafe'
  <2>1. RequestSafe(o)' /\ (o \in Runs => (StubSafe(o) /\ RunSafe(o) /\ PostSafe(o))')
    BY <1>1, RequestEffect
  <2>2. ASSUME NEW p \in Payers \ {o} PROVE RequestSafe(p)'
    BY <1>1, <2>2, RequestFrame DEF MarketSafe, RequestSafe, Payers
  <2>3. ASSUME NEW r \in Runs \ {o} PROVE (StubSafe(r) /\ RunSafe(r) /\ PostSafe(r))'
    <3>1. r \in Orders \ {o} /\ (r \in Payers => r \in Payers \ {o})
      BY DEF Orders
    <3>2. StubSafe(r) /\ RunSafe(r) /\ PostSafe(r)
      BY DEF MarketSafe
    <3>3. QED
      BY <1>1, <3>1, <3>2, RequestFrame
         DEF StubSafe, RunSafe, PostSafe, RowAwaitsRun, runVars, TypeOK
  <2>4. BuyerSafe'
    BY <1>1, RequestFrame DEF MarketSafe, BuyerSafe
  <2>5. QED
    BY <2>1, <2>2, <2>3, <2>4 DEF MarketSafe
<1>2. ASSUME NEW r \in Runs, Start(r) \/ Advance(r) PROVE MarketSafe'
  <2>1. (r \in Payers => RequestSafe(r)') /\ (StubSafe(r) /\ RunSafe(r) /\ PostSafe(r))'
    BY <1>2, RunEffect
  <2>2. ASSUME NEW p \in Payers \ {r} PROVE RequestSafe(p)'
    BY <1>2, <2>2, RunFrame DEF MarketSafe, RequestSafe, Payers
  <2>3. ASSUME NEW q \in Runs \ {r} PROVE (StubSafe(q) /\ RunSafe(q) /\ PostSafe(q))'
    <3>1. q \in Orders \ {r}
      BY DEF Orders
    <3>2. StubSafe(q) /\ RunSafe(q) /\ PostSafe(q)
      BY DEF MarketSafe
    <3>3. QED
      BY <1>2, <3>1, <3>2, RunFrame DEF StubSafe, RunSafe, PostSafe, RowAwaitsRun, TypeOK
  <2>4. BuyerSafe'
    BY <1>2, RunFrame DEF MarketSafe, BuyerSafe, Orders
  <2>5. QED
    BY <2>1, <2>2, <2>3, <2>4 DEF MarketSafe
<1>3. ASSUME Crash PROVE MarketSafe'
  <2>1. \A o \in Payers : RequestSafe(o)'
    BY <1>3 DEF TypeOK, MarketSafe, RequestSafe, Undisturbed, Crash, dbVars, worldVars
  <2>2. \A r \in Runs : (StubSafe(r) /\ RunSafe(r) /\ PostSafe(r))'
    BY <1>3 DEF TypeOK, MarketSafe, StubSafe, RunSafe, PostSafe, RowAwaitsRun, Undisturbed, Ended,
                Crash, dbVars, worldVars
  <2>3. QED
    BY <1>3, <2>1, <2>2 DEF MarketSafe, BuyerSafe, Crash, worldVars
<1>4. ASSUME UNCHANGED vars PROVE MarketSafe'
  BY <1>4 DEF MarketSafe, RequestSafe, StubSafe, RunSafe, PostSafe, BuyerSafe, RowAwaitsRun,
              Undisturbed, vars, dbVars, worldVars, httpVars, runVars, outerVars
<1>5. QED
  BY <1>1, <1>2, <1>3, <1>4, Steps

LEMMA MarketInductive == Spec => [](TypeOK /\ MarketSafe)
<1>1. Init => TypeOK /\ MarketSafe
  BY TypeInit, SafeInit
<1>2. TypeOK /\ MarketSafe /\ [Next]_vars => (TypeOK /\ MarketSafe)'
  BY TypeStep, SafeStep
<1>3. QED
  BY <1>1, <1>2, PTL DEF Spec

\* No row and no artifact ever shows a transaction for money that did not move,
\* and once the reconciliation hook is through, the two agree.
THEOREM HashesNeverLie == Spec => []HashesTrue
<1>1. TypeOK /\ MarketSafe => HashesTrue
  <2> SUFFICES ASSUME TypeOK, MarketSafe PROVE HashesTrue
    OBVIOUS
  <2>1. ASSUME NEW o \in Orders, hash[o] = "tx" PROVE o \in settled
    <3>1. CASE o \in Payers
      BY <2>1, <3>1 DEF MarketSafe, RequestSafe
    <3>2. CASE o \in StubRuns
      BY <2>1, <3>2, MarketAssumption DEF MarketSafe, StubSafe
    <3>3. QED
      BY <3>1, <3>2 DEF Payers
  <2>2. ASSUME NEW r \in Runs, claim[r] = "tx"
        PROVE  r \in settled /\ (Undisturbed /\ http[r] = "ended" => hash[r] = "tx")
    <3>1. r \in Payers
      BY <2>2 DEF MarketSafe, StubSafe, Payers, Orders
    <3>2. QED
      BY <2>2, <3>1 DEF MarketSafe, RunSafe, RequestSafe
  <2>3. QED
    BY <2>1, <2>2 DEF HashesTrue
<1>2. QED
  BY <1>1, MarketInductive, PTL

\* Row, last artifact and X agree on what became of an order, up to the answers
\* of X that were lost.
THEOREM OutcomesNeverLie == Spec => []OutcomesTrue
<1>1. TypeOK /\ MarketSafe => OutcomesTrue
  BY MarketAssumption DEF TypeOK, MarketSafe, PostSafe, BuyerSafe, OutcomesTrue, Orders
<1>2. QED
  BY <1>1, MarketInductive, PTL

\* A run's order waits for it in the status its next statement asks for, and
\* gets its verdict unless something outside the code failed, the payment was
\* refused, or the process has no credentials for X: then the order that was paid
\* for and pulled stays processing, without a tweet.
THEOREM OrdersGetSettled == Spec => []OrdersSettled
<1>1. TypeOK /\ MarketSafe => OrdersSettled
  <2> SUFFICES ASSUME TypeOK, MarketSafe, NEW r \in Runs
               PROVE  /\ RowAwaitsRun(r)
                      /\ pc[r] \in Ended /\ Undisturbed =>
                           /\ row[r] = "queued" => r \notin settled \union StubRuns
                           /\ row[r] = "processing" =>
                                ~keyed /\ pc[r] = "error" /\ tweets[r] = 0
    BY DEF OrdersSettled
  <2>1. RunSafe(r) /\ (r \in Payers => RequestSafe(r))
    BY DEF MarketSafe
  <2>2. QED
    BY <2>1 DEF RunSafe, RequestSafe, Payers
<1>2. QED
  BY <1>1, MarketInductive, PTL

-----------------------------------------------------------------------------
\* The refinement of Sale: a step that moves money, posts or gives a verdict is
\* a step of Sale, and every other step leaves what Sale sees alone.
SaleStep == [S!Next]_(S!saleVars)

LEMMA VerdictsKept ==
  ASSUME UNCHANGED <<settled, tweets>>, \A o \in Orders : Verdict(o)' = Verdict(o)
  PROVE  SaleStep
BY DEF SaleStep, S!saleVars

\* The settlement is Pay; the order is not yet settled, and not a dry run's.
LEMMA PaymentIsPay ==
  ASSUME NEW o \in Payers, RequestSafe(o), http[o] = "settle",
         settled' = settled \union {o}, UNCHANGED <<row, tweets>>
  PROVE  SaleStep
<1>1. o \in Orders /\ o \notin settled \union StubRuns
  BY DEF RequestSafe, Payers
<1>2. S!Pay(o)
  BY <1>1 DEF S!Pay, Verdict
<1>3. QED
  BY <1>1, <1>2 DEF SaleStep, S!Next

LEMMA RequestRefines ==
  ASSUME TypeOK, MarketSafe, NEW o \in Payers, RequestStep(o)
  PROVE  SaleStep
<1>1. RequestSafe(o) /\ o \in Orders
  BY DEF MarketSafe, Payers
<1>2. CASE SettleDone(o) \/ SettleUnheard(o)
  <2>1. /\ http[o] = "settle"
        /\ settled' = settled \union {o}
        /\ UNCHANGED <<row, tweets>>
    BY <1>2 DEF SettleDone, SettleUnheard, dbVars
  <2>2. QED
    BY <1>1, <2>1, PaymentIsPay
<1>3. CASE EnqueueDone(o) \/ EnqueueFailed(o)
  <2>1. /\ UNCHANGED <<settled, tweets>>
        /\ row[o] = "none" /\ row' \in {row, [row EXCEPT ![o] = "queued"]}
    BY <1>1, <1>3 DEF EnqueueDone, EnqueueFailed, Enqueue, SetRow, RequestSafe, dbVars, worldVars
  <2>2. \A p \in Orders : Verdict(p)' = Verdict(p)
    BY <1>1, <2>1 DEF Verdict, TypeOK
  <2>3. QED
    BY <2>1, <2>2, VerdictsKept
<1>4. CASE Request(o) \/ SettleFailed(o) \/ RecordDone(o) \/ RecordFailed(o)
  <2>1. UNCHANGED <<row, settled, tweets>>
    BY <1>4 DEF Request, SettleFailed, RecordDone, RecordFailed, dbVars, worldVars
  <2>2. QED
    BY <2>1, VerdictsKept DEF Verdict
<1>5. QED
  BY <1>2, <1>3, <1>4 DEF RequestStep

\* A statement that marks the order of r is Judge.
LEMMA MarkIsJudge ==
  ASSUME TypeOK, NEW r \in Runs, NEW v \in {"done", "failed"}, MarkOrder(r, v),
         v = "done" => tweets[r] > 0, UNCHANGED worldVars
  PROVE  SaleStep
<1>1. r \in Orders
  BY DEF Orders
<1>2. Verdict(r) = "open" /\ row' = [row EXCEPT ![r] = v]
  BY DEF MarkOrder, SetRow, Verdict
<1>3. [o \in Orders |-> Verdict(o)]' = [[o \in Orders |-> Verdict(o)] EXCEPT ![r] = v]
  BY <1>1, <1>2 DEF Verdict, TypeOK
<1>4. S!Judge(r, v)
  BY <1>1, <1>2, <1>3 DEF S!Judge, worldVars
<1>5. QED
  BY <1>1, <1>4 DEF SaleStep, S!Next

LEMMA RunRefines ==
  ASSUME TypeOK, MarketSafe, NEW r \in Runs, Start(r) \/ Advance(r)
  PROVE  SaleStep
<1>1. RunSafe(r) /\ PostSafe(r) /\ StubSafe(r) /\ (r \in Payers => RequestSafe(r)) /\ r \in Orders
  BY DEF MarketSafe, Orders
<1>2. CASE Start(r) \/ LoreRead(r) \/ Draft(r) \/ (r \in Payers /\ (Paid(r) \/ PaymentFailed(r)))
  <2>1. UNCHANGED <<row, settled, tweets>>
    BY <1>2 DEF Start, LoreRead, Draft, Paid, PaymentFailed, dbVars, worldVars
  <2>2. QED
    BY <2>1, VerdictsKept DEF Verdict
<1>3. CASE /\ UNCHANGED worldVars
           /\ row' \in {row, [row EXCEPT ![r] = "queued"], [row EXCEPT ![r] = "processing"]}
           /\ row[r] \in {"none", "queued"}
  <2>1. \A o \in Orders : Verdict(o)' = Verdict(o)
    BY <1>1, <1>3 DEF Verdict, TypeOK
  <2>2. QED
    BY <1>3, <2>1, VerdictsKept DEF worldVars
<1>4. CASE StubPaid(r) \/ PullDone(r)
  <2>1. row[r] \in {"none", "queued"}
    BY <1>1, <1>4 DEF StubPaid, PullDone, PullById, RunSafe, StubSafe
  <2>2. QED
    BY <1>3, <1>4, <2>1 DEF StubPaid, PullDone, PullById, Enqueue, SetRow
<1>5. CASE PostToX(r)
  <2>1. UNCHANGED <<row, settled>> /\ row[r] = "processing"
    BY <1>1, <1>5 DEF PostToX, RunSafe, RowAwaitsRun, dbVars
  <2>2. r \in settled \union StubRuns
    BY <1>1, <1>5 DEF PostToX, RunSafe, RequestSafe, Payers
  <2>3. CASE XAccepts(r) \/ XUnheard(r)
    <3>1. S!Post(r)
      BY <1>1, <2>1, <2>2, <2>3 DEF S!Post, XAccepts, XUnheard, Tweeted, Verdict
    <3>2. QED
      BY <1>1, <3>1 DEF SaleStep, S!Next
  <2>4. CASE XUnavailable(r) \/ XRejects(r)
    BY <2>1, <2>4, VerdictsKept DEF XUnavailable, XRejects, Verdict
  <2>5. QED
    BY <1>5, <2>3, <2>4 DEF PostToX
<1>6. CASE MarkDone(r) \/ MarkFailed(r)
  BY <1>1, <1>6, MarkIsJudge DEF MarkDone, MarkFailed, Marked, PostSafe
<1>7. CASE StatementFailed(r)
  <2>1. UNCHANGED worldVars
    BY <1>7 DEF StatementFailed
  <2>2. CASE UNCHANGED row
    BY <2>1, <2>2, VerdictsKept DEF Verdict, worldVars
  <2>3. CASE pc[r] \in {"stub", "pull"} /\ row[r] \in {"none", "queued"}
    BY <1>3, <1>7, <2>1, <2>3 DEF StatementFailed, Enqueue, PullById, SetRow, dbVars
  <2>4. CASE (pc[r] = "markDone" /\ MarkOrder(r, "done"))
               \/ (pc[r] = "markFailed" /\ MarkOrder(r, "failed"))
    BY <1>1, <2>1, <2>4, MarkIsJudge DEF PostSafe
  <2>5. QED
    BY <1>1, <1>7, <2>2, <2>3, <2>4
       DEF StatementFailed, RunSafe, StubSafe, RowAwaitsRun, PullById, dbVars
<1>8. QED
  BY <1>2, <1>4, <1>5, <1>6, <1>7 DEF Advance, Payment

\* The market keeps the promise of a sale: no post before the payment, one
\* verdict, a success only for a posted order, no post after the verdict.
THEOREM MarketImplementsSale == Spec => SaleKept
<1>1. Init => S!Init
  BY DEF Init, S!Init, Verdict
<1>2. TypeOK /\ MarketSafe /\ [Next]_vars => [S!Next]_(S!saleVars)
  <2> SUFFICES ASSUME TypeOK, MarketSafe, [Next]_vars PROVE SaleStep
    BY DEF SaleStep
  <2>1. CASE \E o \in Payers : RequestStep(o)
    BY <2>1, RequestRefines
  <2>2. CASE \E r \in Runs : Start(r) \/ Advance(r)
    BY <2>2, RunRefines
  <2>3. CASE Crash \/ UNCHANGED vars
    <3>1. UNCHANGED <<row, settled, tweets>>
      BY <2>3 DEF Crash, vars, dbVars, worldVars
    <3>2. QED
      BY <3>1, VerdictsKept DEF Verdict
  <2>4. QED
    BY <2>1, <2>2, <2>3, Steps
<1>3. QED
  BY <1>1, <1>2, MarketInductive, PTL DEF Spec, SaleKept, S!Spec

=============================================================================
