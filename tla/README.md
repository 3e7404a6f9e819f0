# Memind: a TLA+ verification project

Memind (`mymaine/memind`) is a TypeScript monorepo: an Express server
(`apps/server`) in which a meta-agent, the Brain, runs persona agents for tokens
of four.meme; a Next.js dashboard (`apps/web`) with a chat; and shared schemas
(`packages/shared`). This directory models the part of it that keeps state and
can go wrong between two steps, checks the models with TLC and proves the most
important facts about them with TLAPS.

Paths below are relative to the repository; `server/` stands for
`apps/server/src/` and `web/` for `apps/web/src/`.

## 1. The system

One Node process runs everything on the server, so code interleaves only at
`await`s, timers, sockets and the end of the process. `server/index.ts` creates
one instance of each store and wires them.

| component | state | operations | talks to |
|---|---|---|---|
| Heartbeat session store (`server/state/heartbeat-session-store.ts`) | map token → session (counters, cap, overlap flag, timer), ring of recent ticks; row in `heartbeat_sessions` | start, stop, get, list, runExclusiveTick, interval callback | pg pool, persona runs, event bus |
| Brain's tools (`server/tools/invoke-persona.ts`) | none | invoke_heartbeat_tick, stop_heartbeat, list_heartbeats, invoke_shiller, invoke_creator, invoke_narrator | the stores, persona agents |
| Heartbeat event bus and feed (`server/runs/heartbeat-events.ts`, `routes.ts` 628-709, `web/hooks/useHeartbeatStream.ts`) | listeners per token | emit, subscribe, SSE stream, reconnect | session store |
| Shill order store (`server/state/shill-order-store.ts`) | orders queued → processing → done / failed | enqueue, pullById, pullPending, markDone, markFailed, recordSettlement | pg pool |
| Paid endpoint (`server/x402/index.ts`) | none | POST /shill, finish hook | x402 middleware, order store |
| Shill-market orchestrator (`server/runs/shill-market.ts`, `tools/post-shill-for.ts`, `tools/x-post.ts`, `tools/tweet-guard.ts`) | progress of one run, the draft of its tweet | pay, read lore, pull, draft, guard, post with retries, mark | endpoint, order store, X |
| Run store and routes (`server/runs/store.ts`, `runs/routes.ts`) | run records with their buffers, an emitter per run | tryCreate, setStatus, addLog, addArtifact, streaming events, subscribe, SSE route | orchestrators, artifact log |
| Brain chat (`web/components/brain-chat*.ts(x)`, `web/hooks/useBrainChat*.ts`, `web/lib/slash-commands.ts`) | transcript, status, EventSource, feed of ticks | slash commands, send, local answers, reset, listeners, grouping of events | run routes, heartbeat feed |
| Agent loop and Brain (`server/agents/runtime.ts`, `agents/brain.ts`, `runs/brain-chat.ts`) | messages of one run | runAgentLoop, tools in parallel, forced first tool | model, tools, run store |
| Orchestrators (`server/runs/a2a.ts`, `creator-phase.ts`, `heartbeat-runner.ts`, `agents/heartbeat.ts`) | phases of one run; a timer and its flag | run; start, tick, shutdown | personas, stores |
| Personas and their tools (`server/agents/creator.ts`, `narrator.ts`, `market-maker.ts`, `tools/*.ts`) | none | narrative, image, deploy, lore, token status, paid fetch | chain, IPFS, endpoint |
| Lore store, anchor ledger, anchor transaction (`server/state/lore-store.ts`, `state/anchor-ledger.ts`, `chain/anchor-tx.ts`) | chapters, commitments, memos on the chain | upsert, getLatest, append, markOnChain, sendAnchorMemoTx | pg pool, chain |
| Artifact log (`server/state/artifact-log-store.ts`, `shared/src/artifact-natural-key.ts`) | rows by natural key | append, listRecent | run store, pg pool |
| Dashboard (`web/app/page.tsx`, `components/sticky-stage.tsx`, `chapters/ch12-evidence.tsx`, `footer-drawer-tabs/`) | scroll position, mirror of artifacts, one fetch | scroll, jump, hydrate, push, merge | artifact route, chat stream |
| Rate limiter, facilitator, boot, schemas, demos | | | |

What is hard in each, and what makes it correct:

* **Heartbeat.** A timer, any number of tool calls and ticks that last longer
  than the interval meet in one entry; entry, row and timer live for different
  times. Correct means: N ticks are at most N ticks; ticks of an entry exclude
  each other; a timer exists exactly while the session runs; a loop ends by
  itself; the row catches up and never shows a ghost loop after a boot.
* **Shill market.** Money, a queue and tweets are three worlds without a common
  transaction: the order is queued before it is paid, the hash is reconciled
  after the answer was flushed, X may post and not say so, the process may die
  anywhere. Correct means: nothing is posted before it is paid, an order is
  judged once and truthfully, a hash is never claimed for money that did not
  move, and it is known what can leave a paid order without its verdict.
* **Runs and the chat.** A stream joins a run at any time and the EventSource
  reconnects by itself, to a server that may have restarted. Correct means:
  streams are gapless, a finished turn is complete, a turn ends, one run per
  token, no listener is left behind.
* **Launch, lore and anchors.** A creator, any number of narrators and a
  market-maker work on one token over minutes, through a store that is overwritten
  (`lore`), a ledger that is overwritten (`ledger`), and a chain that is not; one
  upsert is not awaited, a transaction may be sent and not heard of, and what is
  anchored is read back from the store. Correct means: a text is never held as a
  chapter it was not written as, chapters have no gap, a stamp stands for a memo
  that was sent, an artifact for something that happened (or was handed to a dry run),
  success for something published.
* **Conversation.** Calls of one response run in parallel and personas make calls of
  their own; streaming events are not replayed; the transcript that goes back to
  the model holds what the tab has seen of all that, with tick cards and local
  answers in between. Correct means: the request is one the model's API accepts, the
  groups on the screen show what happened, every tick the feed could hear is
  shown once, every message ends.
* **Artifact log and dashboard.** Appends are not awaited and "latest state wins" is
  by arrival; the ring of the memory backend renumbers its index; the page merges a
  replayed stream with a fetched log. Correct means: the log settles on what was
  emitted, the newest version of an artifact is the one on the screen, and what a
  tab leaves out is known.
* **Heartbeat agent and tweets.** A flag guards ticks that may overlap; two guards in
  a row look at one draft. Correct means: the guard never locks or miscounts, and
  nothing unsafe is posted.

`PROJECT.json` lists every component with its status, every hazard at its line
with the properties that cover it, and for each definition the lines it models.

## 2. Modules

| module | models |
|---|---|
| `HeartbeatSession` | one token's heartbeat: store, tools, pool, row, boot |
| `Sale` | abstract: what the market promises about a paid promotion |
| `ShillMarket` | endpoint, queue, orchestrator and posting; implements `Sale` |
| `RunStream` | run store, mutex, event streams of the server |
| `BrainChat` | one chat tab on top of `RunStream` (EXTENDS it) |
| `Evidence` | abstract: what is promised about a token's lore: pinned, committed, proven |
| `Launch` | creator, narrator, market-maker, their tools, lore store, ledger, memos; implements `Evidence` |
| `Conversation` | composer, agent loop of the Brain, its calls and their events, grouping, heartbeat feed |
| `ArtifactLog` | artifacts of the runs and their log, table and ring |
| `Dashboard` | the page that shows the log (EXTENDS `ArtifactLog`) |
| `HeartbeatAgent` | the class behind the heartbeat demo and persona: timer, flag, counters |
| `Tweet` | what becomes of a draft between the model and X |
| `HeartbeatSessionProofs`, `ShillMarketProofs`, `BrainChatProofs`, `LaunchProofs`, `ConversationProofs` | theorems about the module each is named after |
| `AgentProofs` | theorems about `HeartbeatAgent` and `Tweet` |
| `DashboardProofs` | theorems about `ArtifactLog`, `Dashboard` and the composition in `MCDashboard` |
| `FoldFacts` | induction on sets of numbers, and what the folds of the community modules compute |
| `MCHeartbeatSession`, `MCShillMarket`, `MCBrainChat`, `MCLaunch`, `MCDashboard` | values and bounds for TLC; `MCDashboard` puts the last five models next to each other |

An operator whose comment begins with "Slip:" is a plausible mistake in the
definition that follows it. No specification uses it; it serves to show that a
property notices the mistake (`mutants` in `PROJECT.json`).

### HeartbeatSession

Tokens do not interact in the store, so one token is modelled. A process is a
tool call (`Clients`) or an interval callback (`Fires`), `pc` names the `await`
it is suspended at, and an action is the code between two awaits. `sess`,
`inFlight` and `timer` are the entry in the map; `row`, `wire` and `queue` the
database row and the pool, whose connections answer in any order. `orphans`
counts intervals of entries that were replaced in the map (they go on firing into
the new entry). `startedAt` is the number of the run, a recent tick is the number
of the run that began it. The outcome of a tick (success, error, action) steers
nothing in the store and is left out, and so are the two successive awaits of a
tick's own finally block and of its caller when nothing happens between them.

`CrashAndBoot` is the end of the process and the next boot in one step: nothing
of the process survives, an upsert that was on a connection is applied or not,
and `ensureSchema` clears `running` in the row before the server listens.

### Sale and ShillMarket

An order is named after its payer, since each request draws a fresh UUID: a run
that pays over the loopback interface, a run that pays with the stub, or an
outside buyer. `http` is the stage of a paid request, `pc` the await of a run,
`settled` the transfers on the chain, `tweets` what X holds. The middleware is
external; of it the model takes that it verifies, runs the handler, settles if the
handler answered below 400, and flushes, and that each of these may fail or go
unheard. A statement in flight when the process dies is a failed one, applied or
not, just before the crash. The two updates of a row by jsonb_set touch
different keys, so an order's status and hash are independent. `keyed` says whether the
process was started with credentials for X. Without them the default phase throws where
it creates its tool, outside the agent's try, and the run ends in error with its order
processing; the tool `invoke_shiller` is given is a stub that throws inside it, which the
agent turns into a decision to skip (`Draft`).

`Sale` knows only what is paid, posted and judged. `ShillMarket` implements it
under the mapping `paid <- settled`, `posts <- tweets` and `verdict` = the row's
terminal status.

### RunStream and BrainChat

An event is its kind and its number among those of its run. An orchestrator is
reduced to what it does to its run: emit events, end. Its synchronous start sets
the run running in the turn of the event loop that created it, so `pending`
is never observed. Events may follow the end of a run: a background heartbeat
keeps logging to the run that started it. A connection keeps what was written to
it (`sent`), whether the listener is installed (`hooked`) and whether the route
has torn it down (`terminated`); the client's end is `up`.

`BrainChat` adds the hook: `Send` behind the composer's gate (no message under
way), the POST and the loss of its request or answer, the EventSource
(connecting, open, refused, dropped, reconnecting) and the dispatch of each
event into the active turn. `/reset` goes through the same composer, so a reset
during a request is reachable through the hook's API only and not modelled.

### Evidence and Launch

Every key of the stores begins with the token's address, so one token is modelled. A
run is an orchestration (`a2a`, or `dry` with CREATOR_DRY_RUN) or a call of the
Brain's tools (`creator`, `narrator`); `pc` is the agent loop it is in or the await
after it, `turns` counts the turns of that loop and `stage` how far its model has got
in the order the prompt asks for. The model may give up at any turn, a tool may fail
at any call. A text is named by the number of its pin (its CID) and knows which
chapter it was written as (`texts`); `draft` is the chapter and text in a run's
hand. `append1 .. mark1` are the awaits of `anchorChapterOne`, `append .. mark` those
of the narrator's anchoring; with `OnChain` false layer 2 is skipped, as
`maybeAnchorContent` does. `SendMemo` has three outcomes: sent and heard, failed, sent
and not heard of before the timeout. `Crash` ends every run where it is; stores and
chain stay. A dry run shows, unchecked, the token of its request and what the environment
has for it (`DemoEnv`): a deploy transaction, and the CID of a first chapter
(`FallbackArtifacts`). The address that a launch will deploy cannot be named before
(`Nameable`), so a token that is not deployed when it is named never is.

`Evidence` knows only which texts were written, which of them the ledger has ever
committed to, and which commitments a memo proves. `Launch` implements it under
`written <- {<<texts[cid], cid>>}`, `committed <- commits`, `proven <- chain`.

### Conversation

One chat. `transcript` holds the turns, `seen` the events of the last assistant turn
that reached the tab, `request` the messages of the agent loop, `calls` every tool
call with its parent and how far it is. What the Brain says is the content of the turn
(`AssistantDelta`), what a persona says an event in it (`PersonaDelta`). A response of the
model is a sequence of `ToolUseStart`s and a stop reason; a batch of calls runs in parallel and `NextTurn`
is the `Promise.all` that puts the results behind them. Events written while the tab
is not connected are lost, which is what happens to streaming events; replay is
`BrainChat`'s subject. `groupBrainChatEvents` is a fold over the events, evaluated in
every state. The heartbeat loop is reduced to its counter and to who ended it; its
feed (`OpenFeed`, `Subscribe`, `EmitTick`, `SessionEnded`) is modelled in full for a
session that is in the map, in which case the route's snapshot needs no database.

### ArtifactLog and Dashboard

`emitted` is what the runs have shown, in order. Its artifacts have ids: an order, its
payment and its tweet the number of the order, a tick's tweet that of the tick; a server
without a wallet or without the keys of X (`config`) makes all payments, or all tweets,
share the id of the stub and with it a natural key. With the table as backend an append
goes through the pool (`waiting`, `busy`) and lands in any order, with the ring it is
immediate. `disturbed` names the keys of which two appends were on connections at once or
one failed, which is what "latest state wins" cannot do anything about; artifacts without
a key do not contend for a row, so only a failure disturbs them. The page is its
scroll position, the state of the one fetch of chapter 12, the mirror of pushed
artifacts, and two pure functions of it (`RowsForTab`, `ArtifactsTab`).
`RunEffect` is React's effect on `[p, mirror]` with its cleanup, and the forgotten
`hydratedRef` of a chapter that is not rendered. `DedupeArtifact` puts a later version in
the slot of the first; `RealRowsForTab` takes the last `TabRows` slots of a tab (the code
has five), and `RowsForTab` pads with the rows of a recorded run, which nothing marks. The
tab IPFS is left out: its artifacts (chapters, images) are `Launch`'s, and its rows are
made by the same functions.

### HeartbeatAgent and Tweet

`HeartbeatAgent` has three clients: the demo that polls counters, the persona that
forces one tick, and one that calls anything at any time. `Tweet` gives a draft the
features the guards look for, an address that begins with `0X` apart from the others,
because the guard minds no case and the sanitiser minds that of the x; `DraftShill` is one turn of the drafting loop,
`PostGuarded` the schema, sanitiser and guard of `post_to_x`. What X answers is
`ShillMarket`'s subject.

## 3. Runs

| run | module, cfg | result |
|---|---|---|
| heartbeat_safety | MCHeartbeatSession, HeartbeatSession.cfg | passes, 5.26 M states |
| heartbeat_liveness | MCHeartbeatSession, HeartbeatLiveness.cfg | passes, 189 k states |
| heartbeat_single_flight | MCHeartbeatSession, SingleFlight.cfg | violated |
| heartbeat_restart_history | MCHeartbeatSession, RestartUncontaminated.cfg | violated |
| shill_market | MCShillMarket, ShillMarket.cfg | passes, 174 k states |
| paid_order_served | MCShillMarket, PaidOrder.cfg | violated |
| brain_chat | MCBrainChat, BrainChat.cfg | passes, 0.8 M states |
| stream_shown_once | MCBrainChat, ShownOnce.cfg | violated |
| chat_never_wedged | MCBrainChat, NeverWedged.cfg | violated |
| launch | MCLaunch, Launch.cfg | passes, 4.92 M states |
| dashboard | MCDashboard, Dashboard.cfg | passes, 789 k states |
| evidence_fetched | MCDashboard, EvidenceFetched.cfg | violated |

**Bounds.**
*Heartbeat:* two tool calls and one interval callback give two concurrent starts,
a stop under a tick, and a fire between them; two connections let upserts
overtake; two intervals and two caps (one the default) reach every branch of
start; two runs and one restart make a tick outlive its run and the process. The
liveness run trades the second call for a second callback and a failing query.
`RingLimit` 1 reaches the eviction, `FireMultiplier` 2 the rail.
*Market:* one payer of each kind; they share only the bounds on crashes, failures
and lost answers, so more of the same kind add nothing but products. One retry
distinguishes the first attempt, a retry and giving up. The process has credentials for X
or has none, and may be restarted with others.
*Chat:* one message with two events (first, last), one dropped connection, one
restart, and two runs of other clients that contend for one token. Two
connections suffice: the first, and the one after the drop.
*Launch:* two runs of any kind, because every hazard is a pair (two narrators, a
narrator and a late upsert, a launch and a narrator); they are interchangeable, hence
the symmetry. Three texts let a chapter be written twice and still be followed by
another; five turns are what a creator needs for its four tools and its answer, and
leave the other personas room to fail and to repeat themselves. The environment has all a
dry run can show.
*Dashboard:* the models share no variable with each other, so each behaviour explores
one `part` while the others rest; the check is that of each model by itself, in one
run. `chat` is bounded to two messages and calls in the sum of four (a history with
calls in it, two calls in parallel, a persona with two that says something once; with a
third call the stream stays up), `feed`
to one message and two calls (start and stop) with three ticks and a drop. `log` takes two
orders, or one and a tick (every kind of artifact; two versions of an order with another's
appends between them), a ring of three rows, which evicts, and every `config`. `page` has two rows
in a tab and a fetch of two: three orders, of which one is judged, fill a tab and push the
order that is updated last out of it (`MCOnlyPage`); with three orders, or with a tick, the
stream stays up; two orders leave room for a loss and its replay. With reduced motion
the payments have the hash of the stub, and the page is watched without the
heartbeat run. `agent` takes five ticks, two skips, four calls; `tweet` the five drafts
of MAX_ATTEMPTS.

**Violations.** Each is a disagreement between a comment and the code, quoted in
`findings`:

* `SingleFlight`: `start` looks in the map, awaits the row, then installs an entry
  without looking again. Two first starts leave two entries; the guard is per
  entry, so two ticks execute. `FlightsBounded` is what does hold.
* `RestartUncontaminated`: a tick that outlives `stop` is pushed to the ring of the
  next run. `RecentTicksCounted` is what does hold.
* `PaidOrderServed`: nothing consumes the order of an outside buyer. `OrdersSettled`
  says what is true of orders a run drives.
* `ShownOnce`: a reconnection replays the buffer into the same turn.
  `TurnsComplete` is what does hold.
* `NeverWedged`: after a restart the stream is refused, and the status stays
  `streaming` without a stream.
* `EvidenceFetched`: the comment says that entering chapter 12 fetches the log and only
  a failure keeps the sample rows. Any change of the scroll progress or of the mirror
  runs the effect's cleanup, which aborts the fetch, and `hydratedRef` keeps it from
  asking again. `ShownNewest` says what the page shows all the same.

Four more need no run that fails, because a property that holds says what the code does
where a text says otherwise (`findings` quotes each):

* `OrdersSettled`: where the agent fails, "the orchestrator must mark the order failed and
  keep flowing", but without credentials for X the default phase throws past the mark. The
  order was paid for and pulled, and stays `processing`.
* `TweetsSafe`: an order may ask for the link to the token's page, and its draft has to
  pass the guard of that mode; `post_to_x` then refuses every draft with a link. The
  comment there calls this intentional for the cooldown; no caller can leave the mode.
* `ShownNewest`: "latest 5 entries in reverse chronological order" is the last five slots,
  in the reverse order of first appearance. An order judged after five others were queued
  is not listed, though its verdict is the newest artifact.
* `ShownNewest`: recorded rows are said to have a `sample` chip; none has, as the test says.

Worth knowing, though nothing in the repository says otherwise:

* A dry run shows the token of its request, a deploy transaction and a chapter CID that
  nobody has checked; `EvidenceTrue` says which artifacts stand for something that happened.
* An address with a capital X is shortened by no sanitiser and seen by the guard: a draft
  that has one is refused, where any other address is shortened (`TweetsSafe`).
* With calls in parallel, `groupBrainChatEvents` looks for an end in the scope that is
  open, which is the last call's: the others are shown as running for ever.
  `GroupsFaithful` states where the groups can be trusted.
* An explicit stop emits no event, and neither does a tick nobody listens to, so a feed
  may stay open behind a loop that is over (`OpenFeedHasReason`).
* `creator.ts` starts the upsert of chapter 1 and does not wait for it; it may replace
  the chapter 1 of a narrator that found no chapter yet. The narrator anchors the latest
  chapter of the store, whoever wrote it. Neither breaks `SlotsHoldOwnTexts`.
* A narrator fails when the ledger's append fails, a creator does not; so only the
  narrator's success means that something was committed (`DoneMeansPublished`).
* A ledger row that is written again loses its stamp (`StampsProven` is about the
  stamps there are).
* A demo of the heartbeat agent counts skipped fires as ticks, so a tick that hangs ends
  it too.

**Deadlock** is not checked in any run: a session may be stopped for good, a market
may have sold its last order within the bounds, a chat may be over, every run of a
launch done, a tweet posted.

**Fairness.**
*Heartbeat:* an installed interval keeps firing and a query ends. Nothing is assumed
of callers, nor of the persona: a tick may never return, and `LoopEnds` still
holds, because skipped fires trip the rail. Weak fairness of `Fire` is a fact about
`setInterval` as long as callers do not retime the loop for ever faster than it
fires, which the bound on runs excludes.
*Market:* every query, settlement, model call and HTTP request ends one way or
another, a request over the loopback interface arrives, and an installed finish
hook runs.
*Chat:* an orchestrator ends (bounded turns, calls that time out), the network
delivers, a browser retries. Nobody has to send.
*Conversation:* the model answers with calls or an end, or its stream fails; a tool
returns or throws (persona loops have a limit of turns, and calls of services time
out); the tab reconnects. `TurnsOver` follows although calls may be started at every
turn, because the turns are counted.
*Launch, ArtifactLog, Dashboard, HeartbeatAgent, Tweet:* none; a run may hang anywhere.

## 4. Theorems

For all values of the constants that the named assumptions allow:

| theorem | says |
|---|---|
| `HeartbeatSessionProofs!TypeCorrect` | `Spec => []TypeOK` |
| `HeartbeatSessionProofs!CapRespected` | `Spec => []AtMostNTicks` |
| `HeartbeatSessionProofs!RunBounded` | `Spec => []AttemptsBounded` |
| `HeartbeatSessionProofs!FlightsGuarded` | `Spec => []FlightsBounded` |
| `HeartbeatSessionProofs!TimerTracksRunning` | `Spec => []TimerIffRunning` |
| `HeartbeatSessionProofs!RecentTicksMatch` | `Spec => []RecentTicksCounted` |
| `HeartbeatSessionProofs!NoGhostAfterBoot` | `Spec => []NoGhostRow` |
| `HeartbeatSessionProofs!RowIsWritten` | `Spec => []RowCatchesUp` |
| `ShillMarketProofs!TypeCorrect` | `Spec => []TypeOK` |
| `ShillMarketProofs!HashesNeverLie` | `Spec => []HashesTrue` |
| `ShillMarketProofs!OutcomesNeverLie` | `Spec => []OutcomesTrue` |
| `ShillMarketProofs!OrdersGetSettled` | `Spec => []OrdersSettled` |
| `ShillMarketProofs!MarketImplementsSale` | `Spec => SaleKept`, the specification of `Sale` under the mapping of section 2 |
| `BrainChatProofs!TypeCorrect` | `Spec => []TypeOK` |
| `BrainChatProofs!TokensExclusive` | `Spec => []OneRunPerToken` |
| `BrainChatProofs!StreamsStayFaithful` | `Spec => []StreamsFaithful` |
| `BrainChatProofs!LeaksConfined` | `Spec => []LeaksOnlyFromReplay` |
| `BrainChatProofs!TurnsStayComplete` | `Spec => []TurnsComplete` |
| `LaunchProofs!LaunchTypeCorrect` | `Spec => []TypeOK` |
| `LaunchProofs!OwnTexts` | `Spec => []SlotsHoldOwnTexts` |
| `LaunchProofs!StampsAreProven` | `Spec => []StampsProven` |
| `LaunchProofs!NoGaps` | `Spec => []ChaptersGapless` |
| `LaunchProofs!ArtifactsAreTrue` | `Spec => []EvidenceTrue` |
| `LaunchProofs!DoneIsPublished` | `Spec => []DoneMeansPublished` |
| `LaunchProofs!LaunchImplementsEvidence` | `Spec => EvidenceKept`, the specification of `Evidence` under the mapping of section 2 |
| `ConversationProofs!ChatTypeCorrect` | `ChatSpec => []ChatTypeOK` |
| `ConversationProofs!FeedClosesBehindTheLoop` | `ChatSpec => []OpenFeedHasReason` |
| `ConversationProofs!ChatShowsEveryTick` | `ChatSpec => []FeedComplete` |
| `ConversationProofs!RequestsAreAnswered` | `ChatSpec => []RequestsWellFormed` |
| `ConversationProofs!ChatShowsTheCalls` | `ChatSpec => []GroupsFaithful` |
| `DashboardProofs!RingStaysIndexed` | `LogSpec => []RingIndexed` |
| `DashboardProofs!LogSettlesOnTheLast` | `LogSpec => []LogSettles` |
| `DashboardProofs!DashboardTypeCorrect` | `DashboardSpec => []DashboardTypeOK` |
| `DashboardProofs!PageShowsTheNewest` | `DashboardSpec => []ShownNewest` |
| `DashboardProofs!WholeTypeCorrect` | `Spec => []TypeOK` |
| `DashboardProofs!WholeIsSafe` | `Spec` of `MCDashboard` implies every safety invariant of its parts |
| `AgentProofs!AgentTypeCorrect` | `AgentSpec => []AgentTypeOK` |
| `AgentProofs!GuardHolds` | `AgentSpec => []TicksGuarded` |
| `AgentProofs!TweetTypeCorrect` | `TweetSpec => []TweetTypeOK` |
| `AgentProofs!OnlySafeTweets` | `TweetSpec => []TweetsSafe` |

*CapRespected and RunBounded.* `AtMostNTicks` speaks of ticks begun and the code
counts ticks finished, so it is not inductive. `RunSafe` relates the two: of a
running session, every tick its run has begun is counted, except the one under way
(`Carry`). A tick left over from an earlier run may add to the count, never take
from it, and a replaced entry starts from a run that has begun no tick. A tick
begins only while the session runs, and then the count is below the cap.

*FlightsGuarded.* A flag belongs to an entry and an entry enters the map by one of two
actions. `FlightSafe` bounds the executing ticks by the entries ever put in the
map, less one if the flag of the current entry is clear (`Free`).

*TimerTracksRunning* is inductive together with the type invariant.

*RecentTicksMatch* says what `RestartUncontaminated` would, where the code delivers it: the
ring grows with the count, and only an entry that replaces another starts to count at zero
without a wipe (`RingSafe`). *NoGhostAfterBoot.* The boot clears what the crash left, and
until this process knows the token nothing of it is on the way to the row (`GhostSafe`).

*RowIsWritten.* An upsert writes the entry as it was when the upsert was issued, so the row
may be behind for as long as one is under way. With one connection statements are served
in order: `LineSafe` says that the connection and the queue behind it form a line, in which
each process is at most once and at one of its awaits. `RowSafe` adds that the newest upsert
in the line carries the entry as it is (`NewestSave`), and that with none in it the row does.
A mutation joins at the end, behind all others, and becomes the newest; the upsert that
lands leaves only newer ones behind it.

*The market.* None of its properties is inductive: each speaks of money, rows,
artifacts and tweets and not of the await in between, where the facts that keep
it true live. `MarketSafe` adds them, one named part per actor. `RequestSafe`: an
order is queued before its transfer and settled before its answer. `StubSafe`: a dry
run pays nothing and claims nothing. `RunSafe`: a run goes on only once it was told
that it paid, and its row waits for it; and how a run that ended undisturbed left its
order: with a verdict, refused before payment, or, for want of the X credential, in
`processing` with an error and no tweet. `PostSafe`: tweets beyond the one a
verdict stands for come from lost answers, and a run about to mark its order done
has posted. `BuyerSafe`: nobody posts for an outside buyer. A step touches one order,
so the proof has two halves: the frame lemmas (`RequestFrame`, `RunFrame`) carry
every other order over, the effect lemmas (`RequestEffect`, `RunEffect`) do the order
of the step. The refinement follows from the same invariant: a settlement is `Pay`
because the order at that stage is unsettled, a tweet is `Post` because the run that
posts was told that it paid, a mark is `Judge` because a run about to mark its order
done has posted, and every other step leaves transfers, tweets and verdicts alone.

*Streams.* `OneRunPerToken` is inductive with the types: a run becomes active only
when it is created, and then no other run of its token is. `StreamsFaithful` is
not: whether the next event extends a stream correctly depends on who is listening.
`StreamSafe` adds, per connection, that a stream that still runs has its listener and
has carried no terminal status (so it gets every event), and that one that carried
it belongs to a run that has ended (so that what the run ended with does not change
any more). Its lemmas are about one connection and one event (`WrittenSafe`,
`EndedSafe`, `PassedOverSafe`, `ClosedSafe`, `ReplaySafe`); `ReplayFaithful` says what
the replay of `subscribe` contains. Events are counted, so the theorem covers a run
of any length.

*Turns.* `TurnsComplete` is about turns that have ended. `TurnSafe` says of the turn on its
way what the end will need: it shows what its own connection has dispatched so far, after
what earlier connections showed (`Shown`), and nothing before the first opened; an
EventSource that connects again without a drop does so after a crash only, which no turn
survives as done. A faithful stream carries all its run ended with before the terminal
status, so the turn that dispatches the status has been shown it (`EndedTurn`).

*The launch.* `Inv` has a part for what the shared state promises and a part for what a
run may rely on at each of its awaits. `Stores`: chapters, commitments, stamps and memos
are of texts that were written as what they are held as, the chain within the ledger's
history. `Gapless`: the chapters have no gap. `Local(r)`, by `pc[r]`: what a run has in
hand was written (`Written`), was committed to (`Held`), was sent (`Sent`), can be read
(`Readable`), or has every chapter before it (`Next1`). All five only ever grow true
(`Grows`), so a step of one run leaves `Local` of every other alone (`LocalKept`), and an
artifact once true stays true (`HoldsKept`): that is the whole of the interference
argument. Two facts are not of this kind. `CountedIsNext` is about a set: if the chapters
are gapless, as many as there are can be read, and the one after them leaves no gap,
however late it is written. And an image shown is the image there is, since one run at
most creates the token and it is past its loop when it shows (`OneCreator`,
`ImageShown`). A step of the anchoring is composed from the effect of its write
(`AppendEffect`, `MarkEffect`, `ChainEffect`), of its continuation (`ContinueEffect`,
`AwaitEffect`), and of what it shows (`AnchorHolds`, `TokenHolds`, `LoreHolds`), by
`AnchorStep`. The refinement uses the same invariant: a pin is `Write` because its CID is
new, an append is `Commit` because the run holds a written text, a memo is `Prove`
because it holds a committed one, and every other step leaves the three alone.

*The heartbeat agent.* `Overlap` bounds the ticks in flight by whether the flag is up
and how many a client has begun over another; `Counted` relates ticks begun, ended and
in flight; `Clients` says that the demo never begins a second tick itself and that the
persona's agent has no timer and one tick.

*Tweets.* `TweetInv` says of a draft handed over for an order that its own guard was
content with it; the second guard is applied to that.

*The conversation.* Four invariants on top of the types (`ChatTypeInv`). `FeedInv`: a loop
that ended by itself has closed the feed unless its last tick was lost, and whatever
reports a loop comes after the session is known. `CardsInv`: tick cards are appended in
order and no turn of the assistant carries one, so writing into a turn disturbs none.
`RequestInv`, for `RequestsWellFormed`: the calls that a transcript's turns claim to have
made are over and belong to one turn each, and the request is `Paired`, that is, each
message answers the calls of the one before it. `HistoryAsks` and
`ConversationPaired` show this of what `History` and `ToAnthropicMessages` make of any such
transcript, `PairedAppend` of what `NextTurn` adds.
`EventInv`, for `GroupsFaithful`: in what the tab has seen, a call starts once, ends once
and in this order, and a persona's calls end before the persona does. The rest is about
the fold: `FoldOfEvents` unfolds `groupBrainChatEvents` into one row step per event, and an
induction over the events shows what holds of the rows before each of them, namely that a
row is closed by its own end only (`OverHasEnd`) and that the scope of a call stays open,
with its persona's calls under it, up to that end if no other call interrupts
(`ScopeHolds`, `ClosedScope`).

*The log.* The ring is always the ring of its rows (`Rings`): rows with one position per key,
no more than fit, and the index computed from them. `RingEvicts` shows that renumbering by
`memoryKeyIndex` is that, `RingKeptByAll` carries it over a list of appends. The table needs
`PoolOrdered` (appends wait in the order of emission and land after all that were served
before), `PoolByKey` (of an undisturbed key at most one is on a connection, and it is newer
than the key's row) and `PoolKeeps` (everything emitted waits, is on a connection or is in
the table).

*The page.* `MirrorKeeps`: what was read from the stream is the last of its key in the
mirror, or a newer one was read, or a hydration has pushed that key. `MirrorHas`: every
key the stream told has a place in the mirror. `MirrorOrdered`: before a place of a key
stands one for each key that the run showed earlier, hydrated keys aside; a version that
comes later takes a place of its own in the mirror and the slot of its first one in the
drawer. What the drawer and the tabs make of the mirror are folds again: `Deduped` shows
that `dedupeArtifacts` leaves one row per key, the last version, in slots in the order of
first appearance, and `SlotsOfTheRun` turns that order, by `MirrorOrdered`, into the
order in which the run first showed the keys. `RealRowsOf` and `TabLists` say what a tab
lists: the slots of its kinds from the last to the first, as far as there is room. A slot
with no more than `TabRows` - 1 later ones in its tab is therefore listed, with the last
version.

*The composition.* `Parts`: the models `MCDashboard` puts next to each other share no
variable, so a behaviour of the whole is one of each, and their theorems hold of it.

*Folds and induction.* The induction theorems of the library take an operator as parameter.
`FoldFacts` does without: `SetInduction` is about a set of numbers and follows from the
least element of its complement, and the invariant to be shown for n becomes the set of the
numbers it holds for. `FoldIter` says what `FoldLeft` computes for a step given as a function: the
value after n positions is the step applied to the value after n - 1 of them.

*Model-checked only:* the liveness properties `LoopEnds`, `RunsEnd`, `Reconciled`,
`TurnsEnd` and `TurnsOver`, which need fairness and ENABLED. Every safety property that a
run checks, and both refinements, are proved.

## 5. Not modelled

* The stores' memory backends, except the artifact log's: the same operations without
  awaits.
* `recordTick`, `clear`, `size` of the session store, called by tests only;
  `pullPending`, `listByToken` and the queries of the ledger, which have no production
  caller; `startRun` and `resetRun` of `useRun`, which nothing in the interface calls.
* Contents: prompts, what a model says, wording of texts and logs. A draft is the
  features its guards look for, a text its CID.
* Numbers of `maxTicks` that are not positive integers (`resolveMaxTicks` maps them
  to the default).
* The rate limiter and the local x402 facilitator: libraries behind a few lines of
  glue, which to `ShillMarket` are reasons a request is refused or a transfer fails.
* Boot and configuration: wiring; what changes state at boot is an action of
  `HeartbeatSession`.
* The cache of `TokenIdentityReader` (a negative answer of the chain is kept for ten
  minutes), the multicall of `check_token_status`, gas and nonces of transactions.
* The logs the orchestrators write, and the drawings of the other chapters.
* What a text asserts of several tokens: tokens share no key in any store.

## 6. Plan

Done in order of importance: the heartbeat (loops that cost money and can run
away), the market (money and tweets), the runs and the chat (everything a user
sees), the launch with its evidence (what the project shows to the world), the
conversation, the log and the page; and the proofs of all their safety properties.

Left, in order:

1. `BrainChat` and `Conversation` composed, so that the events a tab has seen come from
   the replayed stream instead of a choice; the product is large and needs a bound of
   its own.
2. An abstract specification of a conversation (a question, calls, an answer) that
   `Conversation` implements, with the four invariants of section 4 as the proof's base.
3. The cache of `TokenIdentityReader` next to the personas that rely on it.
