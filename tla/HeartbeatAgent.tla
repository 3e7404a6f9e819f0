---------------------------- MODULE HeartbeatAgent ----------------------------
(***************************************************************************)
(* The class HeartbeatAgent (apps/server/src/agents/heartbeat.ts): a timer *)
(* whose callback runs one tick unless one is running, next to calls that  *)
(* run a tick in any case.  Its clients are the command-line demo          *)
(* (demos/demo-heartbeat-run.ts), which starts it and polls its counters,  *)
(* and the heartbeat persona, which forces one tick of an agent of its     *)
(* own; a third client calls what it likes, when it likes.                 *)
(*                                                                         *)
(* isTickRunning is a flag, although ticks may overlap: the end of any of  *)
(* them clears it.  What a tick does is Conversation's and Launch's        *)
(* subject; here it runs, and then has succeeded or failed.                *)
(***************************************************************************)
EXTENDS Naturals

CONSTANTS
  Target,          \* ticks the demo waits for
  MaxBegun,        \* bound: ticks begun
  MaxSkips,        \* bound: ticks skipped
  MaxClientCalls   \* bound: calls of the free client

ASSUME AgentAssumption ==
  Target \in Nat \ {0} /\ MaxBegun \in Nat /\ MaxSkips \in Nat /\ MaxClientCalls \in Nat

VARIABLES
  client,         \* demo, persona, free
  over,           \* the client has what it wanted, or its process has ended
  alive,          \* _running
  timer,          \* the interval is installed
  due,            \* the timer has fired, and its callback has not run yet
  isTickRunning,
  flights,        \* ticks in flight
  begun,          \* history: ticks begun
  successCount, errorCount, skippedCount,
  overlaps,       \* history: ticks begun over one in flight by a call of the client
  clientCalls

counters  == <<successCount, errorCount, skippedCount>>
agentVars == <<client, over, alive, timer, due, isTickRunning, flights, begun, counters,
               overlaps, clientCalls>>

AgentTypeOK ==
  /\ client \in {"demo", "persona", "free"} /\ over \in BOOLEAN
  /\ alive \in BOOLEAN /\ timer \in BOOLEAN /\ due \in BOOLEAN
  /\ isTickRunning \in BOOLEAN /\ flights \in 0 .. MaxBegun
  /\ begun \in 0 .. MaxBegun /\ successCount \in 0 .. MaxBegun /\ errorCount \in 0 .. MaxBegun
  /\ skippedCount \in 0 .. MaxSkips
  /\ overlaps \in 0 .. MaxClientCalls /\ clientCalls \in 0 .. MaxClientCalls

AgentInit ==
  /\ client \in {"demo", "persona", "free"} /\ over = FALSE
  /\ alive = FALSE /\ timer = FALSE /\ due = FALSE
  /\ isTickRunning = FALSE /\ flights = 0 /\ overlaps = 0 /\ clientCalls = 0
  /\ begun = 0 /\ successCount = 0 /\ errorCount = 0 /\ skippedCount = 0

(***************************************************************************)
(* The class.                                                              *)
(***************************************************************************)
\* runOneTick up to its await.
BeginTick ==
  /\ begun < MaxBegun /\ begun' = begun + 1
  /\ isTickRunning' = TRUE
  /\ flights' = flights + 1
  /\ UNCHANGED counters

\* A call of the client begins a tick whatever runs.
ForceTick ==
  /\ BeginTick
  /\ overlaps' = IF flights > 0 THEN overlaps + 1 ELSE overlaps

\* start: the timer is installed before the first tick; a second call does nothing.
StartAgent ==
  IF alive THEN UNCHANGED <<alive, timer, isTickRunning, flights, begun, counters, overlaps>>
  ELSE alive' = TRUE /\ timer' = TRUE /\ ForceTick

\* shutdown does not wait for a tick, and a callback may have been dispatched.
Shutdown ==
  /\ alive' = FALSE /\ timer' = FALSE
  /\ due' \in {due, FALSE}
  /\ UNCHANGED <<isTickRunning, flights, begun, counters, overlaps>>

TimerFires ==
  /\ ~over /\ timer /\ ~due /\ due' = TRUE
  /\ UNCHANGED <<client, over, alive, timer, isTickRunning, flights, begun, counters, overlaps, clientCalls>>

\* The callback of the timer: nothing after a shutdown, else a tick or a skip.
TimerCallback ==
  /\ ~over /\ due /\ due' = FALSE
  /\ \/ ~alive /\ UNCHANGED <<isTickRunning, flights, begun, counters>>
     \/ /\ alive /\ isTickRunning
        /\ skippedCount < MaxSkips /\ skippedCount' = skippedCount + 1
        /\ UNCHANGED <<isTickRunning, flights, begun, successCount, errorCount>>
     \/ alive /\ ~isTickRunning /\ BeginTick
  /\ UNCHANGED <<client, over, alive, timer, overlaps, clientCalls>>

\* Slip: the flag is cleared where the tick succeeds, and not in a finally.
EndTick_NoFinally ==
  /\ ~over /\ flights > 0 /\ flights' = flights - 1
  /\ \/ successCount' = successCount + 1 /\ UNCHANGED errorCount /\ isTickRunning' = FALSE
     \/ errorCount' = errorCount + 1 /\ UNCHANGED successCount /\ UNCHANGED isTickRunning
  /\ UNCHANGED <<client, over, alive, timer, due, begun, skippedCount, overlaps, clientCalls>>

\* A tick's loop has answered, or has thrown.
EndTick ==
  /\ ~over /\ flights > 0 /\ flights' = flights - 1
  /\ \/ successCount' = successCount + 1 /\ UNCHANGED errorCount
     \/ errorCount' = errorCount + 1 /\ UNCHANGED successCount
  /\ isTickRunning' = FALSE
  /\ UNCHANGED <<client, over, alive, timer, due, begun, skippedCount, overlaps, clientCalls>>

(***************************************************************************)
(* The clients.                                                            *)
(***************************************************************************)
Seen == successCount + errorCount + skippedCount

DemoStarts ==
  /\ client = "demo" /\ ~over /\ begun = 0
  /\ StartAgent
  /\ UNCHANGED <<client, over, due, clientCalls>>

\* The poll has seen enough; a skip counts, so a tick that hangs ends the demo too.
DemoPolls ==
  /\ client = "demo" /\ ~over /\ Seen >= Target
  /\ Shutdown /\ over' = TRUE
  /\ UNCHANGED <<client, clientCalls>>

\* A signal, or the hard timeout.
DemoInterrupted ==
  /\ client = "demo" /\ ~over /\ begun > 0
  /\ Shutdown /\ over' = TRUE
  /\ UNCHANGED <<client, clientCalls>>

\* heartbeatPersona forces a tick, waits for it, and answers the counters.
PersonaTicks ==
  /\ client = "persona" /\ ~over /\ begun = 0
  /\ ForceTick
  /\ UNCHANGED <<client, over, alive, timer, due, clientCalls>>

PersonaAnswers ==
  /\ client = "persona" /\ ~over /\ begun > 0 /\ flights = 0
  /\ over' = TRUE
  /\ UNCHANGED <<client, alive, timer, due, isTickRunning, flights, begun, counters, overlaps, clientCalls>>

FreeClient ==
  /\ client = "free" /\ clientCalls < MaxClientCalls /\ clientCalls' = clientCalls + 1
  /\ \/ StartAgent /\ UNCHANGED due
     \/ ForceTick /\ UNCHANGED <<alive, timer, due>>
     \/ Shutdown
  /\ UNCHANGED <<client, over>>

AgentNext ==
  \/ TimerFires \/ TimerCallback \/ EndTick
  \/ DemoStarts \/ DemoPolls \/ DemoInterrupted
  \/ PersonaTicks \/ PersonaAnswers \/ FreeClient

AgentSpec == AgentInit /\ [][AgentNext]_agentVars

(***************************************************************************)
(* What must hold.                                                         *)
(***************************************************************************)
\* heartbeat.ts:181-187: the guard of the scheduler, a flag that any end clears.  It
\* never locks the agent (the flag is up only while a tick runs), every tick is
\* counted once, and the timer adds no overlap of its own: there is at most one
\* tick beyond those a client has begun over another.  So neither the demo nor the
\* persona ever has two, and the persona answers the counters of exactly one.
TicksGuarded ==
  /\ isTickRunning => flights > 0
  /\ begun = successCount + errorCount + flights
  /\ flights <= 1 + overlaps
  /\ client # "free" => overlaps = 0
  /\ client = "persona" /\ over => Seen = 1 /\ ~timer
=============================================================================
