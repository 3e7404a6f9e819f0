---------------------------- MODULE Conversation ----------------------------
(***************************************************************************)
(* One chat with the Brain, from the composer to the model and back:       *)
(* the composer and the transcript (apps/web: components/brain-chat.tsx,   *)
(* lib/slash-commands.ts, hooks/useBrainChat-state.ts, the grouping of     *)
(* brain-chat-message-group.ts), the run of one message on the server      *)
(* (runs/brain-chat.ts, agents/brain.ts, agents/runtime.ts), the tools it  *)
(* calls, which run persona loops of their own (tools/invoke-persona.ts),  *)
(* and the feed of heartbeat ticks that writes into the same transcript    *)
(* (runs/heartbeat-events.ts, runs/routes.ts, hooks/useHeartbeatStream.ts).*)
(*                                                                         *)
(* A call is numbered in the order in which its tool_use block arrives;    *)
(* what a text says is left out.  How streams replay and reconnect is      *)
(* BrainChat's subject; here events written while the tab is not connected *)
(* are lost, which is what happens to streaming events.  One token has a   *)
(* heartbeat loop, whose counters are HeartbeatSession's subject.          *)
(***************************************************************************)
EXTENDS Integers, Sequences, FiniteSets, SequencesExt

CONSTANTS
  ChatScope, \* of the chat: "global" in the panel, or that of a scene
  MaxSends,  \* bound: messages the user sends
  MaxCalls,  \* bound: tool calls of the whole conversation
  MaxTurns,  \* turns of the Brain's agent loop
  MaxTicks,  \* cap of the heartbeat loop
  MaxBeats,  \* bound: tick events of the whole conversation
  MaxDrops   \* bound: connections that drop

ASSUME ConversationAssumption ==
  /\ ChatScope \in {"launch", "order", "heartbeat", "global"}
  /\ MaxSends \in Nat /\ MaxCalls \in Nat /\ MaxTurns \in Nat
  /\ MaxTicks \in Nat \ {0} /\ MaxBeats \in Nat /\ MaxDrops \in Nat

Ids   == 1 .. MaxCalls
Beats == 1 .. MaxBeats

VARIABLES
  transcript,  \* turns of the chat
  seen,        \* brainEvents of the last assistant turn
  pc,          \* the run: idle, asking the model, executing tools, done, error
  turn,        \* turns of its agent loop
  forced,      \* what its first response must call
  request,     \* messages of its agent loop
  calls,       \* every tool call: whose, under which Brain call, what it does
  joined,      \* the tab is connected to the run's stream
  drops,       \* connections that have dropped
  loop,        \* the heartbeat loop in the session store
  beats,       \* tick events emitted
  lost,        \* those no listener was installed for, or the user has reset
  feed,        \* the tab's feed: idle, opening, hooked, ended
  ended        \* the token's feed has ended once (endedHeartbeatTokenRef)

runVars  == <<pc, turn, forced, request, calls>>
tabVars  == <<transcript, seen, joined, drops>>
beatVars == <<loop, beats, lost, feed, ended>>
chatVars == <<runVars, tabVars, beatVars>>

Message(role, uses, results) == [role |-> role, uses |-> uses, results |-> results]
TurnOf(role, said, uses, beat) ==
  [role |-> role, said |-> said, uses |-> uses, beat |-> beat]
Event(what, agent, id, background) ==
  [what |-> what, agent |-> agent, id |-> id, background |-> background]

Messages   == [role : {"user", "assistant"}, uses : SUBSET Ids, results : SUBSET Ids]
Turns      == [role : {"user", "assistant", "heartbeat"}, said : BOOLEAN,
               uses : SUBSET Ids, beat : Beats \union {0}]
SeenEvents == [what : {"text", "start", "end"}, agent : {"brain", "persona"},
               id : Ids \union {0}, background : BOOLEAN]
ToolCalls  == [agent : {"brain", "persona"}, under : Ids \union {0},
               state : {"streamed", "running", "persona", "looping", "over"}]

ChatTypeOK ==
  /\ transcript \in Seq(Turns) /\ seen \in Seq(SeenEvents)
  /\ pc \in {"idle", "asking", "tools", "done", "error"}
  /\ turn \in 0 .. MaxTurns
  /\ forced \in {"auto", "persona", "lookup", "tick", "stop"}
  /\ request \in Seq(Messages)
  /\ calls \in Seq(ToolCalls) /\ Len(calls) <= MaxCalls
  /\ joined \in BOOLEAN /\ drops \in 0 .. MaxDrops
  /\ loop \in [known : BOOLEAN, running : BOOLEAN, ticks : 0 .. MaxTicks, stopped : BOOLEAN]
  /\ beats \in 0 .. MaxBeats /\ lost \subseteq Beats
  /\ feed \in {"idle", "opening", "hooked", "ended"} /\ ended \in BOOLEAN

ChatInit ==
  /\ transcript = <<>> /\ seen = <<>>
  /\ pc = "idle" /\ turn = 0 /\ forced = "auto" /\ request = <<>> /\ calls = <<>>
  /\ joined = FALSE /\ drops = 0
  /\ loop = [known |-> FALSE, running |-> FALSE, ticks |-> 0, stopped |-> FALSE]
  /\ beats = 0 /\ lost = {} /\ feed = "idle" /\ ended = FALSE

(***************************************************************************)
(* The transcript as a history for the model.                              *)
(***************************************************************************)
\* Calls of the Brain whose start and end the tab has seen, in this order.
Invocations(events) ==
  {id \in Ids : \E i, j \in DOMAIN events :
     /\ i < j
     /\ events[i].what = "start" /\ events[i].agent = "brain" /\ events[i].id = id
     /\ events[j].what = "end" /\ events[j].agent = "brain" /\ events[j].id = id}

\* A tick card goes to the model as something the assistant has said.
TurnToApiMessage(t) ==
  IF t.role = "user" THEN Message("user", {}, {}) ELSE Message("assistant", t.uses, {})

\* Slip: results are not put behind the turn that asked for them.
ExpandAssistantTurn_Unanswered(m) == <<m>>

\* An assistant turn with calls becomes two messages: the calls, then their results.
ExpandAssistantTurn(m) == <<m, Message("user", {}, m.uses)>>

PushMessage(out, m) ==
  IF m.uses = {} THEN Append(out, m) ELSE out \o ExpandAssistantTurn(m)

ToAnthropicMessages(messages) == FoldLeft(PushMessage, <<>>, messages)

\* Turns without a text are not sent, whatever calls they hold.
PushSpoken(history, t) == IF t.said THEN Append(history, TurnToApiMessage(t)) ELSE history

History(turns) == FoldLeft(PushSpoken, <<>>, turns)

(***************************************************************************)
(* The composer.                                                           *)
(***************************************************************************)
Sent == Cardinality({i \in DOMAIN transcript : transcript[i].role = "user"})

\* SLASH_COMMANDS: who handles a command, in which scopes, and what must follow it.
SlashCommands ==
  LET Command(names, kind, scopes, needs) ==
        [name \in names |-> [kind |-> kind, scopes |-> scopes \union {"global"}, needs |-> needs]]
  IN  Command({"launch"}, "server", {"launch"}, {"text", "address"})
   @@ Command({"order"}, "server", {"order"}, {"address"})
   @@ Command({"lore"}, "server", {"launch"}, {"address"})
   @@ Command({"heartbeat", "heartbeat-stop"}, "server", {"heartbeat"}, {"address"})
   @@ Command({"heartbeat-list"}, "server", {"heartbeat"}, {"nothing", "text", "address"})
   @@ Command({"status", "help", "reset", "clear"}, "client",
              {"launch", "order", "heartbeat"}, {"nothing", "text", "address"})

\* What is typed: free text or a command, known or not, and what follows it: an
\* address comes with options that are well formed.
Drafts == [command : DOMAIN SlashCommands \union {"free", "unknown"},
           args : {"nothing", "text", "address"}]

\* parseSlashInput finds the command, and the chat's scope shows it.
InScope(d) ==
  d.command \in DOMAIN SlashCommands /\ ChatScope \in SlashCommands[d.command].scopes

\* validateSlashArgs.
ValidArgs(d) == d.args \in SlashCommands[d.command].needs

\* dispatchSlashSubmission: what is neither sent nor handled is refused in the composer.
ServerSend(d) ==
  \/ d.command = "free"
  \/ InScope(d) /\ SlashCommands[d.command].kind = "server" /\ ValidArgs(d)
ClientHandled(d, names) == d.command \in names /\ InScope(d)

\* The composer submits while no message is under way.
CanSubmit == pc = "idle"

\* deriveForcedToolName, by what the tool does: a command cannot be answered
\* without its tool, and an order looks the token up first.
ForcedTool(d) ==
  CASE d.command \in {"launch", "lore"}          -> "persona"
    [] d.command \in {"order", "heartbeat-list"} -> "lookup"
    [] d.command = "heartbeat"                   -> "tick"
    [] d.command = "heartbeat-stop"              -> "stop"
    [] OTHER                                     -> "auto"

\* runAgentLoop throws unless the user has the last word.
Accepted(messages) == messages # <<>> /\ Last(messages).role = "user"

\* runBrainAgent hands the expanded conversation to the agent loop.
RunBrainAgent(messages) ==
  /\ request' = ToAnthropicMessages(messages)
  /\ pc' = IF Accepted(request') THEN "asking" ELSE "error"

\* send: the request carries the transcript, and the run starts with it.
Send ==
  /\ CanSubmit /\ Sent < MaxSends
  /\ \E d \in Drafts : ServerSend(d) /\ forced' = ForcedTool(d)
  /\ RunBrainAgent(History(Append(transcript, TurnOf("user", TRUE, {}, 0))))
  /\ transcript' = transcript \o
       <<TurnOf("user", TRUE, {}, 0), TurnOf("assistant", FALSE, {}, 0)>>
  /\ seen' = <<>>
  /\ UNCHANGED <<turn, calls, joined, drops, beatVars>>

\* /help and /status answer in the transcript, without the server.
AppendLocalAssistant ==
  /\ CanSubmit /\ Len(transcript) < 2 * MaxSends
  /\ \E d \in Drafts : ClientHandled(d, {"help", "status"})
  /\ transcript' = Append(transcript, TurnOf("assistant", TRUE, {}, 0))
  /\ UNCHANGED <<runVars, seen, joined, drops, beatVars>>

BeatsShown == {transcript[i].beat : i \in DOMAIN transcript} \ {0}

\* /reset: the transcript that offered the feed is gone, and the feed with it.
Reset ==
  /\ CanSubmit /\ transcript # <<>>
  /\ \E d \in Drafts : ClientHandled(d, {"reset", "clear"})
  /\ transcript' = <<>> /\ seen' = <<>>
  /\ lost' = lost \union BeatsShown
  /\ feed' = "idle"
  /\ UNCHANGED <<runVars, joined, drops, loop, beats, ended>>

(***************************************************************************)
(* The run: runAgentLoop with the Brain's tools.                           *)
(***************************************************************************)
LastAssistant ==
  CHOOSE i \in DOMAIN transcript :
    /\ transcript[i].role = "assistant"
    /\ \A j \in DOMAIN transcript : transcript[j].role = "assistant" => j <= i

\* A streaming event reaches the active turn if the tab is connected.
Emit(ev) == seen' = IF joined THEN Append(seen, ev) ELSE seen

Batch == {id \in DOMAIN calls : calls[id].agent = "brain" /\ calls[id].state # "over"
                                /\ \E i \in DOMAIN request : id \in request[i].uses}
Streamed == {id \in DOMAIN calls : calls[id].agent = "brain" /\ calls[id].state = "streamed"}
Call(agent, under, state) == [agent |-> agent, under |-> under, state |-> state]
SetCall(id, state) == calls' = [calls EXCEPT ![id].state = state]

\* applyAssistantDelta: what the Brain says is the turn's own text.
AssistantDelta ==
  /\ pc = "asking" /\ Streamed = {}
  /\ transcript' = IF joined THEN [transcript EXCEPT ![LastAssistant].said = TRUE] ELSE transcript
  /\ UNCHANGED <<runVars, seen, joined, drops, beatVars>>

\* A tool_use block is complete: the start is emitted before the response ends.
\* Which tool it names shows in what the call does, where nothing forces one.
ToolUseStart ==
  /\ pc = "asking" /\ Len(calls) < MaxCalls
  /\ calls' = Append(calls, Call("brain", 0, "streamed"))
  /\ Emit(Event("start", "brain", Len(calls) + 1, FALSE))
  /\ UNCHANGED <<pc, turn, forced, request, transcript, joined, drops, beatVars>>

\* The blocks of a response that never gets executed stay open.
Abandon == calls' = [id \in DOMAIN calls |->
             IF id \in Streamed THEN [calls[id] EXCEPT !.state = "over"] ELSE calls[id]]

\* The stream fails, and the run with it.
StreamFails ==
  /\ pc = "asking" /\ pc' = "error"
  /\ Abandon
  /\ UNCHANGED <<turn, forced, request, tabVars, beatVars>>

\* stop_reason other than tool_use ends the loop; cut off by max_tokens, a
\* response may end there with blocks in it.
LoopEnds ==
  /\ pc = "asking" /\ pc' = "done"
  /\ Abandon
  /\ UNCHANGED <<turn, forced, request, tabVars, beatVars>>

\* stop_reason tool_use: all blocks of the response are executed in parallel.
ExecuteTools ==
  /\ pc = "asking" /\ Streamed # {}
  /\ pc' = "tools"
  /\ request' = Append(request, Message("assistant", Streamed, {}))
  /\ calls' = [id \in DOMAIN calls |->
       IF id \in Streamed THEN [calls[id] EXCEPT !.state = "running"] ELSE calls[id]]
  /\ UNCHANGED <<turn, forced, tabVars, beatVars>>

\* A tool of the Brain is executed; tool_choice binds the first turn only.
Executes(id, what) ==
  /\ pc = "tools" /\ id \in Batch
  /\ forced = "auto" \/ what \in {forced, "any"}

Nested(id) == {n \in DOMAIN calls : calls[n].under = id /\ calls[n].state # "over"}

\* ... and what a persona says is an event of the turn; its deltas in a row are one.
PersonaDelta(id) ==
  /\ Executes(id, "persona") /\ calls[id].state \in {"running", "persona"}
  /\ seen # <<>> => Last(seen).what # "text"
  /\ SetCall(id, "persona")
  /\ Emit(Event("text", "persona", 0, FALSE))
  /\ UNCHANGED <<pc, turn, forced, request, transcript, joined, drops, beatVars>>

\* The persona's own loop calls a tool; the event goes to the same run.
PersonaToolStart(id) ==
  /\ Executes(id, "persona") /\ calls[id].state \in {"running", "persona"}
  /\ Len(calls) < MaxCalls
  /\ calls' = Append([calls EXCEPT ![id].state = "persona"], Call("persona", id, "running"))
  /\ Emit(Event("start", "persona", Len(calls) + 1, FALSE))
  /\ UNCHANGED <<pc, turn, forced, request, transcript, joined, drops, beatVars>>

PersonaToolEnd(n) ==
  /\ pc = "tools" /\ calls[n].agent = "persona" /\ calls[n].state = "running"
  /\ SetCall(n, "over")
  /\ Emit(Event("end", "persona", n, FALSE))
  /\ UNCHANGED <<pc, turn, forced, request, transcript, joined, drops, beatVars>>

\* What executeToolBlock does when a tool has returned or thrown.
ToolUseEnd(id, background) ==
  /\ SetCall(id, "over")
  /\ Emit(Event("end", "brain", id, background))
  /\ UNCHANGED <<pc, turn, forced, request, transcript, joined, drops>>

\* A persona's loop has ended, or has thrown.
PersonaReturns(id) ==
  /\ Executes(id, "persona") /\ Nested(id) = {} /\ calls[id].state # "looping"
  /\ ToolUseEnd(id, FALSE)
  /\ UNCHANGED beatVars

\* get_token_info and list_heartbeats change nothing.
ListHeartbeats(id) ==
  /\ Executes(id, "lookup") /\ calls[id].state = "running"
  /\ ToolUseEnd(id, FALSE)
  /\ UNCHANGED beatVars

\* A tool refuses its input, or throws.
ToolThrows(id) ==
  /\ Executes(id, "any") /\ calls[id].state \in {"running", "looping"}
  /\ ToolUseEnd(id, FALSE)
  /\ UNCHANGED beatVars

\* invoke_heartbeat_tick without an interval or a session: a tick of its own, of
\* which the session store never learns and the bus neither.
OneShotReturns(id) ==
  /\ Executes(id, "tick") /\ calls[id].state = "running" /\ ~loop.known
  /\ ToolUseEnd(id, FALSE)
  /\ UNCHANGED beatVars

\* invoke_heartbeat_tick with an interval starts the loop, whatever was there before.
StartHeartbeat(id) ==
  /\ Executes(id, "tick") /\ calls[id].state = "running"
  /\ loop' = [known |-> TRUE, running |-> TRUE,
              ticks |-> IF loop.running THEN loop.ticks ELSE 0, stopped |-> FALSE]
  /\ SetCall(id, "looping")
  /\ UNCHANGED <<pc, turn, forced, request, tabVars, beats, lost, feed, ended>>

\* ... and returns after its immediate tick; without an interval, the snapshot
\* of a session that exists is reported as a loop in the background.
HeartbeatReturns(id) ==
  /\ Executes(id, "tick")
  /\ \/ calls[id].state = "looping"
     \/ calls[id].state = "running" /\ loop.known
  /\ ToolUseEnd(id, TRUE)
  /\ UNCHANGED beatVars

\* stop_heartbeat: nothing is emitted on the bus.
StopHeartbeat(id) ==
  /\ Executes(id, "stop") /\ calls[id].state = "running" /\ loop.known
  /\ loop' = [loop EXCEPT !.running = FALSE, !.stopped = TRUE]
  /\ ToolUseEnd(id, FALSE)
  /\ UNCHANGED <<beats, lost, feed, ended>>

\* Promise.all has settled: the results answer the calls, and the model is asked
\* again, until the turns are used up and the loop throws.
NextTurn ==
  /\ pc = "tools" /\ Batch = {}
  /\ request' = Append(request, Message("user", {}, Last(request).uses))
  /\ IF turn + 1 < MaxTurns
     THEN turn' = turn + 1 /\ pc' = "asking"
     ELSE turn' = MaxTurns /\ pc' = "error"
  /\ forced' = "auto"
  /\ UNCHANGED <<calls, tabVars, beatVars>>

Join ==
  /\ pc # "idle" /\ ~joined /\ joined' = TRUE
  /\ UNCHANGED <<runVars, transcript, seen, drops, beatVars>>

Drop ==
  /\ joined /\ drops < MaxDrops
  /\ joined' = FALSE /\ drops' = drops + 1
  /\ UNCHANGED <<runVars, transcript, seen, beatVars>>

\* Slip: a run that ends in an error is not the end of the turn.
TurnOver_Done ==
  /\ pc = "done" /\ joined
  /\ pc' = "idle" /\ joined' = FALSE /\ request' = <<>> /\ turn' = 0 /\ forced' = "auto"
  /\ transcript' = [transcript EXCEPT ![LastAssistant].uses = Invocations(seen)]
  /\ UNCHANGED <<calls, seen, drops, beatVars>>

\* The terminal status: it is replayed to a tab that connects later.
TurnOver ==
  /\ pc \in {"done", "error"} /\ joined
  /\ pc' = "idle" /\ joined' = FALSE /\ request' = <<>> /\ turn' = 0 /\ forced' = "auto"
  /\ transcript' = [transcript EXCEPT ![LastAssistant].uses = Invocations(seen)]
  /\ UNCHANGED <<calls, seen, drops, beatVars>>

(***************************************************************************)
(* Heartbeat: the loop emits, the feed shows.                              *)
(***************************************************************************)
\* extractActiveHeartbeatToken: a tool has reported a loop in the background.
ActiveHeartbeatToken ==
  \E i, j \in DOMAIN seen :
    /\ seen[i].what = "start" /\ seen[j].what = "end" /\ seen[j].background
    /\ seen[i].id = seen[j].id

\* The hook opens the feed unless the token's feed has ended before.
OpenFeed ==
  /\ feed = "idle" /\ ActiveHeartbeatToken /\ ~ended
  /\ feed' = "opening"
  /\ UNCHANGED <<runVars, tabVars, loop, beats, lost, ended>>

\* The route: the snapshot of a session in the map needs no database, so the
\* read and the subscription happen in one turn of the event loop.
Subscribe ==
  /\ feed = "opening" /\ feed' = "hooked"
  /\ UNCHANGED <<runVars, tabVars, loop, beats, lost, ended>>

\* The connection drops; the route unsubscribes and the EventSource reconnects.
FeedDrops ==
  /\ feed = "hooked" /\ drops < MaxDrops
  /\ feed' = "opening" /\ drops' = drops + 1
  /\ UNCHANGED <<runVars, transcript, seen, joined, loop, beats, lost, ended>>

\* buildHeartbeatTurn and appendTurn.
HeartbeatTurn(n) == transcript' = Append(transcript, TurnOf("heartbeat", TRUE, {}, n))

\* Slip: the stream is left open.
SessionEnded_Left(running) == UNCHANGED <<feed, ended>>

\* The route ends the stream behind an event that says the session is over.
SessionEnded(running) ==
  IF running THEN UNCHANGED <<feed, ended>> ELSE feed' = "ended" /\ ended' = TRUE

\* Slip: ticks that were skipped are not delivered.
EmitTick_Successes(running) ==
  /\ beats < MaxBeats /\ beats' = beats + 1
  /\ IF feed = "hooked" /\ loop'.ticks # loop.ticks
     THEN HeartbeatTurn(beats + 1) /\ SessionEnded(running) /\ UNCHANGED lost
     ELSE UNCHANGED <<transcript, feed, ended, lost>>

\* HeartbeatEventBus.emit to the listener of the feed, if it is installed.
EmitTick(running) ==
  /\ beats < MaxBeats /\ beats' = beats + 1
  /\ IF feed = "hooked"
     THEN HeartbeatTurn(beats + 1) /\ SessionEnded(running) /\ UNCHANGED lost
     ELSE UNCHANGED <<transcript, feed, ended>> /\ lost' = lost \union {beats + 1}

\* runOneTick never throws: a tick whose loop fails counts like one that succeeds.
RunOneTick(n) == n + 1

\* A tick counts, or is skipped; at the cap the loop stops by itself.
Tick ==
  /\ loop.running
  /\ \E n \in {loop.ticks, RunOneTick(loop.ticks)} :
       loop' = [loop EXCEPT !.ticks = n, !.running = n < MaxTicks]
  /\ EmitTick(loop'.running)
  /\ UNCHANGED <<runVars, seen, joined, drops>>

ChatNext ==
  \/ Send \/ AppendLocalAssistant \/ Reset
  \/ AssistantDelta \/ ToolUseStart \/ StreamFails \/ LoopEnds \/ ExecuteTools \/ NextTurn
  \/ \E id \in DOMAIN calls :
       \/ PersonaDelta(id) \/ PersonaToolStart(id) \/ PersonaToolEnd(id) \/ PersonaReturns(id)
       \/ ListHeartbeats(id) \/ ToolThrows(id) \/ OneShotReturns(id)
       \/ StartHeartbeat(id) \/ HeartbeatReturns(id) \/ StopHeartbeat(id)
  \/ Join \/ Drop \/ TurnOver
  \/ OpenFeed \/ Subscribe \/ FeedDrops \/ Tick

ChatSpec == ChatInit /\ [][ChatNext]_chatVars

(***************************************************************************)
(* groupBrainChatEvents: one pass over the events of a turn.  A call of    *)
(* the Brain opens a scope, and what follows is put under it until it ends.*)
(***************************************************************************)
Row(e) == [what |-> e.what, agent |-> e.agent, id |-> e.id, over |-> FALSE, kids |-> <<>>]

\* The list rows are pushed to: the open scope's, or the top.
Scope(g) == IF g.open = 0 THEN g.rows ELSE g.rows[g.open].kids
WithScope(g, list) ==
  IF g.open = 0 THEN [g EXCEPT !.rows = list] ELSE [g EXCEPT !.rows[g.open].kids = list]

\* Deltas of one agent in a row are one row.
MergesIntoTail(g, e) ==
  /\ e.what = "text" /\ Scope(g) # <<>>
  /\ Last(Scope(g)).what = "text" /\ Last(Scope(g)).agent = e.agent

OpenScope(g, e) == [rows |-> Append(g.rows, Row(e)), open |-> Len(g.rows) + 1]

\* An end is looked for in the scope that is open, from the back.
CloseRow(g, e) ==
  LET list  == Scope(g)
      match == {i \in DOMAIN list :
                  list[i].what = "start" /\ list[i].id = e.id /\ ~list[i].over}
  IN  WithScope(g, [i \in DOMAIN list |->
        IF i \in match /\ \A j \in match : j <= i
        THEN [list[i] EXCEPT !.over = TRUE] ELSE list[i]])

\* Slip: an end of the Brain closes whatever scope is open.
GroupEnd_Any(g, e) ==
  IF e.agent = "brain" /\ g.open # 0
  THEN [rows |-> [g.rows EXCEPT ![g.open].over = TRUE], open |-> 0]
  ELSE CloseRow(g, e)

GroupEnd(g, e) ==
  IF e.agent = "brain" /\ g.open # 0 /\ g.rows[g.open].id = e.id
  THEN [rows |-> [g.rows EXCEPT ![g.open].over = TRUE], open |-> 0]
  ELSE CloseRow(g, e)

GroupEvent(g, e) ==
  CASE e.what = "end"                        -> GroupEnd(g, e)
    [] e.what = "start" /\ e.agent = "brain" -> OpenScope(g, e)
    [] MergesIntoTail(g, e)                  -> g
    [] OTHER                                 -> WithScope(g, Append(Scope(g), Row(e)))

\* BrainToolUseGroup and PersonaToolUseRow: running until the end has been found.
ShownRunning(row) == ~row.over

Groups == FoldLeft(GroupEvent, [rows |-> <<>>, open |-> 0], seen).rows

(***************************************************************************)
(* What must hold.                                                         *)
(***************************************************************************)
\* The API refuses a request whose tool_use blocks are not answered by the next
\* message, or answered twice: whatever the transcript holds (calls that never
\* ended, turns without a text, tick cards, local answers), what the model is
\* asked is well formed.
RequestsWellFormed ==
  pc = "asking" =>
    /\ Last(request).role = "user"
    /\ \A i \in DOMAIN request :
         /\ request[i].uses # {} =>
              i < Len(request) /\ request[i + 1].results = request[i].uses
         /\ request[i].results # {} => i > 1 /\ request[i - 1].uses = request[i].results
         /\ \A j \in DOMAIN request : i # j => request[i].uses \intersect request[j].uses = {}

Position(what, id) ==
  {i \in DOMAIN seen : seen[i].what = what /\ seen[i].id = id}

\* A call of the Brain is shown as over only if it is.  If no other call of the
\* Brain began before it ended, it is shown as over and holds the calls its
\* persona made; with calls in parallel the code loses the end of all but the last.
GroupsFaithful ==
  LET groups == Groups IN
  \A id \in DOMAIN calls : calls[id].agent = "brain" =>
    /\ \A k \in DOMAIN groups :
         groups[k].id = id /\ ~ShownRunning(groups[k]) => Position("end", id) # {}
    /\ \A i \in Position("start", id), j \in Position("end", id) :
         (\A n \in i + 1 .. j : seen[n].what = "start" => seen[n].agent = "persona") =>
         \E k \in DOMAIN groups :
           /\ groups[k].id = id /\ ~ShownRunning(groups[k])
           /\ \A n \in i + 1 .. j : seen[n].what = "start" /\ calls[seen[n].id].under = id =>
                \E c \in DOMAIN groups[k].kids :
                  /\ groups[k].kids[c].id = seen[n].id
                  /\ ShownRunning(groups[k].kids[c]) <=> Position("end", seen[n].id) = {}

\* The chat shows every tick that was emitted while the feed was listening and
\* that the user has not reset, once each and in order, between turns that come
\* and go.
FeedComplete ==
  /\ BeatsShown = (1 .. beats) \ lost
  /\ \A i, j \in DOMAIN transcript :
       i < j /\ transcript[i].beat # 0 /\ transcript[j].beat # 0 =>
         transcript[i].beat < transcript[j].beat

\* A feed stays open behind a loop that has ended only if somebody stopped the
\* loop, which emits nothing, or its last tick found no listener.
OpenFeedHasReason ==
  feed = "hooked" /\ ~loop.running => loop.stopped \/ beats \in lost

\* The scheduling: the model answers, tools return, the tab reconnects.
ChatFairness ==
  /\ WF_chatVars(StreamFails \/ LoopEnds \/ ExecuteTools)
  /\ \A id \in Ids : WF_chatVars(id \in DOMAIN calls /\
       (PersonaToolEnd(id) \/ PersonaReturns(id) \/ ToolThrows(id) \/ HeartbeatReturns(id) \/ StopHeartbeat(id)))
  /\ WF_chatVars(NextTurn) /\ WF_chatVars(Join) /\ WF_chatVars(TurnOver)

\* Every message gets its terminal status, and the composer back: through failed
\* streams, tools that throw, turns that run out and connections that drop.
TurnsOver == (pc # "idle") ~> (pc = "idle")
=============================================================================
