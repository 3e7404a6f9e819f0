------------------------------ MODULE RunStream ------------------------------
(***************************************************************************)
(* Runs and their event streams: RunStore (apps/server/src/runs/store.ts)  *)
(* and the routes that create a run and stream it over SSE                 *)
(* (runs/routes.ts).  Everything here is synchronous in one Node process,  *)
(* so an action is a whole handler; what interleaves is the orchestrators  *)
(* of several runs, the connections, and the end of the process.           *)
(*                                                                         *)
(* An event is its kind and its number among those of the run: text,       *)
(* agents and payloads steer nothing.  Logs and artifacts are buffered in  *)
(* the record; streaming events (tool_use, assistant:delta) are not.       *)
(***************************************************************************)
EXTENDS Naturals, Sequences, FiniteSets, SequencesExt

CONSTANTS
  Runs,       \* run ids, fresh UUIDs: a run exists once
  Tokens,     \* token addresses, lower-cased
  TokenOf,    \* the address a run is created for, or NoToken (brain-chat)
  NoToken,
  Conns,      \* GET /api/runs/:id/events requests
  MaxEvents,  \* bound: events of each run
  MaxCrashes  \* bound: process restarts

ASSUME StreamAssumption ==
  /\ NoToken \notin Tokens
  /\ TokenOf \in [Runs -> Tokens \union {NoToken}]
  /\ MaxEvents \in [Runs -> Nat] /\ MaxCrashes \in Nat

Buffered == {"log", "artifact"}
Kinds    == Buffered \union {"stream"}
Active   == {"running"}
Terminal == {"done", "error"}
Statuses == Active \union Terminal

VARIABLES
  status,   \* of the record; "none" before it exists, "lost" once the process died
  made,     \* events of each kind produced in the run
  conn,     \* what a connection was opened for and what was written to it
  crashes,
  atEnd     \* history: events made when the run reached its terminal status

recordVars == <<status, made, atEnd>>
streamVars == <<recordVars, conn, crashes>>

Event(k, n) == [kind |-> k, n |-> n]
Events      == [kind : Kinds \union Statuses, n : Nat]

\* up: the client's end of the socket; hooked: the listener is on the run's
\* emitter; terminated: the route has torn the stream down.
Conn == [run : Runs, up : BOOLEAN, hooked : BOOLEAN, terminated : BOOLEAN, sent : Seq(Events)]

Unused == [up |-> FALSE, hooked |-> FALSE, terminated |-> TRUE, sent |-> <<>>]
Used(c) == conn[c] # Unused

NoEvents == [k \in Kinds |-> 0]

StreamTypeOK ==
  /\ status \in [Runs -> {"none", "lost"} \union Statuses]
  /\ made \in [Runs -> [Kinds -> Nat]] /\ atEnd \in [Runs -> [Kinds -> Nat]]
  /\ \A r \in Runs, k \in Kinds : atEnd[r][k] <= made[r][k] /\ made[r][k] <= MaxEvents[r]
  /\ conn \in [Conns -> Conn \union {Unused}]
  /\ crashes \in 0..MaxCrashes

StreamInit ==
  /\ status = [r \in Runs |-> "none"]
  /\ made = [r \in Runs |-> NoEvents] /\ atEnd = [r \in Runs |-> NoEvents]
  /\ conn = [c \in Conns |-> Unused]
  /\ crashes = 0

-----------------------------------------------------------------------------
\* One event to one stream: the route writes it and, on a terminal status,
\* unhooks the listener and ends the response.
Write(s, e) ==
  IF s.terminated THEN s
  ELSE [s EXCEPT !.sent = Append(@, e),
                 !.terminated = e.kind \in Terminal,
                 !.hooked = @ /\ e.kind \notin Terminal]

\* emit: every listener of the run's emitter.
Emit(r, e) ==
  conn' = [c \in Conns |->
             IF Used(c) /\ conn[c].run = r /\ conn[c].hooked THEN Write(conn[c], e)
             ELSE conn[c]]

\* Slip: only a run that has not started counts as busy.
BusyPending(t) ==
  t # NoToken /\ \E r \in Runs : TokenOf[r] = t /\ status[r] = "pending"

\* The mutex of tryCreate, for a run created for a token.
Busy(t) == t # NoToken /\ \E r \in Runs : TokenOf[r] = t /\ status[r] \in Active

\* POST /api/runs, past validation.  The orchestrator's synchronous part sets
\* the run running in the same turn of the event loop, or throws on a missing
\* secret and the run is over.
Create(r) ==
  /\ status[r] = "none" /\ ~Busy(TokenOf[r])
  /\ \E s \in {"running", "error"} : status' = [status EXCEPT ![r] = s]
  /\ UNCHANGED <<made, atEnd, conn, crashes>>

\* addLog, addArtifact, addToolUseStart/End, addAssistantDelta.  A background
\* heartbeat keeps calling them on the run that started it after it is over.
AddEvent(r, k) ==
  /\ status[r] \in Statuses
  /\ made[r]["log"] + made[r]["artifact"] + made[r]["stream"] < MaxEvents[r]
  /\ made' = [made EXCEPT ![r][k] = @ + 1]
  /\ Emit(r, Event(k, made[r][k] + 1))
  /\ UNCHANGED <<status, atEnd, crashes>>

\* setStatus to a terminal status when the orchestrator returns or throws.
Finish(r) ==
  /\ status[r] \in Active
  /\ \E s \in Terminal : /\ status' = [status EXCEPT ![r] = s]
                         /\ Emit(r, Event(s, 0))
  /\ atEnd' = [atEnd EXCEPT ![r] = made[r]]
  /\ UNCHANGED <<made, crashes>>

-----------------------------------------------------------------------------
Numbered(k, n) == [i \in 1..n |-> Event(k, i)]

\* Slip: a run that is over replays no status.
ReplayUnended(r) ==
  Numbered("log", made[r]["log"]) \o Numbered("artifact", made[r]["artifact"])
    \o IF status[r] \in Active THEN <<Event(status[r], 0)>> ELSE <<>>

\* Slip: the replay stops short of the newest artifact.
ReplayShort(r) ==
  Numbered("log", made[r]["log"])
    \o Numbered("artifact", IF made[r]["artifact"] = 0 THEN 0 ELSE made[r]["artifact"] - 1)
    \o <<Event(status[r], 0)>>

\* subscribe: the buffered logs, then the artifacts, then the status.
Replay(r) ==
  Numbered("log", made[r]["log"]) \o Numbered("artifact", made[r]["artifact"])
    \o <<Event(status[r], 0)>>

\* The route of a run on record.  A terminal status in the replay tears the
\* stream down before subscribe has returned its unsubscribe, so the listener
\* it installs next stays.
Subscribe(c, r) ==
  /\ ~Used(c) /\ status[r] \in Statuses
  /\ conn' = [conn EXCEPT ![c] =
       [run |-> r, up |-> TRUE, hooked |-> TRUE,
        terminated |-> status[r] \in Terminal, sent |-> Replay(r)]]
  /\ UNCHANGED <<recordVars, crashes>>

\* Slip: the close handler stops writing but leaves the listener.
HangUpHooked(c) ==
  /\ Used(c) /\ ~conn[c].up /\ ~conn[c].terminated
  /\ conn' = [conn EXCEPT ![c].terminated = TRUE]
  /\ UNCHANGED <<recordVars, crashes>>

\* The server notices that the client is gone: teardown.
HangUp(c) ==
  /\ Used(c) /\ ~conn[c].up /\ ~conn[c].terminated
  /\ conn' = [conn EXCEPT ![c].terminated = TRUE, ![c].hooked = FALSE]
  /\ UNCHANGED <<recordVars, crashes>>

\* The client's end of the socket goes: closed by it, or dropped.
SocketGone(c) == conn' = [conn EXCEPT ![c].up = FALSE]

\* Records and sockets are in memory.
ServerDies ==
  /\ crashes < MaxCrashes /\ crashes' = crashes + 1
  /\ status' = [r \in Runs |-> IF status[r] = "none" THEN "none" ELSE "lost"]
  /\ conn' = [c \in Conns |->
       IF Used(c) THEN [conn[c] EXCEPT !.up = FALSE, !.hooked = FALSE, !.terminated = TRUE]
       ELSE conn[c]]
  /\ UNCHANGED <<made, atEnd>>

RunStep(r) == (\E k \in Kinds : AddEvent(r, k)) \/ Finish(r)

-----------------------------------------------------------------------------
\* The numbers of the events of kind k in s, and that they come in ascending
\* order without a repetition.
Carried(s, k) == {s[i].n : i \in {j \in 1..Len(s) : s[j].kind = k}}
Ascending(s, k) ==
  \A i, j \in 1..Len(s) : i < j /\ s[i].kind = k /\ s[j].kind = k => s[i].n < s[j].n

\* A token is never worked on by two runs at once (tryCreate).
OneRunPerToken ==
  \A r1, r2 \in Runs :
    (r1 # r2 /\ TokenOf[r1] = TokenOf[r2] /\ TokenOf[r1] # NoToken)
      => ~(status[r1] \in Active /\ status[r2] \in Active)

\* Whenever it joins, a stream carries the buffered events of its run without
\* a gap or a repetition: all of them as long as it is hooked to a live run,
\* and, when a terminal status closed it, at least those the run ended with.
\* Nothing follows the terminal status (subscribe, emit, teardown).
StreamsFaithful ==
  \A c \in {d \in Conns : Used(d)} :
    LET s == conn[c].sent
        r == conn[c].run
    IN /\ \A k \in Buffered :
            /\ Ascending(s, k)
            /\ \E n \in 0..made[r][k] : Carried(s, k) = 1..n
            /\ ~conn[c].terminated => Carried(s, k) = 1..made[r][k]
            /\ Last(s).kind \in Terminal => 1..atEnd[r][k] \subseteq Carried(s, k)
       /\ \A i \in 1..Len(s) : s[i].kind \in Terminal => i = Len(s)

\* A listener outlives its stream only if the run was already over when the
\* stream was opened (teardown before subscribe returned); every other way a
\* stream ends releases it.
LeaksOnlyFromReplay ==
  \A c \in Conns : (Used(c) /\ conn[c].terminated /\ conn[c].hooked)
    => Last(conn[c].sent).kind \in Terminal

=============================================================================
