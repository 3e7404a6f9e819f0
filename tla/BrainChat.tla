------------------------------ MODULE BrainChat ------------------------------
(***************************************************************************)
(* One browser tab of the dashboard's chat on top of RunStream: the        *)
(* useBrainChat hook (apps/web/src/hooks/useBrainChat.ts) behind the       *)
(* composer of apps/web/src/components/brain-chat.tsx, its POST, and its   *)
(* EventSource, which reconnects by itself after a dropped connection and  *)
(* gives up on an HTTP error.                                              *)
(*                                                                         *)
(* Chat number n is the n-th message sent and the run it starts; jobs are  *)
(* runs that other clients start (launch, heartbeat, shill-market).        *)
(***************************************************************************)
EXTENDS RunStream

CONSTANTS
  MaxChats,  \* bound: messages sent
  Jobs,      \* runs of other clients
  MaxDrops   \* bound: connections dropped and POST answers lost

Chats == 1..MaxChats

ASSUME ChatAssumption ==
  /\ MaxChats \in Nat \ {0} /\ MaxDrops \in Nat
  /\ Runs = Chats \union Jobs
  /\ \A n \in Chats : TokenOf[n] = NoToken
  /\ Conns \subseteq Nat \ {0}   \* numbered in the order the tab opens them

VARIABLES
  chat,   \* messages sent so far
  phase,  \* state.status of the hook
  post,   \* POST /api/runs: its request or its answer is on the way
  es,     \* the EventSource in esRef: none, connecting or open
  cur,    \* connection of the open EventSource
  got,    \* events dispatched from it
  turn,   \* per chat: events shown in its assistant turn, and its end
  drops

hookVars == <<chat, phase, post, es, cur, got, turn>>
vars == <<streamVars, hookVars, drops>>

NoConn == 0

TypeOK ==
  /\ StreamTypeOK
  /\ chat \in 0..MaxChats
  /\ phase \in {"idle", "sending", "streaming", "error"}
  /\ post \in {"none", "asked", "answered", "broken"}
  /\ es \in {"none", "connecting", "open"}
  /\ cur \in Conns \union {NoConn}
  /\ (es = "open") = (cur # NoConn)
  /\ got \in Nat
  /\ turn \in [Chats -> Seq(Events)]
  /\ drops \in 0..MaxDrops

Init ==
  /\ StreamInit
  /\ chat = 0 /\ phase = "idle" /\ post = "none"
  /\ es = "none" /\ cur = NoConn /\ got = 0
  /\ turn = [n \in Chats |-> <<>>]
  /\ drops = 0

Drops == drops < MaxDrops /\ drops' = drops + 1

-----------------------------------------------------------------------------
\* The composer submits unless a message is under way; send's own guards
\* (sendingRef, esRef) come after it.
Send ==
  /\ phase \in {"idle", "error"} /\ post = "none" /\ es = "none"
  /\ chat < MaxChats /\ chat' = chat + 1
  /\ phase' = "sending" /\ post' = "asked"
  /\ UNCHANGED <<streamVars, es, cur, got, turn, drops>>

\* /reset goes through the same composer: an empty transcript.
Reset ==
  /\ phase \in {"idle", "error"}
  /\ phase' = "idle" /\ turn' = [n \in Chats |-> <<>>]
  /\ UNCHANGED <<streamVars, chat, post, es, cur, got, drops>>

PostArrives ==
  /\ post = "asked" /\ Create(chat)
  /\ post' = "answered"
  /\ UNCHANGED <<chat, phase, es, cur, got, turn, drops>>

PostAnswered ==
  /\ post = "answered"
  /\ post' = "none" /\ phase' = "streaming" /\ es' = "connecting"
  /\ UNCHANGED <<streamVars, chat, cur, got, turn, drops>>

\* The request or its answer is lost; the run, if there is one, goes on.
PostFailed ==
  /\ \/ post = "broken" /\ UNCHANGED drops
     \/ post \in {"asked", "answered"} /\ Drops
  /\ post' = "none" /\ phase' = "error"
  /\ UNCHANGED <<streamVars, chat, es, cur, got, turn>>

-----------------------------------------------------------------------------
\* The GET of the EventSource arrives and the route answers with a stream.
EsOpens ==
  /\ es = "connecting"
  /\ \E c \in Conns : /\ \A d \in 1..(c - 1) : Used(d)
                      /\ Subscribe(c, chat) /\ cur' = c
  /\ es' = "open" /\ got' = 0
  /\ UNCHANGED <<chat, phase, post, turn, drops>>

\* 404, the run is not on record: readyState CLOSED, and the error listener
\* clears esRef.
EsRefused ==
  /\ es = "connecting" /\ status[chat] \notin Statuses
  /\ es' = "none"
  /\ UNCHANGED <<streamVars, chat, phase, post, cur, got, turn, drops>>

\* Slip: the EventSource is closed but stays in esRef.
SettleKept(e) ==
  IF e.kind \in Terminal
    THEN phase' = (IF e.kind = "done" THEN "idle" ELSE "error")
         /\ cur' = NoConn /\ SocketGone(cur) /\ UNCHANGED es
    ELSE UNCHANGED <<phase, es, cur, conn>>

\* A status event: a terminal one ends the turn and closes the EventSource.
Settle(e) ==
  IF e.kind \in Terminal
    THEN /\ phase' = (IF e.kind = "done" THEN "idle" ELSE "error")
         /\ es' = "none" /\ cur' = NoConn /\ SocketGone(cur)
    ELSE UNCHANGED <<phase, es, cur, conn>>

\* The next event of the open connection is dispatched into the active turn.
EsReceives ==
  /\ es = "open" /\ conn[cur].up /\ got < Len(conn[cur].sent)
  /\ LET e == conn[cur].sent[got + 1]
     IN /\ Settle(e)
        /\ turn' = IF e.kind \in Active THEN turn ELSE [turn EXCEPT ![chat] = Append(@, e)]
  /\ got' = got + 1
  /\ UNCHANGED <<recordVars, crashes, chat, post, drops>>

\* The connection drops under the EventSource.
EsDropped ==
  /\ es = "open" /\ conn[cur].up /\ Drops
  /\ SocketGone(cur)
  /\ UNCHANGED <<recordVars, crashes, hookVars>>

\* What was not dispatched is lost, and the browser reconnects.
EsReconnects ==
  /\ es = "open" /\ ~conn[cur].up
  /\ es' = "connecting" /\ cur' = NoConn
  /\ UNCHANGED <<streamVars, chat, phase, post, got, turn, drops>>

Crash ==
  /\ ServerDies
  /\ post' \in {post, IF post = "none" THEN "none" ELSE "broken"}
  /\ UNCHANGED <<chat, phase, es, cur, got, turn, drops>>

-----------------------------------------------------------------------------
Hook ==
  \/ PostArrives \/ PostAnswered \/ PostFailed
  \/ EsOpens \/ EsRefused \/ EsReceives \/ EsReconnects

\* Other clients start runs.
Others ==
  /\ \E j \in Jobs : Create(j)
  /\ UNCHANGED <<hookVars, drops>>

Server ==
  /\ (\E r \in Runs : RunStep(r)) \/ (\E c \in Conns : HangUp(c))
  /\ UNCHANGED <<hookVars, drops>>

Next == Send \/ Reset \/ Hook \/ EsDropped \/ Crash \/ Others \/ Server

Spec == Init /\ [][Next]_vars

\* An orchestrator ends (its model calls are bounded in number and time out),
\* the network delivers, and a browser retries.
Fairness ==
  /\ \A n \in Chats : WF_vars(Finish(n) /\ UNCHANGED <<hookVars, drops>>)
  /\ WF_vars(Hook)

FairSpec == Spec /\ Fairness

-----------------------------------------------------------------------------
\* The turn of chat n shows the run's events of kind k from the first on, each
\* once and in order.
InOrder(n, k) ==
  Ascending(turn[n], k) /\ \E m \in 0..made[n][k] : Carried(turn[n], k) = 1..m

Finished(n) == turn[n] # <<>> /\ Last(turn[n]).kind \in Terminal

\* A turn that ended shows every log and artifact its run ended with, through
\* any number of reconnections; with none it shows each once and in order
\* (subscribe's replay, activeAssistantIdRef).
TurnsComplete ==
  \A n \in Chats : Finished(n) =>
    \A k \in Buffered :
      /\ 1..atEnd[n][k] \subseteq Carried(turn[n], k)
      /\ drops = 0 => InOrder(n, k)

\* As long as the server stays up, a turn that streams ends.
TurnsEnd == (phase = "streaming") ~> (phase # "streaming" \/ crashes > 0)

\* What the header of store.ts says of late joiners, who need no Last-Event-ID.
ShownOnce ==
  \A n \in Chats : Finished(n) =>
    \A k \in Buffered : InOrder(n, k)

\* What the hook's error listener says: the hook never wedges.
NeverWedged == phase \in {"sending", "streaming"} => post # "none" \/ es # "none"

=============================================================================
