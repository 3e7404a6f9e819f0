----------------------------- MODULE ArtifactLog -----------------------------
(***************************************************************************)
(* The artifacts of a run and their log: runs emit artifacts (runs/        *)
(* heartbeat-runner.ts, runs/shill-market.ts), RunStore.addArtifact keeps  *)
(* and broadcasts them and appends them to ArtifactLogStore without        *)
(* waiting (runs/store.ts, state/artifact-log-store.ts), which dedupes by  *)
(* natural key (packages/shared/src/artifact-natural-key.ts) in a table    *)
(* behind the pg pool, or in a ring in memory.                             *)
(*                                                                         *)
(* An artifact is its kind, an id, and its number in the order of          *)
(* emission.  The id of an order, of its payment and of its tweet is the   *)
(* number of the order, that of a heartbeat's tweet the number of the      *)
(* tick.  Without a wallet all payments share the hash of the stub, and    *)
(* without X credentials all tweets of the heartbeat the id of the stub: 0.*)
(***************************************************************************)
EXTENDS Naturals, Sequences, FiniteSets, TLC, SequencesExt

CONSTANTS
  TickCount,    \* ticks of the heartbeat run
  OrderCount,   \* orders of shill runs
  Connections,  \* size of the pool
  RingSize      \* cap of the memory backend

ASSUME LogAssumption ==
  /\ TickCount \in Nat /\ OrderCount \in Nat
  /\ Connections \in Nat \ {0} /\ RingSize \in Nat \ {0}

VARIABLES
  pooled,     \* the backend is the table
  emitted,    \* artifacts of the runs, in the order of the broadcast
  waiting,    \* appends that wait for a connection
  busy,       \* appends on a connection
  log,        \* rows in the order of created_at, and the ring's memoryKeyIndex
  disturbed,  \* history: keys two appends of which shared the pool, or one failed
  tick,       \* the heartbeat run: ticks begun, and whether one is thinking
  order,      \* the shill orders: none, queued, judged
  config      \* whether the server has a wallet, and the keys of the X account

logVars == <<pooled, emitted, waiting, busy, log, disturbed, tick, order, config>>

Kinds == {"shill-order", "shill-tweet", "x402-tx", "tweet-url", "heartbeat-tick", "heartbeat-decision"}
LoggedArtifacts == [kind : Kinds, id : Nat, n : Nat]
Configs == [wallet : BOOLEAN, keyed : BOOLEAN]
NoKey == <<"null", 0>>

\* deriveNaturalKey.
NaturalKey(a) ==
  IF a.kind \in {"heartbeat-tick", "heartbeat-decision"} THEN NoKey ELSE <<a.kind, a.id>>

ConflictStrategy(a) ==
  CASE a.kind = "shill-order" -> "do-update"
    [] NaturalKey(a) = NoKey  -> "no-key"
    [] OTHER                  -> "do-nothing"

LogInit ==
  /\ pooled \in BOOLEAN
  /\ emitted = <<>> /\ waiting = <<>> /\ busy = {} /\ disturbed = {}
  /\ log = [rows |-> <<>>, index |-> <<>>]
  /\ tick = [begun |-> 0, thinking |-> FALSE]
  /\ order = [o \in 1..OrderCount |-> "none"] /\ config \in Configs

(***************************************************************************)
(* ArtifactLogStore.                                                       *)
(***************************************************************************)
PositionsOf(rows, key) == {i \in DOMAIN rows : NaturalKey(rows[i]) = key}

\* The rebuilt index: the last row of a key.
IndexRows(rows) ==
  [key \in {NaturalKey(rows[i]) : i \in DOMAIN rows} \ {NoKey} |->
     CHOOSE i \in PositionsOf(rows, key) : \A j \in PositionsOf(rows, key) : j <= i]

\* Slip: the index is not rebuilt when the rows move.
Evict_Unindexed(l) ==
  IF Len(l.rows) > RingSize THEN [l EXCEPT !.rows = Tail(l.rows)] ELSE l

\* Slip: off by one at the cap.
Evict_Late(l) ==
  IF Len(l.rows) > RingSize + 1
  THEN [rows |-> Tail(l.rows), index |-> IndexRows(Tail(l.rows))] ELSE l

\* Over the cap the oldest row goes, and every position changes.
Evict(l) ==
  IF Len(l.rows) > RingSize
  THEN [rows |-> Tail(l.rows), index |-> IndexRows(Tail(l.rows))] ELSE l

\* appendMemory.
AppendMemory(l, a) ==
  LET key == NaturalKey(a) IN
  IF key \in DOMAIN l.index
  THEN IF ConflictStrategy(a) = "do-update"
       THEN [l EXCEPT !.rows[l.index[key]] = a] ELSE l
  ELSE Evict([rows  |-> Append(l.rows, a),
              index |-> IF key = NoKey THEN l.index
                        ELSE [k \in DOMAIN l.index \union {key} |->
                                IF k = key THEN Len(l.rows) + 1 ELSE l.index[k]]])

\* Slip: every kind with a key is inserted with DO NOTHING.
AppendPg_Once(l, a) ==
  IF NaturalKey(a) # NoKey /\ PositionsOf(l.rows, NaturalKey(a)) # {}
  THEN l ELSE [l EXCEPT !.rows = Append(l.rows, a)]

\* appendPg: INSERT .. ON CONFLICT (natural_key).
AppendPg(l, a) ==
  LET same == PositionsOf(l.rows, NaturalKey(a)) IN
  IF NaturalKey(a) = NoKey \/ same = {}
  THEN [l EXCEPT !.rows = Append(l.rows, a)]
  ELSE IF ConflictStrategy(a) = "do-update"
       THEN [l EXCEPT !.rows = [i \in DOMAIN l.rows |-> IF i \in same THEN a ELSE l.rows[i]]]
       ELSE l

\* listRecent, newest first.
ListRecent(limit) ==
  LET n == Len(log.rows) IN
  Reverse(SubSeq(log.rows, IF n > limit THEN n - limit + 1 ELSE 1, n))

(***************************************************************************)
(* RunStore.addArtifact: kept, broadcast, and appended without waiting.    *)
(***************************************************************************)
Artifact(kind, id) == [kind |-> kind, id |-> id]

AddArtifacts(shown) ==
  LET new == [i \in DOMAIN shown |->
                [kind |-> shown[i].kind, id |-> shown[i].id, n |-> Len(emitted) + i]] IN
  /\ emitted' = emitted \o new
  /\ IF pooled
     THEN waiting' = waiting \o new /\ UNCHANGED log
     ELSE log' = FoldLeft(AppendMemory, log, new) /\ UNCHANGED waiting

\* The pool serves its queue in order, as connections get free.
GetsConnection ==
  /\ waiting # <<>> /\ Cardinality(busy) < Connections
  /\ waiting' = Tail(waiting) /\ busy' = busy \union {Head(waiting)}
  /\ disturbed' = disturbed \union
       (({NaturalKey(a) : a \in busy} \intersect {NaturalKey(Head(waiting))}) \ {NoKey})
  /\ UNCHANGED <<pooled, emitted, log, tick, order, config>>

\* Statements on several connections end in any order.
Appended(a) ==
  /\ a \in busy /\ busy' = busy \ {a}
  /\ log' = AppendPg(log, a)
  /\ UNCHANGED <<pooled, emitted, waiting, disturbed, tick, order, config>>

\* "append failed (non-fatal)".
AppendFails(a) ==
  /\ a \in busy /\ busy' = busy \ {a}
  /\ disturbed' = disturbed \union {NaturalKey(a)}
  /\ UNCHANGED <<pooled, emitted, waiting, log, tick, order, config>>

(***************************************************************************)
(* The runs.                                                               *)
(***************************************************************************)
\* runHeartbeatDemo shows a tick before it asks the model.
TickStarts ==
  /\ tick.begun < TickCount /\ ~tick.thinking
  /\ tick' = [begun |-> tick.begun + 1, thinking |-> TRUE]
  /\ AddArtifacts(<<Artifact("heartbeat-tick", 0)>>)
  /\ UNCHANGED <<pooled, busy, disturbed, order, config>>

\* A decision, a tweet if post_to_x has answered; nothing if the loop threw.
ParseTickDecision ==
  LET decision == Artifact("heartbeat-decision", 0)
      tweet    == Artifact("tweet-url", IF config.keyed THEN tick.begun ELSE 0)
  IN  {<<>>, <<decision>>, <<decision, tweet>>}

TickEnds ==
  /\ tick.thinking /\ tick' = [tick EXCEPT !.thinking = FALSE]
  /\ \E shown \in ParseTickDecision : AddArtifacts(shown)
  /\ UNCHANGED <<pooled, busy, disturbed, order, config>>

\* runShillMarketDemo shows the payment and the queued order, ...
OrderQueued(o) ==
  /\ order[o] = "none" /\ \A p \in 1..(o - 1) : order[p] # "none"
  /\ order' = [order EXCEPT ![o] = "queued"]
  /\ AddArtifacts(<<Artifact("x402-tx", IF config.wallet THEN o ELSE 0), Artifact("shill-order", o)>>)
  /\ UNCHANGED <<pooled, busy, disturbed, tick, config>>

\* ... and then the tweet and the order done, or the order failed, under the same
\* key; without the keys of the account it throws instead.
OrderJudged(o) ==
  /\ config.keyed /\ order[o] = "queued"
  /\ order' = [order EXCEPT ![o] = "judged"]
  /\ \/ AddArtifacts(<<Artifact("shill-tweet", o), Artifact("shill-order", o)>>)
     \/ AddArtifacts(<<Artifact("shill-order", o)>>)
  /\ UNCHANGED <<pooled, busy, disturbed, tick, config>>

LogNext ==
  \/ TickStarts \/ TickEnds
  \/ \E o \in 1..OrderCount : OrderQueued(o) \/ OrderJudged(o)
  \/ GetsConnection
  \/ \E a \in busy : Appended(a) \/ AppendFails(a)

LogSpec == LogInit /\ [][LogNext]_logVars

(***************************************************************************)
(* What must hold.                                                         *)
(***************************************************************************)
\* The ring finds the row of every key it holds and of no other, whatever has
\* been shifted out: an update never lands on a row of something else, and no
\* key has two rows.
RingIndexed ==
  ~pooled => /\ log.index = IndexRows(log.rows)
             /\ \A key \in DOMAIN log.index : Cardinality(PositionsOf(log.rows, key)) = 1

\* The table never has two rows of a key, and when nothing is left to append it
\* holds everything that was emitted, an updated row in the last version, unless two
\* appends of the key were on connections at once or one failed; what has no key is
\* only lost when an append fails.
LogSettles ==
  pooled =>
    /\ \A i, j \in DOMAIN log.rows :
         i # j /\ NaturalKey(log.rows[i]) = NaturalKey(log.rows[j]) => NaturalKey(log.rows[i]) = NoKey
    /\ waiting = <<>> /\ busy = {} =>
         \A i \in DOMAIN emitted : NaturalKey(emitted[i]) \notin disturbed =>
           \E j \in DOMAIN log.rows :
             /\ NaturalKey(log.rows[j]) = NaturalKey(emitted[i])
             /\ ConflictStrategy(emitted[i]) = "do-update" => log.rows[j].n >= emitted[i].n
             /\ ConflictStrategy(emitted[i]) = "no-key" => log.rows[j] = emitted[i]
=============================================================================
