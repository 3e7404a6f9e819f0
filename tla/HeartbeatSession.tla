-------------------------- MODULE HeartbeatSession --------------------------
(***************************************************************************)
(* The background heartbeat of ONE token: HeartbeatSessionStore            *)
(* (apps/server/src/state/heartbeat-session-store.ts), the two tools that  *)
(* drive it (invoke_heartbeat_tick and stop_heartbeat of                   *)
(* apps/server/src/tools/invoke-persona.ts), the Postgres row behind it    *)
(* and the boot of the server process.  Keys of the store do not interact, *)
(* so a token is left implicit.                                            *)
(*                                                                         *)
(* Node runs one callback at a time: an action below is the code between   *)
(* two awaits.  A process is a tool call (Clients) or an interval callback *)
(* (Fires); pc names the await it is suspended at.                         *)
(*                                                                         *)
(* A tick's outcome (success or error, action, reason) steers nothing in   *)
(* the store, so sess keeps the counts of executed and of skipped ticks    *)
(* only, and a recent tick is the number of the run that began it.         *)
(***************************************************************************)
EXTENDS Naturals, Sequences, FiniteSets

CONSTANTS
  Clients,         \* concurrent tool calls of any chat run
  Fires,           \* concurrently live interval callbacks
  Intervals,       \* values of intervalMs a caller passes
  Caps,            \* values of maxTicks a caller passes
  Omitted,         \* an optional argument left out
  DefaultMaxTicks, \* DEFAULT_HEARTBEAT_MAX_TICKS
  FireMultiplier,  \* MAX_FIRE_ATTEMPTS_MULTIPLIER
  RingLimit,       \* RECENT_TICKS_LIMIT
  PoolMax,         \* connections of the pg pool (PG_POOL_MAX)
  NoRow,           \* heartbeat_sessions has no row for the token
  MaxRuns,         \* bound: runs of the loop started
  MaxCrashes,      \* bound: process restarts
  MaxFailures      \* bound: queries that fail

Procs == Clients \union Fires
Runs  == 1..MaxRuns

ASSUME HeartbeatAssumption ==
  /\ IsFiniteSet(Clients) /\ IsFiniteSet(Fires)
  /\ Clients \intersect Fires = {}
  /\ Intervals # {} /\ Omitted \notin Intervals
  /\ Caps \subseteq Nat \ {0} /\ Omitted \notin Caps
  /\ DefaultMaxTicks \in Nat \ {0}
  /\ FireMultiplier \in Nat \ {0}
  /\ RingLimit \in Nat \ {0}
  /\ PoolMax \in Nat \ {0}
  /\ MaxRuns \in Nat \ {0}
  /\ MaxCrashes \in Nat /\ MaxFailures \in Nat

VARIABLES
  known,     \* the sessions map holds an entry for the token
  sess,      \* that entry's snapshotOf
  inFlight,  \* its tickInFlight flag
  timer,     \* its timer is installed
  orphans,   \* intervals still installed by entries since replaced in the map
  allocs,    \* entries put in the map by this process
  ring,      \* recentTicksByToken
  row,       \* the heartbeat_sessions row
  wire,      \* processes whose query is on a connection of the pool
  queue,     \* processes whose query waits for a connection, in order
  pc, arg, saw, began, saving,  \* per process: await, arguments, existing, tick's run, snapshot
  runs,      \* runs started so far: startedAt is the number of the run
  begun,     \* history: ticks begun in each run
  capHigh,   \* history: largest maxTicks each run has had
  crashes, failures

sessionVars == <<known, sess, inFlight, timer, orphans, allocs, ring>>
dbVars      == <<row, wire, queue>>
procVars    == <<pc, arg, saw, began, saving>>
historyVars == <<runs, begun, capHigh>>
boundVars   == <<crashes, failures>>
vars == <<sessionVars, dbVars, procVars, historyVars, boundVars>>

Snapshot ==
  [interval : Intervals, startedAt : Nat, running : BOOLEAN, maxTicks : Nat \ {0},
   ticks : Nat, skipped : Nat]

Args == [interval : Intervals \union {Omitted}, max : Caps \union {Omitted}]

NoArgs == [interval |-> Omitted, max |-> Omitted]

\* Slip: the interval and the cap swapped.
FreshRunSwapped(iv, max, run) ==
  [interval |-> max, startedAt |-> run, running |-> TRUE, maxTicks |-> iv,
   ticks |-> 0, skipped |-> 0]

\* A new run: running, every counter zero (the literal of start's fresh
\* branch, and what its wasStopped branch resets).
FreshRun(iv, max, run) ==
  [interval |-> iv, startedAt |-> run, running |-> TRUE, maxTicks |-> max,
   ticks |-> 0, skipped |-> 0]

\* What stands in sess while the map has no entry.
Blank == [FreshRun(CHOOSE i \in Intervals : TRUE, DefaultMaxTicks, 0)
            EXCEPT !.running = FALSE]

TypeOK ==
  /\ known \in BOOLEAN /\ inFlight \in BOOLEAN /\ timer \in BOOLEAN
  /\ sess \in Snapshot
  /\ orphans \in Nat /\ allocs \in Nat
  /\ ring \in Seq(Nat)
  /\ row \in Snapshot \union {NoRow}
  /\ wire \in SUBSET Procs /\ queue \in Seq(Procs)
  /\ pc \in [Procs -> {"idle", "get", "start", "load", "startSave", "tick", "run",
                       "tickSave", "skipSave", "oneShot", "stopLoad", "stopSave"}]
  /\ arg \in [Procs -> Args]
  /\ \A p \in Procs : pc[p] = "load" => arg[p].interval # Omitted
  /\ saw \in [Procs -> BOOLEAN]
  /\ began \in [Procs -> Nat]
  /\ saving \in [Procs -> Snapshot]
  /\ runs \in 0..MaxRuns
  /\ begun \in [Runs -> Nat] /\ capHigh \in [Runs -> Nat]
  /\ crashes \in 0..MaxCrashes /\ failures \in 0..MaxFailures

-----------------------------------------------------------------------------
Init ==
  /\ known = FALSE /\ sess = Blank /\ inFlight = FALSE /\ timer = FALSE
  /\ orphans = 0 /\ allocs = 0 /\ ring = <<>>
  /\ row = NoRow /\ wire = {} /\ queue = <<>>
  /\ pc = [p \in Procs |-> "idle"]
  /\ arg = [p \in Procs |-> NoArgs]
  /\ saw = [p \in Procs |-> FALSE]
  /\ began = [p \in Procs |-> 0]
  /\ saving = [p \in Procs |-> Blank]
  /\ runs = 0 /\ begun = [r \in Runs |-> 0] /\ capHigh = [r \in Runs |-> 0]
  /\ crashes = 0 /\ failures = 0

-----------------------------------------------------------------------------
\* The pool: a query takes a free connection or waits its turn; those on a
\* connection run concurrently and finish in any order.
Saves(p) == pc[p] \in {"startSave", "tickSave", "skipSave", "stopSave"}

Goto(p, at) == pc' = [pc EXCEPT ![p] = at]

\* p's query is answered; the next one waiting gets its connection.
Release(p) ==
  \/ /\ queue = <<>>
     /\ wire' = wire \ {p} /\ UNCHANGED queue
  \/ /\ queue # <<>>
     /\ wire' = (wire \ {p}) \union {Head(queue)} /\ queue' = Tail(queue)

\* p issues a query, in the step that consumed the answer of its last one (it
\* then queues behind those already waiting) or in a step of its own.
Query(p) ==
  IF p \in wire
  THEN \/ queue = <<>> /\ UNCHANGED <<wire, queue>>
       \/ /\ queue # <<>>
          /\ wire' = (wire \ {p}) \union {Head(queue)}
          /\ queue' = Append(Tail(queue), p)
  ELSE \/ Cardinality(wire) < PoolMax /\ wire' = wire \union {p} /\ UNCHANGED queue
       \/ Cardinality(wire) >= PoolMax /\ queue' = Append(queue, p) /\ UNCHANGED wire

\* Slip: the snapshot is taken before the mutation.
PersistBefore(p, snap, at) ==
  /\ Goto(p, at) /\ Query(p)
  /\ saving' = [saving EXCEPT ![p] = sess]

\* await this.persist(session): the snapshot is taken when the query is issued.
Persist(p, snap, at) ==
  /\ Goto(p, at) /\ Query(p)
  /\ saving' = [saving EXCEPT ![p] = snap]

\* hydrateFromSnapshot, and the fresh branch of start: a new entry replaces
\* whatever the map holds.  The replaced entry's interval is not cleared.
ReplaceEntry ==
  /\ known' = TRUE
  /\ allocs' = allocs + 1
  /\ orphans' = orphans + (IF timer THEN 1 ELSE 0)
  /\ inFlight' = FALSE

HigherOf(a, b) == IF a >= b THEN a ELSE b

\* resolveMaxTicks; a cap that is not a positive integer is refused by the
\* tool's input schema, so only the omitted one is left.
ResolveMaxTicks(max) == IF max = Omitted THEN DefaultMaxTicks ELSE max

-----------------------------------------------------------------------------
\* start: one operator per branch.  RefreshRun and RetimeRun keep the run,
\* BeginRun starts a new one.
RefreshRun(c) ==
  LET max == IF arg[c].max = Omitted THEN sess.maxTicks ELSE arg[c].max
  IN /\ sess.running /\ sess.interval = arg[c].interval
     /\ sess' = [sess EXCEPT !.maxTicks = max]
     /\ capHigh' = [capHigh EXCEPT ![sess.startedAt] = HigherOf(@, max)]
     /\ UNCHANGED <<known, inFlight, timer, orphans, allocs, ring, runs, begun>>

\* Slip: the old interval is cleared, the new one never installed.
RetimeRunUntimed(c) ==
  /\ sess.running /\ sess.interval # arg[c].interval
  /\ sess' = [sess EXCEPT !.interval = arg[c].interval]
  /\ timer' = FALSE
  /\ UNCHANGED <<known, inFlight, orphans, allocs, ring, runs, begun, capHigh>>

RetimeRun(c) ==
  LET max == IF arg[c].max = Omitted THEN sess.maxTicks ELSE arg[c].max
  IN /\ sess.running /\ sess.interval # arg[c].interval
     /\ sess' = [sess EXCEPT !.maxTicks = max, !.interval = arg[c].interval]
     /\ timer' = TRUE
     /\ capHigh' = [capHigh EXCEPT ![sess.startedAt] = HigherOf(@, max)]
     /\ UNCHANGED <<known, inFlight, orphans, allocs, ring, runs, begun>>

\* A run numbered by its startedAt.
BeginRun(c, max) ==
  /\ runs < MaxRuns
  /\ runs' = runs + 1
  /\ sess' = FreshRun(arg[c].interval, max, runs + 1)
  /\ timer' = TRUE
  /\ begun' = [begun EXCEPT ![runs + 1] = 0]
  /\ capHigh' = [capHigh EXCEPT ![runs + 1] = max]

\* Slip: a restart also resets the overlap guard.
ReviveRunUnguarded(c) ==
  /\ ~sess.running
  /\ BeginRun(c, IF arg[c].max = Omitted THEN sess.maxTicks ELSE arg[c].max)
  /\ ring' = <<>> /\ inFlight' = FALSE
  /\ UNCHANGED <<known, orphans, allocs>>

\* Slip: the recent ticks are left to stop alone.
ReviveRunUnwiped(c) ==
  /\ ~sess.running
  /\ BeginRun(c, IF arg[c].max = Omitted THEN sess.maxTicks ELSE arg[c].max)
  /\ UNCHANGED <<known, inFlight, orphans, allocs, ring>>

\* The restart of a stopped entry the map already holds: its tickInFlight is
\* left as it is, the recent ticks are wiped.
ReviveRun(c) ==
  /\ ~sess.running
  /\ BeginRun(c, IF arg[c].max = Omitted THEN sess.maxTicks ELSE arg[c].max)
  /\ ring' = <<>>
  /\ UNCHANGED <<known, inFlight, orphans, allocs>>

\* Bound: every call under way can still start a run.
RunBudget == runs + Cardinality({c \in Clients : pc[c] \in {"get", "start", "load"}}) < MaxRuns

\* invoke_heartbeat_tick: read `existing` first (sessionStore.get).
Invoke(c) ==
  /\ pc[c] = "idle" /\ RunBudget
  /\ \E a \in Args : arg' = [arg EXCEPT ![c] = a]
  /\ IF known
     THEN /\ Goto(c, "start") /\ saw' = [saw EXCEPT ![c] = TRUE]
          /\ UNCHANGED <<wire, queue>>
     ELSE Goto(c, "get") /\ Query(c) /\ UNCHANGED saw
  /\ UNCHANGED <<sessionVars, row, began, saving, historyVars, boundVars>>

\* The row of a cold get arrives.
GetLoaded(c) ==
  /\ pc[c] = "get" /\ c \in wire
  /\ Release(c) /\ Goto(c, "start")
  /\ saw' = [saw EXCEPT ![c] = row # NoRow]
  /\ UNCHANGED <<sessionVars, row, arg, began, saving, historyVars, boundVars>>

Return(c) ==
  /\ Goto(c, "idle")
  /\ arg' = [arg EXCEPT ![c] = NoArgs]
  /\ saw' = [saw EXCEPT ![c] = FALSE]

\* Branch 1 (no interval, a session): hand back the snapshot.
SnapshotOnly(c) ==
  /\ pc[c] = "start" /\ arg[c].interval = Omitted /\ saw[c]
  /\ Return(c)
  /\ UNCHANGED <<sessionVars, dbVars, began, saving, historyVars, boundVars>>

\* Branch 2 (no interval, no session): one persona run past the store.
OneShot(c) ==
  /\ pc[c] = "start" /\ arg[c].interval = Omitted /\ ~saw[c]
  /\ Goto(c, "oneShot")
  /\ UNCHANGED <<sessionVars, dbVars, arg, saw, began, saving, historyVars, boundVars>>

OneShotDone(c) ==
  /\ pc[c] = "oneShot"
  /\ Return(c)
  /\ UNCHANGED <<sessionVars, dbVars, began, saving, historyVars, boundVars>>

\* Branch 3: start with an entry in the map.
StartWarm(c) ==
  /\ pc[c] = "start" /\ arg[c].interval # Omitted /\ known
  /\ RefreshRun(c) \/ RetimeRun(c) \/ ReviveRun(c)
  /\ Persist(c, sess', "startSave")
  /\ UNCHANGED <<row, arg, saw, began, boundVars>>

\* Branch 3: start with no entry in the map waits for the row ...
StartCold(c) ==
  /\ pc[c] = "start" /\ arg[c].interval # Omitted /\ ~known
  /\ Goto(c, "load") /\ Query(c)
  /\ UNCHANGED <<sessionVars, row, arg, saw, began, saving, historyVars, boundVars>>

\* ... and resumes with whatever row it saw, not with the map as it now is: a
\* hydrated entry is a stopped one, so it restarts; no row makes a fresh entry,
\* and that branch does not wipe the recent ticks.
StartLoaded(c) ==
  /\ pc[c] = "load" /\ c \in wire
  /\ ReplaceEntry
  /\ \/ /\ row = NoRow
        /\ BeginRun(c, ResolveMaxTicks(arg[c].max))
        /\ UNCHANGED ring
     \/ /\ row # NoRow
        /\ BeginRun(c, IF arg[c].max = Omitted THEN row.maxTicks ELSE arg[c].max)
        /\ ring' = <<>>
  /\ Persist(c, sess', "startSave")
  /\ UNCHANGED <<row, arg, saw, began, boundVars>>

-----------------------------------------------------------------------------
\* Slip: the interval is left installed.
StopEntryTimed(c, s) ==
  /\ sess' = [s EXCEPT !.running = FALSE]
  /\ ring' = <<>>
  /\ Persist(c, sess', "stopSave")
  /\ UNCHANGED <<timer, row, arg, saw, began, historyVars, boundVars>>

\* stop: the timer of the entry the map holds is cleared, the recent ticks are
\* wiped, and an unfinished tick goes on.
StopEntry(c, s) ==
  /\ sess' = [s EXCEPT !.running = FALSE]
  /\ timer' = FALSE
  /\ ring' = <<>>
  /\ Persist(c, sess', "stopSave")
  /\ UNCHANGED <<row, arg, saw, began, historyVars, boundVars>>

Stop(c) ==
  /\ pc[c] = "idle" /\ known
  /\ StopEntry(c, sess)
  /\ UNCHANGED <<known, inFlight, orphans, allocs>>

StopCold(c) ==
  /\ pc[c] = "idle" /\ ~known
  /\ Goto(c, "stopLoad") /\ Query(c)
  /\ UNCHANGED <<sessionVars, row, arg, saw, began, saving, historyVars, boundVars>>

\* No row: stop returns undefined, even when a start has filled the map since.
StopLoaded(c) ==
  /\ pc[c] = "stopLoad" /\ c \in wire
  /\ \/ /\ row = NoRow
        /\ Return(c) /\ Release(c)
        /\ UNCHANGED <<sessionVars, row, began, saving, historyVars, boundVars>>
     \/ /\ row # NoRow
        /\ ReplaceEntry
        /\ StopEntry(c, row)

-----------------------------------------------------------------------------
\* runExclusiveTick, up to its first await.
\* Slip: the limit is passed before the rail trips.
RailTrippedLate(s) == s.skipped > s.maxTicks * FireMultiplier

\* maybeAutoStopOnFireAttempts, on a session whose skip is counted.
RailTripped(s) == s.ticks + s.skipped >= s.maxTicks * FireMultiplier

SkipTick(p) ==
  /\ known /\ sess.running /\ inFlight
  /\ LET s == [sess EXCEPT !.skipped = @ + 1]
     IN /\ sess'  = [s EXCEPT !.running = ~RailTripped(s)]
        /\ timer' = (timer /\ ~RailTripped(s))
  /\ Persist(p, sess', "skipSave")
  /\ UNCHANGED <<known, inFlight, orphans, allocs, ring, row, arg, saw, began,
                 historyVars, boundVars>>

BeginTick(p) ==
  /\ known /\ sess.running /\ ~inFlight
  /\ inFlight' = TRUE
  /\ Goto(p, "run")
  /\ began' = [began EXCEPT ![p] = sess.startedAt]
  /\ begun' = [begun EXCEPT ![sess.startedAt] = @ + 1]
  /\ UNCHANGED <<known, sess, timer, orphans, allocs, ring, dbVars, arg, saw, saving,
                 runs, capHigh, boundVars>>

\* The immediate tick of the tool, after start.
ImmediateTick(c) ==
  /\ pc[c] = "tick"
  /\ SkipTick(c) \/ BeginTick(c)

\* Stopped meanwhile: runExclusiveTick returns undefined and the tool reads the
\* snapshot back.
TickRefused(c) ==
  /\ pc[c] = "tick" /\ ~(known /\ sess.running)
  /\ Return(c)
  /\ UNCHANGED <<sessionVars, dbVars, began, saving, historyVars, boundVars>>

\* An installed interval fires, also one whose entry was replaced: it looks the
\* session up by key.  On a stopped session the callback does nothing.
Fire(f) ==
  /\ pc[f] = "idle"
  /\ timer \/ orphans > 0
  /\ SkipTick(f) \/ BeginTick(f)

\* pushRecentTick: the last RingLimit ticks, oldest first.
PushRecent(run) ==
  ring' = Append(IF Len(ring) < RingLimit THEN ring ELSE Tail(ring), run)

\* applyDelta: only executed ticks advance ticks.
ApplyDelta(s) == [s EXCEPT !.ticks = @ + 1]

\* Slip: one tick too many.
CappedLate(s) == s.ticks > s.maxTicks

\* maybeAutoStop's test.
Capped(s) == s.ticks >= s.maxTicks

\* The persona returns or throws: the delta lands on the entry the map holds
\* NOW, its tickInFlight is cleared and maybeAutoStop checks the cap.
TickDone(p) ==
  /\ pc[p] = "run"
  /\ LET s == ApplyDelta(sess)
     IN /\ sess'  = [s EXCEPT !.running = @ /\ ~Capped(s)]
        /\ timer' = (timer /\ ~(sess.running /\ Capped(s)))
  /\ PushRecent(began[p])
  /\ inFlight' = FALSE
  /\ Persist(p, sess', "tickSave")
  /\ began' = [began EXCEPT ![p] = 0]
  /\ UNCHANGED <<known, orphans, allocs, row, arg, saw, historyVars, boundVars>>

-----------------------------------------------------------------------------
\* An upsert ends; persist swallows its failure.  After a tick or a skip the
\* onAfterTick hook runs with a fresh snapshot.
Resume(p) ==
  /\ Release(p)
  /\ saving' = [saving EXCEPT ![p] = Blank]
  /\ \/ /\ pc[p] = "startSave"
        /\ Goto(p, "tick") /\ UNCHANGED <<arg, saw>>
     \/ /\ pc[p] \in {"tickSave", "skipSave", "stopSave"}
        /\ Return(p)
  /\ UNCHANGED <<sessionVars, began, historyVars, crashes>>

SaveDone(p) ==
  /\ Saves(p) /\ p \in wire
  /\ row' = saving[p]
  /\ Resume(p)
  /\ UNCHANGED failures

SaveFailed(p) ==
  /\ Saves(p) /\ p \in wire
  /\ failures < MaxFailures /\ failures' = failures + 1
  /\ Resume(p)
  /\ UNCHANGED row

\* A failed SELECT rejects the call.
LoadFailed(c) ==
  /\ pc[c] \in {"get", "load", "stopLoad"} /\ c \in wire
  /\ failures < MaxFailures /\ failures' = failures + 1
  /\ Release(c) /\ Return(c)
  /\ UNCHANGED <<sessionVars, row, began, saving, historyVars, crashes>>

\* Slip: no reset at boot.
ResetNothing(r) == r

\* ensureSchema: no timer survives the process, so no row stays running.
ResetRunning(r) == IF r = NoRow THEN NoRow ELSE [r EXCEPT !.running = FALSE]

\* The process dies and the next one boots.  An upsert on the wire is lost or
\* lands before ensureSchema, which runs before the server listens.
CrashAndBoot ==
  /\ crashes < MaxCrashes /\ crashes' = crashes + 1
  /\ known' = FALSE /\ sess' = Blank /\ inFlight' = FALSE /\ timer' = FALSE
  /\ orphans' = 0 /\ allocs' = 0 /\ ring' = <<>>
  /\ \E r \in {row} \union {saving[p] : p \in {q \in Procs : Saves(q) /\ q \in wire}} :
       row' = ResetRunning(r)
  /\ wire' = {} /\ queue' = <<>>
  /\ pc' = [p \in Procs |-> "idle"]
  /\ arg' = [p \in Procs |-> NoArgs]
  /\ saw' = [p \in Procs |-> FALSE]
  /\ began' = [p \in Procs |-> 0]
  /\ saving' = [p \in Procs |-> Blank]
  /\ UNCHANGED <<historyVars, failures>>

-----------------------------------------------------------------------------
ClientCall(c) ==
  \/ Invoke(c) \/ SnapshotOnly(c) \/ OneShot(c) \/ StartWarm(c) \/ StartCold(c)
  \/ Stop(c) \/ StopCold(c)

Loaded(c) == GetLoaded(c) \/ StartLoaded(c) \/ StopLoaded(c) \/ LoadFailed(c)

Next ==
  \/ \E c \in Clients : \/ ClientCall(c) \/ Loaded(c) \/ OneShotDone(c)
                        \/ ImmediateTick(c) \/ TickRefused(c)
  \/ \E f \in Fires : Fire(f)
  \/ \E p \in Procs : TickDone(p) \/ SaveDone(p) \/ SaveFailed(p)
  \/ CrashAndBoot

Spec == Init /\ [][Next]_vars

\* The runtime's own steps: an installed interval keeps firing and every query
\* ends.  A caller owes nothing, and nothing says a persona run ever returns.
Fairness ==
  /\ \A f \in Fires : WF_vars(Fire(f))
  /\ \A p \in Procs : WF_vars(SaveDone(p) \/ SaveFailed(p))
  /\ \A c \in Clients : WF_vars(Loaded(c)) /\ WF_vars(ImmediateTick(c) \/ TickRefused(c))

FairSpec == Spec /\ Fairness

-----------------------------------------------------------------------------
Running   == known /\ sess.running
Executing == {p \in Procs : pc[p] = "run"}

\* "N ticks" means at most N real executions: no run of the loop ever begins
\* more ticks than the largest cap it has had, whatever restarts, refreshes,
\* ticks left over from an earlier run and concurrent first starts do to the
\* counters (runExclusiveTick, applyDelta, maybeAutoStop).
AtMostNTicks == \A r \in Runs : begun[r] <= capHigh[r]

\* The overlap guard: ticks execute one at a time for each entry this process
\* has put in the map - so one at a time as long as the entry is never replaced,
\* through any stop and restart under an unfinished tick (tickInFlight).
FlightsBounded == Cardinality(Executing) <= HigherOf(1, allocs)

\* The cap and the safety rail leave no run going for ever: while it runs, its
\* executed ticks are below its cap and its skips below the rail (maybeAutoStop,
\* maybeAutoStopOnFireAttempts).
AttemptsBounded ==
  Running => /\ sess.ticks < capHigh[sess.startedAt]
             /\ sess.skipped < capHigh[sess.startedAt] * FireMultiplier

\* The entry's interval is installed exactly while the session runs: every path
\* that stops it (stop, cap, rail, hydration) clears it and every path that
\* starts it installs one.
TimerIffRunning == timer = Running

\* The prompt's recent ticks never go back beyond the run's own count: a wipe
\* comes with every reset of the counters (start's wasStopped branch, stop),
\* while the entry has not been replaced.
RecentTicksCounted ==
  /\ Len(ring) <= RingLimit
  /\ allocs <= 1 => Len(ring) <= sess.ticks

\* After a boot, and until this process starts a session, the row never claims
\* a running loop (ensureSchema's reset).
NoGhostRow == ~known /\ row # NoRow => ~row.running

\* With one pool connection and no failed upsert, the row equals the entry as
\* soon as no upsert is outstanding: every mutation issues one in its own step.
RowCatchesUp ==
  (PoolMax = 1 /\ failures = 0 /\ known /\ \A p \in Procs : ~Saves(p)) => row = sess

\* A running loop ends by itself even if the persona never returns: skips
\* accumulate until the rail stops it, and callers cannot extend it for ever.
LoopEnds == Running ~> ~Running

\* What runExclusiveTick's comment promises without a condition.
SingleFlight == Cardinality(Executing) <= 1

\* What start's comment on the two wipes promises.
RestartUncontaminated ==
  known => \A i \in 1..Len(ring) : ring[i] = sess.startedAt

=============================================================================
