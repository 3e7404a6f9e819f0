----------------------- MODULE HeartbeatSessionProofs -----------------------
(* Theorems about HeartbeatSession, for every set of callers, intervals and *)
(* caps and every bound.                                                    *)
EXTENDS HeartbeatSession, FiniteSetTheorems, SequenceTheorems, TLAPS

\* Blank is a snapshot of a stopped session.
LEMMA BlankType == Blank \in Snapshot /\ ~Blank.running
BY HeartbeatAssumption DEF Blank, Snapshot, FreshRun

LEMMA NoArgsType == NoArgs \in Args
BY DEF NoArgs, Args

\* Flipping running, counting a skip and counting a tick keep a snapshot one.
LEMMA SnapshotSteps ==
  ASSUME NEW s \in Snapshot
  PROVE  /\ \A b \in BOOLEAN : [s EXCEPT !.running = b] \in Snapshot
         /\ [s EXCEPT !.skipped = @ + 1] \in Snapshot
         /\ ApplyDelta(s) \in Snapshot
         /\ RailTripped(s) \in BOOLEAN /\ Capped(s) \in BOOLEAN
         /\ s.running \in BOOLEAN
BY DEF Snapshot, ApplyDelta, RailTripped, Capped

\* The pool keeps each process on a connection or in the waiting line.
LEMMA QueryType ==
  ASSUME TypeOK, NEW p \in Procs, Query(p)
  PROVE  wire' \in SUBSET Procs /\ queue' \in Seq(Procs)
<1>1. queue # <<>> => Head(queue) \in Procs /\ Tail(queue) \in Seq(Procs)
  BY HeadTailProperties DEF TypeOK
<1>2. \A s \in Seq(Procs) : Append(s, p) \in Seq(Procs)
  BY AppendProperties
<1>3. wire \subseteq Procs /\ queue \in Seq(Procs)
  BY DEF TypeOK
<1>4. CASE p \in wire
  BY <1>1, <1>2, <1>3, <1>4 DEF Query
<1>5. CASE p \notin wire
  BY <1>2, <1>3, <1>5 DEF Query
<1>6. QED
  BY <1>4, <1>5

LEMMA ReleaseType ==
  ASSUME TypeOK, NEW p \in Procs, Release(p)
  PROVE  wire' \in SUBSET Procs /\ queue' \in Seq(Procs)
<1>1. queue # <<>> => Head(queue) \in Procs /\ Tail(queue) \in Seq(Procs)
  BY HeadTailProperties DEF TypeOK
<1>2. QED
  BY <1>1 DEF TypeOK, Release

\* A new run is a running session numbered runs + 1 with a positive cap.
LEMMA BeginRunType ==
  ASSUME TypeOK, NEW c \in Procs, arg[c].interval # Omitted,
         NEW max \in Nat \ {0}, BeginRun(c, max)
  PROVE  /\ sess' \in Snapshot /\ timer' \in BOOLEAN
         /\ runs' \in 0..MaxRuns
         /\ begun' \in [Runs -> Nat] /\ capHigh' \in [Runs -> Nat]
BY SMTT(30), HeartbeatAssumption DEF TypeOK, BeginRun, FreshRun, Snapshot, Args, Runs

LEMMA ReplaceType ==
  ASSUME TypeOK, ReplaceEntry
  PROVE  known' \in BOOLEAN /\ inFlight' \in BOOLEAN /\ allocs' \in Nat /\ orphans' \in Nat
<1>1. (IF timer THEN 1 ELSE 0) \in Nat
  OBVIOUS
<1>2. allocs \in Nat /\ orphans \in Nat
  BY DEF TypeOK
<1>3. allocs' \in Nat /\ orphans' \in Nat
  BY <1>1, <1>2 DEF ReplaceEntry
<1>4. QED
  BY <1>3 DEF ReplaceEntry

\* The cap of a call, or the one it falls back to, is positive.
LEMMA CapType ==
  ASSUME TypeOK, NEW c \in Procs
  PROVE  /\ arg[c].max # Omitted => arg[c].max \in Nat \ {0}
         /\ sess.maxTicks \in Nat \ {0}
         /\ row # NoRow => row.maxTicks \in Nat \ {0}
         /\ ResolveMaxTicks(arg[c].max) \in Nat \ {0}
BY HeartbeatAssumption DEF TypeOK, Args, Snapshot, ResolveMaxTicks

\* What a boot, and the initial state, give every process.
FreshProcs(at, args, seen, ran, saved) ==
  /\ at = [p \in Procs |-> "idle"]
  /\ args = [p \in Procs |-> NoArgs]
  /\ seen = [p \in Procs |-> FALSE]
  /\ ran = [p \in Procs |-> 0]
  /\ saved = [p \in Procs |-> Blank]

LEMMA FreshProcsType ==
  ASSUME NEW at, NEW args, NEW seen, NEW ran, NEW saved,
         FreshProcs(at, args, seen, ran, saved)
  PROVE  /\ at \in [Procs -> {"idle", "get", "start", "load", "startSave", "tick", "run",
                              "tickSave", "skipSave", "oneShot", "stopLoad", "stopSave"}]
         /\ \A p \in Procs : at[p] = "load" => args[p].interval # Omitted
         /\ args \in [Procs -> Args] /\ seen \in [Procs -> BOOLEAN]
         /\ ran \in [Procs -> Nat] /\ saved \in [Procs -> Snapshot]
<1>1. args \in [Procs -> Args] /\ saved \in [Procs -> Snapshot]
  BY BlankType, NoArgsType DEF FreshProcs
<1>2. seen \in [Procs -> BOOLEAN]
  BY DEF FreshProcs
<1>3. QED
  BY <1>1, <1>2 DEF FreshProcs

\* Type correctness is inductive: one step per action of the store, the tools,
\* the pool and the boot.
LEMMA TypeStep == TypeOK /\ [Next]_vars => TypeOK'
<1> SUFFICES ASSUME TypeOK, [Next]_vars PROVE TypeOK'
  OBVIOUS
<1> USE HeartbeatAssumption
<1>1. ASSUME NEW c \in Clients, Invoke(c) PROVE TypeOK'
  <2>1. c \in Procs
    BY DEF Procs
  <2>2. wire' \in SUBSET Procs /\ queue' \in Seq(Procs)
    BY <1>1, <2>1, QueryType DEF Invoke, TypeOK
  <2>3. QED
    BY ZenonT(40), <1>1, <2>1, <2>2 DEF Invoke, TypeOK, Goto, sessionVars, historyVars, boundVars
<1>2. ASSUME NEW c \in Clients, GetLoaded(c) PROVE TypeOK'
  <2>1. wire' \in SUBSET Procs /\ queue' \in Seq(Procs)
    BY <1>2, ReleaseType DEF GetLoaded, Procs
  <2>2. QED
    BY <1>2, <2>1 DEF GetLoaded, TypeOK, Goto, sessionVars, historyVars, boundVars, Procs
<1>3. ASSUME NEW c \in Clients, SnapshotOnly(c) \/ OneShot(c) \/ OneShotDone(c) \/ TickRefused(c)
      PROVE TypeOK'
  <2>1. CASE OneShot(c)
    BY <2>1 DEF OneShot, TypeOK, Goto, sessionVars, dbVars, historyVars, boundVars, Procs
  <2>2. CASE SnapshotOnly(c) \/ OneShotDone(c) \/ TickRefused(c)
    <3>1. Return(c) /\ UNCHANGED <<sessionVars, dbVars, began, saving, historyVars, boundVars>>
      BY <2>2 DEF SnapshotOnly, OneShotDone, TickRefused
    <3>2. QED
      BY <3>1, NoArgsType
      DEF Return, TypeOK, Goto, sessionVars, dbVars, historyVars, boundVars, Procs
  <2>3. QED
    BY <1>3, <2>1, <2>2
<1>4. ASSUME NEW c \in Clients, StartWarm(c) PROVE TypeOK'
  <2>1. c \in Procs
    BY DEF Procs
  <2>2. wire' \in SUBSET Procs /\ queue' \in Seq(Procs)
    BY <1>4, <2>1, QueryType DEF StartWarm, Persist
  <2>3. /\ sess' \in Snapshot /\ timer' \in BOOLEAN /\ ring' \in Seq(Nat)
        /\ runs' \in 0..MaxRuns /\ begun' \in [Runs -> Nat] /\ capHigh' \in [Runs -> Nat]
        /\ UNCHANGED <<known, inFlight, orphans, allocs>>
    <3>1. CASE RefreshRun(c)
      BY <3>1, <2>1, CapType DEF RefreshRun, TypeOK, Snapshot, HigherOf
    <3>2. CASE RetimeRun(c)
      BY <3>2, <1>4, <2>1, CapType DEF RetimeRun, StartWarm, TypeOK, Snapshot, HigherOf, Args
    <3>3. CASE ReviveRun(c)
      <4>1. PICK max \in Nat \ {0} : BeginRun(c, max)
        BY <3>3, <2>1, CapType DEF ReviveRun
      <4>2. QED
        BY <4>1, <3>3, <1>4, <2>1, BeginRunType, EmptySeq DEF ReviveRun, StartWarm
    <3>4. QED
      BY <1>4, <3>1, <3>2, <3>3 DEF StartWarm
  <2>4. QED
    BY <1>4, <2>1, <2>2, <2>3 DEF StartWarm, Persist, TypeOK, Goto, boundVars
<1>5. ASSUME NEW c \in Clients, StartCold(c) \/ StopCold(c) PROVE TypeOK'
  <2>1. c \in Procs
    BY DEF Procs
  <2>2. wire' \in SUBSET Procs /\ queue' \in Seq(Procs)
    BY <1>5, <2>1, QueryType DEF StartCold, StopCold
  <2>3. QED
    BY <1>5, <2>1, <2>2 DEF StartCold, StopCold, TypeOK, Goto, sessionVars, historyVars, boundVars
<1>6. ASSUME NEW c \in Clients, StartLoaded(c) PROVE TypeOK'
  <2>1. c \in Procs
    BY DEF Procs
  <2>2. wire' \in SUBSET Procs /\ queue' \in Seq(Procs)
    BY <1>6, <2>1, QueryType DEF StartLoaded, Persist
  <2>3. PICK max \in Nat \ {0} : BeginRun(c, max)
    BY <1>6, <2>1, CapType DEF StartLoaded
  <2>4. ring' \in Seq(Nat)
    BY ZenonT(40), <1>6, EmptySeq DEF StartLoaded, TypeOK
  <2>5. arg[c].interval # Omitted
    BY <1>6, <2>1 DEF StartLoaded, TypeOK
  <2>6. QED
    <3>1. /\ sess' \in Snapshot /\ timer' \in BOOLEAN /\ runs' \in 0..MaxRuns
          /\ begun' \in [Runs -> Nat] /\ capHigh' \in [Runs -> Nat]
      BY <2>1, <2>3, <2>5, BeginRunType
    <3>2. /\ known' \in BOOLEAN /\ inFlight' \in BOOLEAN
          /\ allocs' \in Nat /\ orphans' \in Nat
      BY <1>6, ReplaceType DEF StartLoaded
    <3>3. QED
      BY <1>6, <2>1, <2>2, <2>4, <3>1, <3>2 DEF StartLoaded, Persist, TypeOK, Goto, boundVars
<1>7. ASSUME NEW c \in Clients, Stop(c) PROVE TypeOK'
  <2>1. c \in Procs
    BY DEF Procs
  <2>2. wire' \in SUBSET Procs /\ queue' \in Seq(Procs)
    BY <1>7, <2>1, QueryType DEF Stop, StopEntry, Persist
  <2>3. sess' \in Snapshot
    BY <1>7, SnapshotSteps DEF Stop, StopEntry, TypeOK
  <2>4. QED
    BY <1>7, <2>1, <2>2, <2>3, EmptySeq
    DEF Stop, StopEntry, Persist, TypeOK, Goto, historyVars, boundVars
<1>8. ASSUME NEW c \in Clients, StopLoaded(c) PROVE TypeOK'
  <2>1. c \in Procs
    BY DEF Procs
  <2>2. CASE row = NoRow
    <3>1. wire' \in SUBSET Procs /\ queue' \in Seq(Procs)
      BY <1>8, <2>1, <2>2, ReleaseType DEF StopLoaded
    <3>2. QED
      BY ZenonT(40), <1>8, <2>1, <2>2, <3>1, NoArgsType
      DEF StopLoaded, Return, TypeOK, Goto, sessionVars, historyVars, boundVars
  <2>3. CASE row # NoRow
    <3>1. wire' \in SUBSET Procs /\ queue' \in Seq(Procs)
      BY <1>8, <2>1, <2>3, QueryType DEF StopLoaded, StopEntry, Persist
    <3>2. sess' \in Snapshot
      BY <1>8, <2>3, SnapshotSteps DEF StopLoaded, StopEntry, TypeOK
    <3>3. ReplaceEntry /\ StopEntry(c, row)
      BY <1>8, <2>3 DEF StopLoaded
    <3>4. /\ known' \in BOOLEAN /\ inFlight' \in BOOLEAN
          /\ allocs' \in Nat /\ orphans' \in Nat
      BY <3>3, ReplaceType
    <3>5. QED
      BY <2>1, <3>1, <3>2, <3>3, <3>4, EmptySeq
      DEF StopEntry, Persist, TypeOK, Goto, historyVars, boundVars
  <2>4. QED
    BY <2>2, <2>3
<1>9. ASSUME NEW p \in Procs, SkipTick(p) PROVE TypeOK'
  <2>1. wire' \in SUBSET Procs /\ queue' \in Seq(Procs)
    BY <1>9, QueryType DEF SkipTick, Persist
  <2>2. sess' \in Snapshot /\ timer' \in BOOLEAN
    BY <1>9, SnapshotSteps DEF SkipTick, TypeOK
  <2>3. QED
    BY <1>9, <2>1, <2>2 DEF SkipTick, Persist, TypeOK, Goto, historyVars, boundVars
<1>10. ASSUME NEW p \in Procs, BeginTick(p) PROVE TypeOK'
  <2>1. sess.startedAt \in Nat
    BY DEF TypeOK, Snapshot
  <2>2. QED
    <3>1. began' \in [Procs -> Nat]
      BY <1>10, <2>1 DEF BeginTick, TypeOK
    <3>2. begun' \in [Runs -> Nat]
      <4>1. begun \in [Runs -> Nat]
            /\ begun' = [begun EXCEPT ![sess.startedAt] = begun[sess.startedAt] + 1]
        BY <1>10 DEF BeginTick, TypeOK
      <4>2. CASE sess.startedAt \in Runs
        BY <4>1, <4>2
      <4>3. CASE sess.startedAt \notin Runs
        BY <4>1, <4>3
      <4>4. QED
        BY <4>2, <4>3
    <3>3. /\ pc' \in [Procs -> {"idle", "get", "start", "load", "startSave", "tick", "run",
                                 "tickSave", "skipSave", "oneShot", "stopLoad", "stopSave"}]
          /\ \A q \in Procs : pc'[q] = "load" => arg[q].interval # Omitted
      BY <1>10 DEF BeginTick, TypeOK, Goto
    <3>4. inFlight' \in BOOLEAN
      BY <1>10 DEF BeginTick
    <3>5. QED
      BY <1>10, <3>1, <3>2, <3>3, <3>4 DEF BeginTick, TypeOK, dbVars, boundVars
<1>11. ASSUME NEW p \in Procs, TickDone(p) PROVE TypeOK'
  <2>1. wire' \in SUBSET Procs /\ queue' \in Seq(Procs)
    BY <1>11, QueryType DEF TickDone, Persist
  <2>2. sess' \in Snapshot /\ timer' \in BOOLEAN
    <3>1. ApplyDelta(sess) \in Snapshot /\ Capped(ApplyDelta(sess)) \in BOOLEAN
          /\ ApplyDelta(sess).running \in BOOLEAN /\ sess.running \in BOOLEAN
      BY SnapshotSteps DEF TypeOK
    <3>2. QED
      BY <1>11, <3>1, SnapshotSteps DEF TickDone, TypeOK
  <2>3. ring' \in Seq(Nat)
    <3>1. ring # <<>> => Tail(ring) \in Seq(Nat)
      BY HeadTailProperties DEF TypeOK
    <3>2. Len(ring) < RingLimit \/ ring # <<>>
      BY DEF TypeOK
    <3>3. began[p] \in Nat
      BY DEF TypeOK
    <3>4. QED
      BY <1>11, <3>1, <3>2, <3>3, AppendProperties DEF TickDone, PushRecent, TypeOK
  <2>4. QED
    BY <1>11, <2>1, <2>2, <2>3 DEF TickDone, Persist, TypeOK, Goto, historyVars, boundVars
<1>12. ASSUME NEW p \in Procs, SaveDone(p) \/ SaveFailed(p) PROVE TypeOK'
  <2>1. Resume(p) /\ row' \in Snapshot \union {NoRow} /\ failures' \in 0..MaxFailures
    BY <1>12 DEF SaveDone, SaveFailed, TypeOK
  <2>2. wire' \in SUBSET Procs /\ queue' \in Seq(Procs)
    BY <2>1, ReleaseType DEF Resume
  <2>3. QED
    BY ZenonT(40), <2>1, <2>2, BlankType, NoArgsType
    DEF Resume, Return, TypeOK, Goto, sessionVars, historyVars
<1>13. ASSUME NEW c \in Clients, LoadFailed(c) PROVE TypeOK'
  <2>1. wire' \in SUBSET Procs /\ queue' \in Seq(Procs)
    BY <1>13, ReleaseType DEF LoadFailed, Procs
  <2>2. QED
    BY <1>13, <2>1, NoArgsType
    DEF LoadFailed, Return, TypeOK, Goto, sessionVars, historyVars, Procs
<1>14. ASSUME CrashAndBoot PROVE TypeOK'
  <2>1. row' \in Snapshot \union {NoRow}
    <3>1. PICK r \in {row} \union {saving[p] : p \in {q \in Procs : Saves(q) /\ q \in wire}} :
            row' = ResetRunning(r)
      BY <1>14 DEF CrashAndBoot
    <3>2. r \in Snapshot \union {NoRow}
      BY <3>1 DEF TypeOK
    <3>3. QED
      BY <3>1, <3>2 DEF ResetRunning, Snapshot
  <2>2. /\ known' \in BOOLEAN /\ inFlight' \in BOOLEAN /\ timer' \in BOOLEAN
        /\ sess' \in Snapshot /\ orphans' \in Nat /\ allocs' \in Nat
        /\ ring' \in Seq(Nat) /\ wire' \in SUBSET Procs /\ queue' \in Seq(Procs)
    BY <1>14, BlankType, EmptySeq DEF CrashAndBoot
  <2>3. FreshProcs(pc', arg', saw', began', saving')
    BY <1>14 DEF CrashAndBoot, FreshProcs
  <2>4. /\ runs' \in 0..MaxRuns /\ begun' \in [Runs -> Nat] /\ capHigh' \in [Runs -> Nat]
        /\ crashes' \in 0..MaxCrashes /\ failures' \in 0..MaxFailures
    BY SMTT(30), <1>14 DEF CrashAndBoot, TypeOK, historyVars
  <2>5. QED
    BY <2>1, <2>2, <2>3, <2>4, FreshProcsType DEF TypeOK
<1>15. CASE UNCHANGED vars
  BY <1>15 DEF vars, sessionVars, dbVars, procVars, historyVars, boundVars, TypeOK
<1>16. QED
  <2>1. ASSUME NEW c \in Clients, ClientCall(c) PROVE TypeOK'
    BY <2>1, <1>1, <1>3, <1>4, <1>5, <1>7 DEF ClientCall
  <2>2. ASSUME NEW c \in Clients, Loaded(c) PROVE TypeOK'
    BY <2>2, <1>2, <1>6, <1>8, <1>13 DEF Loaded
  <2>3. ASSUME NEW c \in Clients, ImmediateTick(c) PROVE TypeOK'
    BY <2>3, <1>9, <1>10 DEF ImmediateTick, Procs
  <2>4. ASSUME NEW f \in Fires, Fire(f) PROVE TypeOK'
    BY <2>4, <1>9, <1>10 DEF Fire, Procs
  <2>5. QED
    BY <1>3, <1>11, <1>12, <1>14, <1>15, <2>1, <2>2, <2>3, <2>4 DEF Next

LEMMA TypeInit == Init => TypeOK
<1> SUFFICES ASSUME Init PROVE TypeOK
  OBVIOUS
<1>1. /\ known \in BOOLEAN /\ inFlight \in BOOLEAN /\ timer \in BOOLEAN
      /\ sess \in Snapshot /\ orphans \in Nat /\ allocs \in Nat /\ ring \in Seq(Nat)
      /\ row \in Snapshot \union {NoRow} /\ wire \in SUBSET Procs /\ queue \in Seq(Procs)
  BY BlankType, EmptySeq DEF Init
<1>2. FreshProcs(pc, arg, saw, began, saving)
  BY DEF Init, FreshProcs
<1>3. /\ runs \in 0..MaxRuns /\ begun \in [Runs -> Nat] /\ capHigh \in [Runs -> Nat]
      /\ crashes \in 0..MaxCrashes /\ failures \in 0..MaxFailures
  BY HeartbeatAssumption DEF Init
<1>4. QED
  BY <1>1, <1>2, <1>3, FreshProcsType DEF TypeOK

\* Every variable keeps its type, for any number of callers and any pool.
THEOREM TypeCorrect == Spec => []TypeOK
BY TypeInit, TypeStep, PTL DEF Spec

-----------------------------------------------------------------------------
\* Why the caps hold: a running session's executed ticks count every tick its
\* run has begun, except the one under way.  A tick of an earlier run may add to
\* the count, never take from it, and a replaced entry starts from a run that
\* has begun no tick at all.
Carry == IF inFlight THEN 1 ELSE 0

RunSafe ==
  Running =>
    /\ sess.startedAt \in Runs /\ sess.startedAt <= runs
    /\ sess.maxTicks <= capHigh[sess.startedAt]
    /\ sess.ticks < capHigh[sess.startedAt]
    /\ sess.skipped < capHigh[sess.startedAt] * FireMultiplier
    /\ begun[sess.startedAt] <= sess.ticks + Carry

LEMMA RailMonotone ==
  ASSUME NEW a \in Nat, NEW b \in Nat, a <= b
  PROVE  a * FireMultiplier <= b * FireMultiplier
<1>1. PICK d \in Nat : b = a + d
  <2>1. b - a \in Nat /\ b = a + (b - a)
    OBVIOUS
  <2>2. QED
    BY <2>1
<1>2. FireMultiplier \in Nat /\ d * FireMultiplier \in Nat /\ a * FireMultiplier \in Nat
  BY HeartbeatAssumption
<1>3. b * FireMultiplier = a * FireMultiplier + d * FireMultiplier
  BY <1>1, <1>2
<1>4. QED
  BY <1>2, <1>3

\* The counts are numbers.
LEMMA CountType ==
  ASSUME TypeOK
  PROVE  /\ sess.ticks \in Nat /\ sess.skipped \in Nat /\ sess.maxTicks \in Nat \ {0}
         /\ sess.startedAt \in Nat /\ sess.running \in BOOLEAN /\ runs \in Nat
         /\ \A r \in Runs : begun[r] \in Nat /\ capHigh[r] \in Nat /\ r \in Nat
         /\ Carry \in {0, 1}
<1>1. Carry \in {0, 1}
  BY DEF Carry
<1>2. sess \in Snapshot
  BY DEF TypeOK
<1>3. QED
  BY <1>1, <1>2, HeartbeatAssumption DEF TypeOK, Snapshot, Runs

\* A step that touches neither the entry nor the history keeps both.
LEMMA RunSafeFrame ==
  ASSUME RunSafe, AtMostNTicks, UNCHANGED <<known, sess, inFlight, historyVars>>
  PROVE  RunSafe' /\ AtMostNTicks'
BY DEF RunSafe, AtMostNTicks, Running, Carry, historyVars

\* So does one that leaves the entry stopped.
LEMMA RunSafeStopped ==
  ASSUME AtMostNTicks, ~Running', UNCHANGED historyVars
  PROVE  RunSafe' /\ AtMostNTicks'
BY DEF RunSafe, AtMostNTicks, historyVars

\* A new run has begun no tick and counted none.
LEMMA RunSafeBegin ==
  ASSUME TypeOK, AtMostNTicks, NEW c, NEW max \in Nat \ {0}, BeginRun(c, max)
  PROVE  RunSafe' /\ AtMostNTicks'
<1>1. /\ runs + 1 \in Runs /\ runs' = runs + 1
      /\ begun' = [begun EXCEPT ![runs + 1] = 0]
      /\ capHigh' = [capHigh EXCEPT ![runs + 1] = max]
      /\ begun \in [Runs -> Nat] /\ capHigh \in [Runs -> Nat]
  BY HeartbeatAssumption DEF BeginRun, Runs, TypeOK
<1>2. /\ sess'.startedAt = runs + 1 /\ sess'.maxTicks = max
      /\ sess'.ticks = 0 /\ sess'.skipped = 0
  BY DEF BeginRun, FreshRun
<1>3. begun'[runs + 1] = 0 /\ capHigh'[runs + 1] = max
  BY <1>1
<1>4. AtMostNTicks'
  BY <1>1 DEF AtMostNTicks
<1>5. RunSafe'
  <2>1. Carry' \in {0, 1}
    BY DEF Carry
  <2>2. 1 * FireMultiplier <= max * FireMultiplier /\ FireMultiplier >= 1
    BY RailMonotone, HeartbeatAssumption
  <2>3. 0 < max * FireMultiplier
    <3>1. max * FireMultiplier \in Nat /\ 1 * FireMultiplier = FireMultiplier
          /\ FireMultiplier \in Nat
      BY HeartbeatAssumption
    <3>2. QED
      BY <2>2, <3>1
  <2>4. runs + 1 \in Nat /\ runs + 1 <= runs'
    BY <1>1 DEF TypeOK
  <2>5. /\ sess'.maxTicks <= capHigh'[runs + 1] /\ sess'.ticks < capHigh'[runs + 1]
        /\ sess'.skipped < capHigh'[runs + 1] * FireMultiplier
        /\ begun'[runs + 1] <= sess'.ticks + Carry'
    <3>1. sess'.maxTicks <= capHigh'[runs + 1] /\ sess'.ticks < capHigh'[runs + 1]
      BY <1>2, <1>3
    <3>2. sess'.skipped < capHigh'[runs + 1] * FireMultiplier
      BY <1>2, <1>3, <2>3, Zenon
    <3>3. begun'[runs + 1] <= sess'.ticks + Carry'
      <4>1. Carry' = 0 \/ Carry' = 1
        BY <2>1
      <4>2. begun'[runs + 1] = 0 /\ sess'.ticks = 0
        BY <1>2, <1>3
      <4>3. CASE Carry' = 0
        BY <4>2, <4>3
      <4>4. CASE Carry' = 1
        BY <4>2, <4>4
      <4>5. QED
        BY <4>1, <4>3, <4>4
    <3>4. QED
      BY <3>1, <3>2, <3>3
  <2>6. QED
    BY <1>1, <1>2, <2>4, <2>5 DEF RunSafe
<1>6. QED
  BY <1>4, <1>5

\* Refreshing a running session raises its run's highest cap when it has to.
LEMMA RunSafeRefresh ==
  ASSUME TypeOK, RunSafe, AtMostNTicks, NEW max \in Nat \ {0}, Running,
         UNCHANGED <<known, inFlight, runs, begun>>,
         sess'.running = sess.running, sess'.startedAt = sess.startedAt,
         sess'.maxTicks = max, sess'.ticks = sess.ticks, sess'.skipped = sess.skipped,
         capHigh' = [capHigh EXCEPT ![sess.startedAt] = HigherOf(@, max)]
  PROVE  RunSafe' /\ AtMostNTicks'
<1> DEFINE r == sess.startedAt
<1>1. r \in Runs /\ capHigh[r] \in Nat /\ capHigh \in [Runs -> Nat] /\ begun \in [Runs -> Nat]
  BY DEF RunSafe, TypeOK
<1>2. capHigh'[r] = HigherOf(capHigh[r], max)
  BY <1>1
<1>3. capHigh'[r] \in Nat /\ capHigh[r] <= capHigh'[r] /\ max <= capHigh'[r]
  BY <1>1, <1>2 DEF HigherOf
<1>4. \A q \in Runs : capHigh[q] <= capHigh'[q] /\ capHigh'[q] \in Nat
  BY <1>1, <1>3
<1>5. AtMostNTicks'
  BY <1>1, <1>4 DEF AtMostNTicks
<1>6. capHigh[r] * FireMultiplier <= capHigh'[r] * FireMultiplier
  BY <1>1, <1>3, RailMonotone
<1>7. capHigh[r] * FireMultiplier \in Nat /\ capHigh'[r] * FireMultiplier \in Nat
  BY <1>1, <1>3, HeartbeatAssumption
<1>8. sess.skipped < capHigh'[r] * FireMultiplier /\ sess.ticks < capHigh'[r]
  BY <1>1, <1>3, <1>6, <1>7, CountType DEF RunSafe
<1>9. RunSafe'
  <2>1. Carry' = Carry
    BY DEF Carry
  <2>2. QED
    BY <1>1, <1>3, <1>8, <2>1 DEF RunSafe, Running
<1>10. QED
  BY <1>5, <1>9

\* Beginning a tick uses up the one the cap still has room for.
LEMMA RunSafeBeginTick ==
  ASSUME TypeOK, RunSafe, AtMostNTicks, NEW p, BeginTick(p)
  PROVE  RunSafe' /\ AtMostNTicks'
<1> DEFINE r == sess.startedAt
<1>1. Running /\ ~inFlight /\ inFlight' = TRUE
      /\ UNCHANGED <<known, sess, runs, capHigh>>
      /\ begun' = [begun EXCEPT ![r] = begun[r] + 1]
  BY DEF BeginTick, Running
<1>2. r \in Runs /\ begun \in [Runs -> Nat] /\ Carry = 0 /\ Carry' = 1
  BY <1>1 DEF RunSafe, TypeOK, Carry
<1>3. begun'[r] = begun[r] + 1 /\ begun[r] <= sess.ticks + 0 /\ sess.ticks < capHigh[r]
  BY <1>1, <1>2 DEF RunSafe
<1>4. begun'[r] <= sess.ticks + 1 /\ begun'[r] <= capHigh[r]
  BY <1>2, <1>3, CountType
<1>5. AtMostNTicks'
  BY <1>1, <1>2, <1>4 DEF AtMostNTicks
<1>6. RunSafe'
  BY <1>1, <1>2, <1>4 DEF RunSafe, Running
<1>7. QED
  BY <1>5, <1>6

\* A skip counts towards the rail, and stops the run when the rail trips.
LEMMA RunSafeSkipTick ==
  ASSUME TypeOK, RunSafe, AtMostNTicks, NEW p, SkipTick(p)
  PROVE  RunSafe' /\ AtMostNTicks'
<1> DEFINE r == sess.startedAt
           s == [sess EXCEPT !.skipped = @ + 1]
<1>1. /\ Running /\ sess \in Snapshot
      /\ UNCHANGED <<known, inFlight, historyVars>>
      /\ sess' = [s EXCEPT !.running = ~RailTripped(s)]
  BY DEF SkipTick, Running, TypeOK
<1>2. /\ s.ticks = sess.ticks /\ s.skipped = sess.skipped + 1 /\ s.maxTicks = sess.maxTicks
      /\ sess'.running = ~RailTripped(s) /\ sess'.startedAt = r
      /\ sess'.maxTicks = sess.maxTicks /\ sess'.ticks = sess.ticks
      /\ sess'.skipped = sess.skipped + 1
  BY <1>1 DEF Snapshot
<1>3. AtMostNTicks'
  BY <1>1 DEF AtMostNTicks, historyVars
<1>4. ASSUME Running' PROVE sess'.skipped < capHigh[r] * FireMultiplier
  <2>1. ~(sess.ticks + sess.skipped + 1 >= sess.maxTicks * FireMultiplier)
    <3>1. ~(s.ticks + s.skipped >= s.maxTicks * FireMultiplier)
      BY <1>2, <1>4 DEF Running, RailTripped
    <3>2. QED
      BY <1>2, <3>1, CountType
  <2>2. r \in Runs /\ sess.maxTicks <= capHigh[r] /\ capHigh[r] \in Nat
    BY <1>1, CountType DEF RunSafe
  <2>3. sess.maxTicks * FireMultiplier <= capHigh[r] * FireMultiplier
    BY <2>2, CountType, RailMonotone
  <2>4. sess.maxTicks * FireMultiplier \in Nat /\ capHigh[r] * FireMultiplier \in Nat
    BY <2>2, CountType, HeartbeatAssumption
  <2>5. QED
    BY <1>2, <2>1, <2>3, <2>4, CountType
<1>5. Carry' = Carry
  BY <1>1 DEF Carry
<1>6. RunSafe'
  BY <1>1, <1>2, <1>4, <1>5 DEF RunSafe, historyVars
<1>7. QED
  BY <1>3, <1>6

\* A finished tick moves from the one under way to the count; the run goes on
\* only below its cap.
LEMMA RunSafeTickDone ==
  ASSUME TypeOK, RunSafe, AtMostNTicks, NEW p \in Procs, TickDone(p)
  PROVE  RunSafe' /\ AtMostNTicks'
<1> DEFINE r == sess.startedAt
           s == ApplyDelta(sess)
<1>1. /\ sess \in Snapshot /\ UNCHANGED <<known, historyVars>> /\ inFlight' = FALSE
      /\ sess' = [s EXCEPT !.running = s.running /\ ~Capped(s)]
  BY DEF TickDone, TypeOK
<1>2. /\ s.running = sess.running /\ s.ticks = sess.ticks + 1 /\ s.maxTicks = sess.maxTicks
      /\ sess'.running = (sess.running /\ ~Capped(s)) /\ sess'.startedAt = r
      /\ sess'.maxTicks = sess.maxTicks /\ sess'.ticks = sess.ticks + 1
      /\ sess'.skipped = sess.skipped
  BY <1>1 DEF Snapshot, ApplyDelta
<1>3. AtMostNTicks'
  BY <1>1 DEF AtMostNTicks, historyVars
<1>4. Carry' = 0
  BY <1>1 DEF Carry
<1>5. ASSUME Running'
      PROVE  /\ Running /\ r \in Runs
             /\ sess'.ticks < capHigh[r] /\ begun[r] <= sess'.ticks + 0
  <2>1. Running /\ ~(sess.ticks + 1 >= sess.maxTicks)
    BY <1>1, <1>2, <1>5 DEF Running, Capped
  <2>2. r \in Runs /\ sess.maxTicks <= capHigh[r] /\ begun[r] <= sess.ticks + Carry
    BY <2>1 DEF RunSafe
  <2>3. QED
    BY <1>2, <2>1, <2>2, CountType
<1>6. RunSafe'
  BY <1>1, <1>2, <1>4, <1>5 DEF RunSafe, historyVars
<1>7. QED
  BY <1>3, <1>6
LEMMA RunStep == TypeOK /\ RunSafe /\ AtMostNTicks /\ [Next]_vars => RunSafe' /\ AtMostNTicks'
<1> SUFFICES ASSUME TypeOK, RunSafe, AtMostNTicks, [Next]_vars
             PROVE  RunSafe' /\ AtMostNTicks'
  OBVIOUS
<1>1. ASSUME NEW c \in Clients,
             \/ Invoke(c) \/ SnapshotOnly(c) \/ OneShot(c) \/ StartCold(c) \/ StopCold(c)
             \/ GetLoaded(c) \/ LoadFailed(c) \/ OneShotDone(c) \/ TickRefused(c)
      PROVE  RunSafe' /\ AtMostNTicks'
  <2>1. UNCHANGED <<known, sess, inFlight, historyVars>>
    BY <1>1 DEF Invoke, SnapshotOnly, OneShot, StartCold, StopCold, GetLoaded, LoadFailed,
                OneShotDone, TickRefused, sessionVars, historyVars
  <2>2. QED
    BY <2>1, RunSafeFrame
<1>2. ASSUME NEW p \in Procs, SaveDone(p) \/ SaveFailed(p) PROVE RunSafe' /\ AtMostNTicks'
  <2>1. UNCHANGED <<known, sess, inFlight, historyVars>>
    BY <1>2 DEF SaveDone, SaveFailed, Resume, sessionVars
  <2>2. QED
    BY <2>1, RunSafeFrame
<1>3. ASSUME NEW c \in Clients, StartWarm(c) PROVE RunSafe' /\ AtMostNTicks'
  <2>1. c \in Procs /\ known
    BY <1>3 DEF Procs, StartWarm
  <2>2. CASE RefreshRun(c) \/ RetimeRun(c)
    <3>1. PICK max \in Nat \ {0} :
            max = IF arg[c].max = Omitted THEN sess.maxTicks ELSE arg[c].max
      BY <2>1, CapType
    <3>2. /\ Running /\ UNCHANGED <<known, inFlight, runs, begun>>
          /\ capHigh' = [capHigh EXCEPT ![sess.startedAt] = HigherOf(@, max)]
          /\ \/ sess' = [sess EXCEPT !.maxTicks = max]
             \/ sess' = [sess EXCEPT !.maxTicks = max, !.interval = arg[c].interval]
      BY <2>1, <2>2, <3>1 DEF RefreshRun, RetimeRun, Running
    <3>3. /\ sess'.running = sess.running /\ sess'.startedAt = sess.startedAt
          /\ sess'.maxTicks = max /\ sess'.ticks = sess.ticks /\ sess'.skipped = sess.skipped
      BY <3>2 DEF TypeOK, Snapshot
    <3>4. QED
      BY <3>2, <3>3, RunSafeRefresh
  <2>3. CASE ReviveRun(c)
    <3>1. PICK max \in Nat \ {0} : BeginRun(c, max)
      BY <2>1, <2>3, CapType DEF ReviveRun
    <3>2. QED
      BY <3>1, RunSafeBegin
  <2>4. QED
    BY <1>3, <2>2, <2>3 DEF StartWarm
<1>4. ASSUME NEW c \in Clients, StartLoaded(c) PROVE RunSafe' /\ AtMostNTicks'
  <2>1. PICK max \in Nat \ {0} : BeginRun(c, max)
    BY <1>4, CapType DEF StartLoaded, Procs
  <2>2. QED
    BY <2>1, RunSafeBegin
<1>5. ASSUME NEW c \in Clients, Stop(c) \/ StopLoaded(c) PROVE RunSafe' /\ AtMostNTicks'
  <2>1. CASE Stop(c) \/ (StopLoaded(c) /\ row # NoRow)
    <3>1. PICK s \in Snapshot : StopEntry(c, s)
      BY <2>1 DEF Stop, StopLoaded, TypeOK
    <3>2. ~sess'.running /\ UNCHANGED historyVars
      BY <3>1 DEF StopEntry, Snapshot
    <3>3. QED
      BY <3>2, RunSafeStopped DEF Running
  <2>2. CASE StopLoaded(c) /\ row = NoRow
    <3>1. UNCHANGED <<known, sess, inFlight, historyVars>>
      BY <2>2 DEF StopLoaded, sessionVars
    <3>2. QED
      BY <3>1, RunSafeFrame
  <2>3. QED
    BY <1>5, <2>1, <2>2
<1>6. ASSUME NEW p \in Procs, SkipTick(p) \/ BeginTick(p) PROVE RunSafe' /\ AtMostNTicks'
  BY <1>6, RunSafeSkipTick, RunSafeBeginTick
<1>7. ASSUME NEW p \in Procs, TickDone(p) PROVE RunSafe' /\ AtMostNTicks'
  BY <1>7, RunSafeTickDone
<1>8. ASSUME CrashAndBoot PROVE RunSafe' /\ AtMostNTicks'
  BY <1>8, RunSafeStopped DEF CrashAndBoot, Running
<1>9. CASE UNCHANGED vars
  BY <1>9, RunSafeFrame DEF vars, sessionVars
<1>10. QED
  <2>1. ASSUME NEW c \in Clients, ClientCall(c) \/ Loaded(c) PROVE RunSafe' /\ AtMostNTicks'
    BY <2>1, <1>1, <1>3, <1>4, <1>5 DEF ClientCall, Loaded
  <2>2. ASSUME NEW c \in Clients, ImmediateTick(c) PROVE RunSafe' /\ AtMostNTicks'
    BY <2>2, <1>6 DEF ImmediateTick, Procs
  <2>3. ASSUME NEW f \in Fires, Fire(f) PROVE RunSafe' /\ AtMostNTicks'
    BY <2>3, <1>6 DEF Fire, Procs
  <2>4. QED
    BY <1>1, <1>2, <1>7, <1>8, <1>9, <2>1, <2>2, <2>3 DEF Next

LEMMA RunInductive == Spec => [](TypeOK /\ RunSafe /\ AtMostNTicks)
<1>1. Init => TypeOK /\ RunSafe /\ AtMostNTicks
  <2>1. Init => TypeOK
    BY TypeInit
  <2>2. Init => RunSafe
    BY DEF Init, RunSafe, Running
  <2>3. Init => AtMostNTicks
    BY DEF Init, AtMostNTicks
  <2>4. QED
    BY <2>1, <2>2, <2>3
<1>2. TypeOK /\ RunSafe /\ AtMostNTicks /\ [Next]_vars => (TypeOK /\ RunSafe /\ AtMostNTicks)'
  BY TypeStep, RunStep
<1>3. QED
  BY <1>1, <1>2, PTL DEF Spec

\* No run of the loop begins more ticks than the largest cap it has had,
\* whatever is restarted, refreshed, replaced or lost on the way.
THEOREM CapRespected == Spec => []AtMostNTicks
BY RunInductive, PTL

\* A running session is below its cap and below its safety rail.
THEOREM RunBounded == Spec => []AttemptsBounded
<1>1. RunSafe => AttemptsBounded
  BY DEF RunSafe, AttemptsBounded
<1>2. QED
  BY <1>1, RunInductive, PTL
-----------------------------------------------------------------------------
\* Why the overlap guard holds: every tick under way belongs to an entry this
\* process has put in the map, and an entry whose guard is down has none left.
Free == IF inFlight THEN 0 ELSE 1

FlightSafe ==
  /\ ~known => allocs = 0 /\ Executing = {}
  /\ known => allocs >= 1 /\ Cardinality(Executing) + Free <= allocs

LEMMA ExecutingFinite ==
  /\ IsFiniteSet(Executing) /\ Cardinality(Executing) \in Nat
  /\ Free \in {0, 1}
<1>1. IsFiniteSet(Procs)
  BY HeartbeatAssumption, FS_Union DEF Procs
<1>2. Executing \subseteq Procs
  BY DEF Executing
<1>3. Free \in {0, 1}
  BY DEF Free
<1>4. QED
  BY <1>1, <1>2, <1>3, FS_Subset, FS_CardinalityType

\* A process that waits elsewhere and goes to wait elsewhere executes no tick.
LEMMA ExecutingFrame ==
  ASSUME TypeOK, NEW p \in Procs, NEW at, at # "run", pc[p] # "run", Goto(p, at)
  PROVE  Executing' = Executing
BY DEF TypeOK, Goto, Executing

LEMMA FlightSafeFrame ==
  ASSUME FlightSafe, Executing' = Executing, UNCHANGED <<known, inFlight, allocs>>
  PROVE  FlightSafe'
BY DEF FlightSafe, Free

\* A new entry brings its own lowered guard.
LEMMA FlightSafeReplace ==
  ASSUME TypeOK, FlightSafe, Executing' = Executing, ReplaceEntry
  PROVE  FlightSafe'
<1>1. known' = TRUE /\ allocs' = allocs + 1 /\ Free' = 1 /\ allocs \in Nat
  BY DEF ReplaceEntry, Free, TypeOK
<1>2. Cardinality(Executing) <= allocs
  <2>1. CASE known
    BY <2>1, <1>1, ExecutingFinite DEF FlightSafe
  <2>2. CASE ~known
    BY <2>2, <1>1, FS_EmptySet DEF FlightSafe
  <2>3. known \in BOOLEAN
    BY DEF TypeOK
  <2>4. QED
    BY <2>1, <2>2, <2>3
<1>3. Cardinality(Executing) + 1 <= allocs + 1 /\ allocs + 1 >= 1
  BY <1>1, <1>2, ExecutingFinite
<1>4. QED
  BY <1>1, <1>3 DEF FlightSafe

LEMMA FlightStep == TypeOK /\ FlightSafe /\ [Next]_vars => FlightSafe'
<1> SUFFICES ASSUME TypeOK, FlightSafe, [Next]_vars PROVE FlightSafe'
  OBVIOUS
<1>1. ASSUME NEW c \in Clients,
             \/ Invoke(c) \/ SnapshotOnly(c) \/ OneShot(c) \/ StartCold(c) \/ StopCold(c)
             \/ GetLoaded(c) \/ LoadFailed(c) \/ OneShotDone(c) \/ TickRefused(c)
      PROVE  FlightSafe'
  <2>1. c \in Procs /\ pc[c] # "run" /\ UNCHANGED <<known, inFlight, allocs>>
    BY <1>1 DEF Invoke, SnapshotOnly, OneShot, StartCold, StopCold, GetLoaded, LoadFailed,
                OneShotDone, TickRefused, sessionVars, Procs
  <2>2. \E at : at # "run" /\ Goto(c, at)
    BY <1>1 DEF Invoke, SnapshotOnly, OneShot, StartCold, StopCold, GetLoaded, LoadFailed,
                OneShotDone, TickRefused, Return
  <2>3. QED
    BY <2>1, <2>2, ExecutingFrame, FlightSafeFrame
<1>2. ASSUME NEW p \in Procs, SaveDone(p) \/ SaveFailed(p) PROVE FlightSafe'
  <2>1. pc[p] # "run" /\ UNCHANGED <<known, inFlight, allocs>>
    BY <1>2 DEF SaveDone, SaveFailed, Saves, Resume, sessionVars
  <2>2. \E at : at # "run" /\ Goto(p, at)
    BY <1>2 DEF SaveDone, SaveFailed, Resume, Return
  <2>3. QED
    BY <2>1, <2>2, ExecutingFrame, FlightSafeFrame
<1>3. ASSUME NEW c \in Clients, StartWarm(c) \/ Stop(c) PROVE FlightSafe'
  <2>1. c \in Procs /\ pc[c] # "run" /\ UNCHANGED <<known, inFlight, allocs>>
    BY <1>3 DEF StartWarm, RefreshRun, RetimeRun, ReviveRun, Stop, Procs
  <2>2. Goto(c, "startSave") \/ Goto(c, "stopSave")
    BY <1>3 DEF StartWarm, Stop, StopEntry, Persist
  <2>3. QED
    BY <2>1, <2>2, ExecutingFrame, FlightSafeFrame
<1>4. ASSUME NEW c \in Clients, StartLoaded(c) \/ (StopLoaded(c) /\ row # NoRow)
      PROVE  FlightSafe'
  <2>1. c \in Procs /\ pc[c] # "run" /\ ReplaceEntry
    BY <1>4 DEF StartLoaded, StopLoaded, Procs
  <2>2. Goto(c, "startSave") \/ Goto(c, "stopSave")
    BY <1>4 DEF StartLoaded, StopLoaded, StopEntry, Persist
  <2>3. QED
    BY <2>1, <2>2, ExecutingFrame, FlightSafeReplace
<1>5. ASSUME NEW c \in Clients, StopLoaded(c), row = NoRow PROVE FlightSafe'
  <2>1. c \in Procs /\ pc[c] # "run" /\ Goto(c, "idle") /\ UNCHANGED <<known, inFlight, allocs>>
    BY <1>5 DEF StopLoaded, Return, sessionVars, Procs
  <2>2. QED
    BY <2>1, ExecutingFrame, FlightSafeFrame
<1>6. ASSUME NEW p \in Procs, pc[p] # "run", SkipTick(p) PROVE FlightSafe'
  <2>1. Goto(p, "skipSave") /\ UNCHANGED <<known, inFlight, allocs>>
    BY <1>6 DEF SkipTick, Persist
  <2>2. QED
    BY <1>6, <2>1, ExecutingFrame, FlightSafeFrame
<1>7. ASSUME NEW p \in Procs, pc[p] # "run", BeginTick(p) PROVE FlightSafe'
  <2>1. known /\ ~inFlight /\ inFlight' = TRUE /\ UNCHANGED <<known, allocs>> /\ Goto(p, "run")
    BY <1>7 DEF BeginTick
  <2>2. Executing' = Executing \union {p} /\ p \notin Executing
    BY <1>7, <2>1 DEF TypeOK, Goto, Executing
  <2>3. Cardinality(Executing') = Cardinality(Executing) + 1
    BY <2>2, ExecutingFinite, FS_AddElement
  <2>4. Free = 1 /\ Free' = 0 /\ allocs >= 1 /\ Cardinality(Executing) + 1 <= allocs
    BY <2>1 DEF FlightSafe, Free
  <2>5. Cardinality(Executing') + Free' <= allocs
    BY <2>3, <2>4, ExecutingFinite DEF TypeOK
  <2>6. QED
    BY <2>1, <2>4, <2>5 DEF FlightSafe
<1>8. ASSUME NEW p \in Procs, TickDone(p) PROVE FlightSafe'
  <2>1. pc[p] = "run" /\ inFlight' = FALSE /\ UNCHANGED <<known, allocs>> /\ Goto(p, "tickSave")
    BY <1>8 DEF TickDone, Persist
  <2>2. Executing' = Executing \ {p} /\ p \in Executing
    BY <2>1 DEF TypeOK, Goto, Executing
  <2>3. Cardinality(Executing') = Cardinality(Executing) - 1
    BY <2>2, ExecutingFinite, FS_RemoveElement
  <2>4. known /\ allocs >= 1 /\ Cardinality(Executing) + Free <= allocs
    BY <2>2 DEF FlightSafe, TypeOK
  <2>5. Free' = 1
    BY <2>1 DEF Free
  <2>6. Cardinality(Executing') + 1 <= allocs
    BY <2>3, <2>4, ExecutingFinite DEF TypeOK
  <2>7. QED
    BY <2>1, <2>4, <2>5, <2>6 DEF FlightSafe
<1>9. ASSUME CrashAndBoot PROVE FlightSafe'
  <2>1. ~known' /\ allocs' = 0 /\ Executing' = {}
    BY <1>9 DEF CrashAndBoot, Executing
  <2>2. QED
    BY <2>1 DEF FlightSafe
<1>10. CASE UNCHANGED vars
  BY <1>10, FlightSafeFrame DEF vars, sessionVars, procVars, Executing
<1>11. QED
  <2>1. ASSUME NEW c \in Clients, ClientCall(c) \/ Loaded(c) PROVE FlightSafe'
    BY <2>1, <1>1, <1>3, <1>4, <1>5 DEF ClientCall, Loaded
  <2>2. ASSUME NEW c \in Clients, ImmediateTick(c) PROVE FlightSafe'
    BY <2>2, <1>6, <1>7 DEF ImmediateTick, Procs
  <2>3. ASSUME NEW f \in Fires, Fire(f) PROVE FlightSafe'
    BY <2>3, <1>6, <1>7 DEF Fire, Procs
  <2>4. QED
    BY <1>1, <1>2, <1>8, <1>9, <1>10, <2>1, <2>2, <2>3 DEF Next

\* As many ticks execute at once as this process has put entries in the map: one
\* at a time, unless the entry under the first one was replaced.
THEOREM FlightsGuarded == Spec => []FlightsBounded
<1>1. Init => FlightSafe
  <2>1. Init => ~known /\ allocs = 0 /\ Executing = {}
    BY DEF Init, Executing
  <2>2. QED
    BY <2>1 DEF FlightSafe
<1>2. TypeOK /\ FlightSafe => FlightsBounded
  <2> SUFFICES ASSUME TypeOK, FlightSafe PROVE FlightsBounded
    OBVIOUS
  <2>1. CASE known
    <3>1. Cardinality(Executing) <= allocs /\ allocs \in Nat /\ allocs >= 1
      BY <2>1, ExecutingFinite DEF FlightSafe, TypeOK
    <3>2. QED
      BY <3>1, ExecutingFinite DEF FlightsBounded, HigherOf
  <2>2. CASE ~known
    <3>1. Cardinality(Executing) = 0 /\ HigherOf(1, allocs) = 1
      BY <2>2, FS_EmptySet DEF FlightSafe, HigherOf
    <3>2. QED
      BY <3>1 DEF FlightsBounded
  <2>3. QED
    BY <2>1, <2>2 DEF TypeOK
<1>3. QED
  BY <1>1, <1>2, TypeInit, TypeStep, FlightStep, PTL DEF Spec

LEMMA TimerStep == TypeOK /\ TimerIffRunning /\ [Next]_vars => TimerIffRunning'
<1> SUFFICES ASSUME TypeOK, TimerIffRunning, [Next]_vars PROVE TimerIffRunning'
  OBVIOUS
<1> USE DEF TimerIffRunning, Running
<1>1. ASSUME NEW c \in Clients,
             \/ Invoke(c) \/ SnapshotOnly(c) \/ OneShot(c) \/ StartCold(c) \/ StopCold(c)
             \/ GetLoaded(c) \/ LoadFailed(c) \/ OneShotDone(c) \/ TickRefused(c)
      PROVE  TimerIffRunning'
  BY <1>1 DEF Invoke, SnapshotOnly, OneShot, StartCold, StopCold, GetLoaded, LoadFailed,
              OneShotDone, TickRefused, sessionVars
<1>2. ASSUME NEW p \in Procs, SaveDone(p) \/ SaveFailed(p) PROVE TimerIffRunning'
  BY <1>2 DEF SaveDone, SaveFailed, Resume, sessionVars
<1>3. ASSUME NEW c \in Clients, StartWarm(c) PROVE TimerIffRunning'
  <2>1. CASE RefreshRun(c)
    BY <2>1 DEF RefreshRun, TypeOK, Snapshot
  <2>2. CASE RetimeRun(c)
    BY <2>2, <1>3 DEF RetimeRun, StartWarm, TypeOK, Snapshot
  <2>3. CASE ReviveRun(c)
    BY <2>3, <1>3 DEF ReviveRun, StartWarm, BeginRun, FreshRun
  <2>4. QED
    BY <1>3, <2>1, <2>2, <2>3 DEF StartWarm
<1>4. ASSUME NEW c \in Clients, StartLoaded(c) PROVE TimerIffRunning'
  <2>1. known' = TRUE /\ \E max : BeginRun(c, max)
    BY <1>4 DEF StartLoaded, ReplaceEntry
  <2>2. timer' = TRUE /\ sess'.running = TRUE
    BY <2>1 DEF BeginRun, FreshRun
  <2>3. QED
    BY <2>1, <2>2
<1>5. ASSUME NEW c \in Clients, NEW s \in Snapshot, StopEntry(c, s) PROVE TimerIffRunning'
  BY <1>5 DEF StopEntry, Snapshot
<1>6. ASSUME NEW c \in Clients, StopLoaded(c), row = NoRow PROVE TimerIffRunning'
  BY <1>6 DEF StopLoaded, sessionVars
<1>7. ASSUME NEW p \in Procs, SkipTick(p) PROVE TimerIffRunning'
  <2> DEFINE s == [sess EXCEPT !.skipped = @ + 1]
  <2>1. s \in Snapshot
    BY SnapshotSteps DEF TypeOK
  <2>2. sess'.running = ~RailTripped(s) /\ timer' = (timer /\ ~RailTripped(s))
    BY <1>7, <2>1 DEF SkipTick, Snapshot
  <2>3. RailTripped(s) \in BOOLEAN /\ timer = TRUE /\ known' = TRUE
    BY <1>7, <2>1, SnapshotSteps DEF SkipTick, TypeOK
  <2>4. QED
    BY <2>2, <2>3
<1>8. ASSUME NEW p \in Procs, BeginTick(p) PROVE TimerIffRunning'
  BY <1>8 DEF BeginTick
<1>9. ASSUME NEW p \in Procs, TickDone(p) PROVE TimerIffRunning'
  <2> DEFINE s == ApplyDelta(sess)
  <2>1. sess \in Snapshot /\ s \in Snapshot /\ s.running = sess.running
    BY SnapshotSteps DEF TypeOK, ApplyDelta, Snapshot
  <2>2. sess'.running = (sess.running /\ ~Capped(s))
        /\ timer' = (timer /\ ~(sess.running /\ Capped(s))) /\ known' = known
    BY <1>9, <2>1 DEF TickDone, Snapshot
  <2>3. Capped(s) \in BOOLEAN /\ sess.running \in BOOLEAN /\ known \in BOOLEAN
    BY <2>1, SnapshotSteps DEF TypeOK
  <2>4. QED
    BY <2>2, <2>3
<1>10. ASSUME CrashAndBoot PROVE TimerIffRunning'
  BY <1>10 DEF CrashAndBoot
<1>11. CASE UNCHANGED vars
  BY <1>11 DEF vars, sessionVars
<1>12. QED
  <2>1. ASSUME NEW c \in Clients, Stop(c) \/ StopLoaded(c) PROVE TimerIffRunning'
    BY <2>1, <1>5, <1>6 DEF Stop, StopLoaded, TypeOK
  <2>2. ASSUME NEW c \in Clients, ClientCall(c) \/ Loaded(c) PROVE TimerIffRunning'
    BY <2>1, <2>2, <1>1, <1>3, <1>4 DEF ClientCall, Loaded
  <2>3. ASSUME NEW c \in Clients, ImmediateTick(c) PROVE TimerIffRunning'
    BY <2>3, <1>7, <1>8 DEF ImmediateTick, Procs
  <2>4. ASSUME NEW f \in Fires, Fire(f) PROVE TimerIffRunning'
    BY <2>4, <1>7, <1>8 DEF Fire, Procs
  <2>5. QED
    BY <1>1, <1>2, <1>9, <1>10, <1>11, <2>2, <2>3, <2>4 DEF Next

\* The entry's interval is installed exactly while the session runs.
THEOREM TimerTracksRunning == Spec => []TimerIffRunning
<1>1. Init => TimerIffRunning
  BY DEF Init, TimerIffRunning, Running
<1>2. QED
  BY <1>1, TypeInit, TypeStep, TimerStep, PTL DEF Spec
-----------------------------------------------------------------------------
\* Why the recent ticks are never more than the run has counted: they grow with
\* the count, and only a second entry may start at zero without a wipe.
RingSafe == RecentTicksCounted /\ (~known => ring = <<>>)

LEMMA RingFrame ==
  ASSUME RingSafe, UNCHANGED <<known, allocs, ring>>, sess'.ticks = sess.ticks
  PROVE  RingSafe'
BY DEF RingSafe, RecentTicksCounted

LEMMA RingWiped ==
  ASSUME ring' = <<>>, sess'.ticks \in Nat
  PROVE  RingSafe'
<1>1. Len(ring') = 0 /\ 0 <= RingLimit /\ 0 <= sess'.ticks
  BY HeartbeatAssumption
<1>2. QED
  BY <1>1 DEF RingSafe, RecentTicksCounted

\* A wipe comes with a restart of the entry the map holds.
LEMMA RingStart ==
  ASSUME TypeOK, TypeOK', FlightSafe, RingSafe, NEW c \in Clients, StartWarm(c) \/ StartLoaded(c)
  PROVE  RingSafe'
<1>1. sess \in Snapshot /\ sess' \in Snapshot /\ allocs \in Nat
  BY DEF TypeOK
<1>2. sess'.ticks \in Nat
  BY <1>1 DEF Snapshot
<1>3. CASE StartWarm(c) /\ (RefreshRun(c) \/ RetimeRun(c))
  <2>1. sess'.ticks = sess.ticks /\ UNCHANGED <<known, allocs, ring>>
    BY <1>1, <1>3 DEF RefreshRun, RetimeRun, Snapshot
  <2>2. QED
    BY <2>1, RingFrame
<1>4. CASE StartWarm(c) /\ ReviveRun(c)
  BY <1>2, <1>4, RingWiped DEF ReviveRun
<1>5. CASE StartLoaded(c) /\ ring' = <<>>
  BY <1>2, <1>5, RingWiped
<1>6. CASE StartLoaded(c) /\ ring' = ring
  <2>1. known' = TRUE /\ allocs' = allocs + 1
    BY <1>6 DEF StartLoaded, ReplaceEntry
  <2>2. CASE known
    <3>1. allocs >= 1
      BY <2>2 DEF FlightSafe
    <3>2. QED
      BY <1>1, <1>6, <2>1, <3>1 DEF RingSafe, RecentTicksCounted
  <2>3. CASE ~known
    BY <1>2, <1>6, <2>3, RingWiped DEF RingSafe
  <2>4. QED
    BY <2>2, <2>3
<1>7. QED
  BY <1>3, <1>4, <1>5, <1>6 DEF StartWarm, StartLoaded

\* A tick that ends adds one to each.
LEMMA RingPush ==
  ASSUME TypeOK, FlightSafe, RingSafe, NEW p \in Procs, TickDone(p)
  PROVE  RingSafe'
<1>1. known /\ known' = known /\ allocs' = allocs
  <2>1. p \in Executing /\ known \in BOOLEAN
    BY DEF TickDone, Executing, TypeOK
  <2>2. QED
    BY <2>1 DEF FlightSafe, TickDone
<1>2. sess'.ticks = sess.ticks + 1 /\ sess.ticks \in Nat
  BY DEF TickDone, ApplyDelta, TypeOK, Snapshot
<1>3. ring \in Seq(Nat) /\ began[p] \in Nat /\ Len(ring) \in Nat /\ RingLimit \in Nat \ {0}
  BY HeartbeatAssumption DEF TypeOK
<1>4. CASE Len(ring) < RingLimit
  <2>1. Len(ring') = Len(ring) + 1
    BY <1>3, <1>4 DEF TickDone, PushRecent
  <2>2. QED
    BY <1>1, <1>2, <1>3, <1>4, <2>1 DEF RingSafe, RecentTicksCounted
<1>5. CASE ~(Len(ring) < RingLimit)
  <2>1. ring # <<>> /\ Tail(ring) \in Seq(Nat) /\ Len(Tail(ring)) = Len(ring) - 1
    BY <1>3, <1>5
  <2>2. Len(ring') = Len(ring)
    BY <1>3, <1>5, <2>1 DEF TickDone, PushRecent
  <2>3. QED
    BY <1>1, <1>2, <1>3, <2>2 DEF RingSafe, RecentTicksCounted
<1>6. QED
  BY <1>4, <1>5

LEMMA RingStep == TypeOK /\ TypeOK' /\ FlightSafe /\ RingSafe /\ [Next]_vars => RingSafe'
<1> SUFFICES ASSUME TypeOK, TypeOK', FlightSafe, RingSafe, [Next]_vars PROVE RingSafe'
  OBVIOUS
<1>1. sess'.ticks \in Nat
  BY DEF TypeOK, Snapshot
<1>2. ASSUME UNCHANGED sessionVars PROVE RingSafe'
  BY <1>2, RingFrame DEF sessionVars
<1>3. ASSUME NEW c \in Clients, Stop(c) PROVE RingSafe'
  BY <1>1, <1>3, RingWiped DEF Stop, StopEntry
<1>4. ASSUME NEW c \in Clients, StopLoaded(c) PROVE RingSafe'
  BY <1>1, <1>2, <1>4, RingWiped DEF StopLoaded, StopEntry
<1>5. ASSUME NEW p \in Procs, SkipTick(p) PROVE RingSafe'
  BY <1>5, RingFrame DEF SkipTick, TypeOK, Snapshot
<1>6. ASSUME NEW p \in Procs, BeginTick(p) PROVE RingSafe'
  BY <1>6, RingFrame DEF BeginTick
<1>7. ASSUME CrashAndBoot PROVE RingSafe'
  BY <1>1, <1>7, RingWiped DEF CrashAndBoot
<1>8. ASSUME NEW c \in Clients, ClientCall(c) \/ Loaded(c) \/ OneShotDone(c) \/ TickRefused(c)
      PROVE  RingSafe'
  <2>1. CASE StartWarm(c) \/ StartLoaded(c)
    BY <2>1, RingStart
  <2>2. CASE \/ Invoke(c) \/ SnapshotOnly(c) \/ OneShot(c) \/ StartCold(c) \/ StopCold(c)
             \/ GetLoaded(c) \/ LoadFailed(c) \/ OneShotDone(c) \/ TickRefused(c)
    BY <2>2, <1>2 DEF Invoke, SnapshotOnly, OneShot, StartCold, StopCold, GetLoaded, LoadFailed,
                      OneShotDone, TickRefused
  <2>3. QED
    BY <1>3, <1>4, <1>8, <2>1, <2>2 DEF ClientCall, Loaded
<1>9. ASSUME NEW p \in Procs, SaveDone(p) \/ SaveFailed(p) PROVE RingSafe'
  BY <1>2, <1>9 DEF SaveDone, SaveFailed, Resume
<1>10. CASE UNCHANGED vars
  BY <1>2, <1>10 DEF vars
<1>11. QED
  <2>1. ASSUME NEW p \in Procs, SkipTick(p) \/ BeginTick(p) \/ TickDone(p) PROVE RingSafe'
    BY <1>5, <1>6, <2>1, RingPush
  <2>2. QED
    BY <1>7, <1>8, <1>9, <1>10, <2>1 DEF Next, ImmediateTick, Fire, Procs

\* What FlightSafe and the types say at the start.
LEMMA FlightInit == Init => FlightSafe
<1>1. Init => ~known /\ allocs = 0 /\ Executing = {}
  BY DEF Init, Executing
<1>2. QED
  BY <1>1 DEF FlightSafe

\* The recent ticks fit the ring and the run's own count, as long as this process
\* has put one entry in the map (pushRecentTick, the wipes of start and stop).
THEOREM RecentTicksMatch == Spec => []RecentTicksCounted
<1>1. Init => RingSafe
  <2>1. Init => TypeOK /\ ring = <<>>
    BY TypeInit DEF Init
  <2>2. TypeOK /\ ring = <<>> => RingSafe
    BY HeartbeatAssumption DEF TypeOK, Snapshot, RingSafe, RecentTicksCounted
  <2>3. QED
    BY <2>1, <2>2
<1>2. RingSafe => RecentTicksCounted
  BY DEF RingSafe
<1>3. QED
  BY <1>1, <1>2, TypeInit, FlightInit, TypeStep, FlightStep, RingStep, PTL DEF Spec

-----------------------------------------------------------------------------
\* Why the row of a booted process is never running: until it starts a session
\* nothing is written, and what the boot left is reset.
GhostSafe == NoGhostRow /\ (~known => \A p \in Procs : ~Saves(p))

LEMMA GhostStep == TypeOK /\ FlightSafe /\ GhostSafe /\ [Next]_vars => GhostSafe'
<1> SUFFICES ASSUME TypeOK, FlightSafe, GhostSafe, [Next]_vars PROVE GhostSafe'
  OBVIOUS
<1>1. ASSUME known' = TRUE PROVE GhostSafe'
  BY <1>1 DEF GhostSafe, NoGhostRow
<1>2. CASE UNCHANGED vars
  BY <1>2 DEF vars, sessionVars, dbVars, procVars, GhostSafe, NoGhostRow, Saves
<1>3. ASSUME NEW p \in Procs, NEW at, Goto(p, at), UNCHANGED <<known, row>>,
             at \notin {"startSave", "tickSave", "skipSave", "stopSave"}
      PROVE  GhostSafe'
  <2>1. \A q \in Procs : pc'[q] = IF q = p THEN at ELSE pc[q]
    BY <1>3 DEF Goto, TypeOK
  <2>2. QED
    BY <1>3, <2>1 DEF GhostSafe, NoGhostRow, Saves
<1>4. ASSUME NEW c \in Clients, ClientCall(c) \/ Loaded(c) \/ OneShotDone(c) \/ TickRefused(c)
      PROVE  GhostSafe'
  <2>1. CASE \/ Invoke(c) \/ SnapshotOnly(c) \/ OneShot(c) \/ StartCold(c) \/ StopCold(c)
             \/ GetLoaded(c) \/ LoadFailed(c) \/ OneShotDone(c) \/ TickRefused(c)
             \/ StopLoaded(c) /\ row = NoRow
    <3>1. /\ UNCHANGED <<known, row>>
          /\ \E at : at \notin {"startSave", "tickSave", "skipSave", "stopSave"} /\ Goto(c, at)
      BY <2>1 DEF Invoke, SnapshotOnly, OneShot, StartCold, StopCold, GetLoaded, LoadFailed,
                  OneShotDone, TickRefused, StopLoaded, Return, sessionVars, dbVars
    <3>2. QED
      BY <1>3, <3>1 DEF Procs
  <2>2. CASE StartWarm(c) \/ StartLoaded(c) \/ Stop(c) \/ (StopLoaded(c) /\ row # NoRow)
    <3>1. known' = TRUE
      BY <2>2 DEF StartWarm, RefreshRun, RetimeRun, ReviveRun, StartLoaded, Stop, StopLoaded,
                  ReplaceEntry, TypeOK
    <3>2. QED
      BY <1>1, <3>1
  <2>3. QED
    BY <1>4, <2>1, <2>2 DEF ClientCall, Loaded
<1>5. ASSUME NEW p \in Procs, SkipTick(p) \/ BeginTick(p) PROVE GhostSafe'
  BY <1>1, <1>5 DEF SkipTick, BeginTick, TypeOK
<1>6. ASSUME NEW p \in Procs, TickDone(p) PROVE GhostSafe'
  <2>1. p \in Executing /\ known' = known /\ known \in BOOLEAN
    BY <1>6 DEF TickDone, Executing, TypeOK
  <2>2. QED
    BY <1>1, <2>1 DEF FlightSafe
<1>7. ASSUME NEW p \in Procs, SaveDone(p) \/ SaveFailed(p) PROVE GhostSafe'
  <2>1. known' = known /\ known \in BOOLEAN /\ Saves(p)
    BY <1>7 DEF SaveDone, SaveFailed, Resume, sessionVars, TypeOK
  <2>2. QED
    BY <1>1, <2>1 DEF GhostSafe
<1>8. ASSUME CrashAndBoot PROVE GhostSafe'
  <2>1. PICK r \in {row} \union {saving[p] : p \in {q \in Procs : Saves(q) /\ q \in wire}} :
          row' = ResetRunning(r)
    BY <1>8 DEF CrashAndBoot
  <2>2. r \in Snapshot \union {NoRow}
    BY <2>1 DEF TypeOK
  <2>3. row' # NoRow => ~row'.running
    BY <2>1, <2>2 DEF ResetRunning, Snapshot
  <2>4. \A p \in Procs : pc'[p] = "idle"
    BY <1>8 DEF CrashAndBoot
  <2>5. QED
    BY <2>3, <2>4 DEF GhostSafe, NoGhostRow, Saves
<1>9. QED
  BY <1>2, <1>4, <1>5, <1>6, <1>7, <1>8 DEF Next, ImmediateTick, Fire, Procs

\* After a boot, and until this process starts a session, the row never claims a
\* running loop (ensureSchema, persist).
THEOREM NoGhostAfterBoot == Spec => []NoGhostRow
<1>1. Init => GhostSafe
  BY DEF Init, GhostSafe, NoGhostRow, Saves
<1>2. GhostSafe => NoGhostRow
  BY DEF GhostSafe
<1>3. QED
  BY <1>1, <1>2, TypeInit, FlightInit, TypeStep, FlightStep, GhostStep, PTL DEF Spec
-----------------------------------------------------------------------------
\* Why one connection makes the row catch up: the queries stand in one line, each
\* process once, and the newest upsert of the line is of the entry as it is.
InLine(p) == p \in wire \/ \E i \in DOMAIN queue : queue[i] = p

Before(p, q) ==
  \/ p \in wire
  \/ \E i, j \in DOMAIN queue : i < j /\ queue[i] = p /\ queue[j] = q

Line ==
  /\ \A p, q \in wire : p = q
  /\ wire = {} => queue = <<>>
  /\ \A i, j \in DOMAIN queue : queue[i] = queue[j] => i = j
  /\ \A i \in DOMAIN queue : queue[i] \notin wire

\* The awaits of a query; the processes in the line are at one.
Waits == {"get", "load", "startSave", "tickSave", "skipSave", "stopLoad", "stopSave"}

LineSafe == PoolMax = 1 => Line /\ \A p \in Procs : InLine(p) => pc[p] \in Waits

NewestSave(p) ==
  InLine(p) /\ Saves(p) /\ \A q \in Procs : InLine(q) /\ Saves(q) => q = p \/ Before(q, p)

RowSafe ==
  PoolMax = 1 /\ failures = 0 /\ known =>
    /\ \A p \in Procs : NewestSave(p) => saving[p] = sess
    /\ (\A p \in Procs : InLine(p) => ~Saves(p)) => row = sess

LEMMA Places ==
  ASSUME NEW n \in Nat \ {0}
  PROVE  /\ 1 \in 1 .. n
         /\ \A i \in 1 .. n : i = n \/ i \in 1 .. n - 1
         /\ \A i \in 1 .. n - 1 : i \in 1 .. n /\ i + 1 \in 1 .. n /\ i + 1 # 1
OBVIOUS

\* One connection and a process that asks behind nobody: nobody waits.
LEMMA OneConnection ==
  ASSUME TypeOK, PoolMax = 1, Line
  PROVE  /\ IsFiniteSet(wire) /\ Cardinality(wire) \in Nat
         /\ Cardinality(wire) < PoolMax <=> wire = {}
<1>1. IsFiniteSet(wire)
  <2>1. IsFiniteSet(Procs)
    BY HeartbeatAssumption, FS_Union DEF Procs
  <2>2. QED
    BY <2>1, FS_Subset DEF TypeOK
<1>2. Cardinality(wire) \in Nat /\ (Cardinality(wire) = 0 <=> wire = {})
  BY <1>1, FS_CardinalityType, FS_EmptySet
<1>3. QED
  BY <1>1, <1>2

\* Who is answered leaves the line, and the others stay in their order.
LEMMA LineRelease ==
  ASSUME TypeOK, Line, NEW p \in Procs, p \in wire, Release(p)
  PROVE  /\ Line'
         /\ \A q \in Procs : (InLine(q))' <=> InLine(q) /\ q # p
         /\ \A q, r \in Procs :
              q # r /\ InLine(q) /\ (InLine(r))' /\ (Before(q, r))' => Before(q, r)
<1>1. CASE queue = <<>>
  <2>1. wire = {p} /\ wire' = {} /\ queue' = <<>>
    BY <1>1 DEF Release, Line
  <2>2. QED
    BY <1>1, <2>1 DEF Line, InLine, Before
<1>2. CASE queue # <<>>
  <2> DEFINE n == Len(queue)
  <2>1. /\ n \in Nat \ {0} /\ DOMAIN queue = 1 .. n /\ wire' = {Head(queue)}
        /\ Head(queue) = queue[1] /\ queue' = Tail(queue)
    BY <1>2, HeadTailProperties DEF Release, Line, TypeOK
  <2>2. DOMAIN queue' = 1 .. n - 1 /\ \A i \in 1 .. n - 1 : queue'[i] = queue[i + 1]
    BY <1>2, <2>1, HeadTailProperties DEF TypeOK
  <2>3. Line'
    BY <2>1, <2>2 DEF Line
  <2>4. ASSUME NEW q \in Procs PROVE (InLine(q))' <=> InLine(q) /\ q # p
    <3>1. (InLine(q))' => InLine(q) /\ q # p
      BY <2>1, <2>2 DEF Line, InLine
    <3>2. ASSUME InLine(q), q # p PROVE (InLine(q))'
      <4>1. PICK i \in 1 .. n : queue[i] = q
        BY <2>1, <3>2 DEF InLine, Line
      <4>2. CASE i = 1
        BY <2>1, <4>1, <4>2 DEF InLine
      <4>3. CASE i # 1
        <5>1. i - 1 \in 1 .. n - 1 /\ queue'[i - 1] = q
          BY <2>1, <2>2, <4>1, <4>3
        <5>2. QED
          BY <2>2, <5>1 DEF InLine
      <4>4. QED
        BY <4>2, <4>3
    <3>3. QED
      BY <3>1, <3>2
  <2>5. ASSUME NEW q \in Procs, NEW r \in Procs, q # r, InLine(q), (InLine(r))', (Before(q, r))'
        PROVE  Before(q, r)
    <3>1. CASE q = queue[1]
      <4>1. PICK j \in 1 .. n : queue[j] = r
        BY <2>1, <2>2, <2>4, <2>5, <3>1 DEF InLine, Line
      <4>2. 1 < j
        BY <2>5, <3>1, <4>1
      <4>3. QED
        BY <2>1, <3>1, <4>1, <4>2 DEF Before
    <3>2. CASE q # queue[1]
      <4>1. PICK i, j \in 1 .. n - 1 : i < j /\ queue'[i] = q /\ queue'[j] = r
        BY <2>1, <2>2, <2>5, <3>2 DEF Before
      <4>2. i + 1 \in 1 .. n /\ j + 1 \in 1 .. n /\ i + 1 < j + 1
            /\ queue[i + 1] = q /\ queue[j + 1] = r
        BY <2>1, <2>2, <4>1
      <4>3. QED
        BY <2>1, <4>2 DEF Before
    <3>3. QED
      BY <3>1, <3>2
  <2>6. QED
    BY <2>3, <2>4, <2>5
<1>3. QED
  BY <1>1, <1>2

\* Who asks stands behind everybody else, and the others stay in their order.
LEMMA LineQuery ==
  ASSUME TypeOK, PoolMax = 1, Line, NEW p \in Procs, p \in wire \/ ~InLine(p), Query(p)
  PROVE  /\ Line'
         /\ \A q \in Procs : (InLine(q))' <=> InLine(q) \/ q = p
         /\ \A q, r \in Procs :
              q # r /\ q # p /\ r # p /\ (InLine(r))' /\ (Before(q, r))' => Before(q, r)
         /\ \A q \in Procs : q # p /\ (InLine(q))' => ~(Before(p, q))'
<1> DEFINE n == Len(queue)
<1>0. n \in Nat /\ DOMAIN queue = 1 .. n /\ queue \in Seq(Procs)
  BY DEF TypeOK
<1>1. CASE p \in wire /\ queue = <<>>
  <2>1. wire = {p} /\ wire' = wire /\ queue' = queue
    BY <1>1 DEF Query, Line
  <2>2. QED
    BY <1>1, <2>1 DEF Line, InLine, Before
<1>2. CASE p \in wire /\ queue # <<>>
  <2>1. /\ n \in Nat \ {0} /\ wire = {p} /\ wire' = {queue[1]} /\ queue[1] # p
        /\ queue' = Append(Tail(queue), p) /\ Tail(queue) \in Seq(Procs)
        /\ Len(Tail(queue)) = n - 1
        /\ \A i \in 1 .. n - 1 : Tail(queue)[i] = queue[i + 1]
    BY <1>0, <1>2, HeadTailProperties DEF Query, Line
  <2>2. /\ DOMAIN queue' = 1 .. n /\ queue'[n] = p
        /\ \A i \in 1 .. n - 1 : queue'[i] = queue[i + 1]
    BY <2>1, AppendProperties
  <2>3. Line'
    <3>1. \A i, j \in 1 .. n : queue[i] = queue[j] => i = j
      BY <1>0 DEF Line
    <3>2. \A i \in 1 .. n : queue[i] # p
      BY <1>0, <1>2 DEF Line
    <3>3. 1 \in 1 .. n /\ \A i \in 1 .. n - 1 : i + 1 \in 1 .. n /\ i + 1 # 1
      BY <2>1, Places
    <3>4. \A i \in 1 .. n : i = n \/ i \in 1 .. n - 1
      BY <2>1, Places
    <3>5. \A i, j \in 1 .. n : queue'[i] = queue'[j] => i = j
      BY <2>2, <3>1, <3>2, <3>3, <3>4
    <3>6. \A i \in 1 .. n : queue'[i] # queue[1]
      <4>1. queue'[n] # queue[1]
        BY <2>1, <2>2
      <4>2. \A i \in 1 .. n - 1 : queue[i + 1] # queue[1]
        BY <3>1, <3>3
      <4>3. QED
        BY <2>2, <3>4, <4>1, <4>2
    <3>7. QED
      BY <2>1, <2>2, <3>5, <3>6 DEF Line
  <2>4. ASSUME NEW q \in Procs PROVE (InLine(q))' <=> InLine(q) \/ q = p
    <3>1. (InLine(q))' => InLine(q) \/ q = p
      BY <1>0, <2>1, <2>2 DEF InLine
    <3>2. q = p => (InLine(q))'
      BY <2>1, <2>2 DEF InLine
    <3>3. ASSUME InLine(q), q # p PROVE (InLine(q))'
      <4>1. PICK i \in 1 .. n : queue[i] = q
        BY <1>0, <2>1, <3>3 DEF InLine
      <4>2. CASE i = 1
        BY <2>1, <4>1, <4>2 DEF InLine
      <4>3. CASE i # 1
        <5>1. i - 1 \in 1 .. n - 1 /\ i - 1 \in 1 .. n /\ queue'[i - 1] = q
          BY <2>1, <2>2, <4>1, <4>3
        <5>2. QED
          BY <2>2, <5>1 DEF InLine
      <4>4. QED
        BY <4>2, <4>3
    <3>4. QED
      BY <3>1, <3>2, <3>3
  <2>5. ASSUME NEW q \in Procs, NEW r \in Procs,
               q # r, q # p, r # p, (InLine(r))', (Before(q, r))'
        PROVE  Before(q, r)
    <3>1. CASE q = queue[1]
      <4>1. PICK j \in 1 .. n : queue[j] = r
        BY <1>0, <2>1, <2>4, <2>5 DEF InLine
      <4>2. 1 < j
        BY <2>5, <3>1, <4>1
      <4>3. 1 \in 1 .. n
        BY <2>1
      <4>4. QED
        BY <1>0, <3>1, <4>1, <4>2, <4>3 DEF Before
    <3>2. CASE q # queue[1]
      <4>1. PICK i, j \in 1 .. n : i < j /\ queue'[i] = q /\ queue'[j] = r
        BY <2>1, <2>2, <2>5, <3>2 DEF Before
      <4>2. i # n /\ j # n
        BY <2>2, <2>5, <4>1
      <4>5. i \in 1 .. n - 1 /\ j \in 1 .. n - 1
        BY <2>1, <4>1, <4>2, Places
      <4>3. i + 1 \in 1 .. n /\ j + 1 \in 1 .. n /\ i + 1 < j + 1
            /\ queue[i + 1] = q /\ queue[j + 1] = r
        BY <1>0, <2>2, <4>1, <4>5
      <4>4. QED
        BY <1>0, <4>3 DEF Before
    <3>3. QED
      BY <3>1, <3>2
  <2>6. ASSUME NEW q \in Procs, q # p, (InLine(q))', (Before(p, q))' PROVE FALSE
    <3>1. PICK i, j \in 1 .. n : i < j /\ queue'[i] = p
      BY <2>1, <2>2, <2>6 DEF Before
    <3>4. i \in 1 .. n - 1 /\ i + 1 \in 1 .. n
      BY <1>0, <3>1
    <3>2. queue[i + 1] = p
      BY <2>2, <3>1, <3>4
    <3>3. QED
      BY <1>0, <1>2, <3>2, <3>4 DEF Line
  <2>7. QED
    BY <2>3, <2>4, <2>5, <2>6
<1>3. CASE p \notin wire /\ wire = {}
  <2>1. wire' = {p} /\ queue = <<>> /\ queue' = queue
    BY <1>3, OneConnection DEF Query, Line
  <2>2. QED
    BY <1>3, <2>1 DEF Line, InLine, Before
<1>4. CASE p \notin wire /\ wire # {}
  <2>1. wire' = wire /\ queue' = Append(queue, p)
    BY <1>4, OneConnection, HeartbeatAssumption DEF Query
  <2>2. /\ DOMAIN queue' = 1 .. n + 1 /\ queue'[n + 1] = p
        /\ \A i \in 1 .. n : queue'[i] = queue[i]
    BY <1>0, <2>1, AppendProperties
  <2>3. \A i \in 1 .. n : queue[i] # p
    BY <1>0, <1>4 DEF InLine
  <2>4. Line'
    BY <1>0, <1>4, <2>1, <2>2, <2>3 DEF Line
  <2>5. ASSUME NEW q \in Procs PROVE (InLine(q))' <=> InLine(q) \/ q = p
    BY <1>0, <2>1, <2>2 DEF InLine
  <2>6. ASSUME NEW q \in Procs, NEW r \in Procs,
               q # r, q # p, r # p, (InLine(r))', (Before(q, r))'
        PROVE  Before(q, r)
    BY <1>0, <2>1, <2>2, <2>6 DEF Before
  <2>7. ASSUME NEW q \in Procs, q # p, (InLine(q))', (Before(p, q))' PROVE FALSE
    BY <1>0, <1>4, <2>1, <2>2, <2>3, <2>7 DEF Before
  <2>8. QED
    BY <2>4, <2>5, <2>6, <2>7
<1>5. QED
  BY <1>1, <1>2, <1>3, <1>4

\* A process goes on without the line, asks, or is answered.
LEMMA LineKept ==
  ASSUME TypeOK, LineSafe, NEW p \in Procs, NEW at, Goto(p, at),
         \/ pc[p] \notin Waits /\ UNCHANGED <<wire, queue>>
         \/ Query(p) /\ at \in Waits /\ (p \in wire \/ pc[p] \notin Waits)
         \/ Release(p) /\ p \in wire
  PROVE  LineSafe'
<1> SUFFICES ASSUME PoolMax = 1 PROVE LineSafe'
  BY DEF LineSafe
<1>0. Line /\ \A q \in Procs : InLine(q) => pc[q] \in Waits
  BY DEF LineSafe, Waits
<1>1. \A q \in Procs : pc'[q] = IF q = p THEN at ELSE pc[q]
  BY DEF Goto, TypeOK
<1>2. CASE pc[p] \notin Waits /\ UNCHANGED <<wire, queue>>
  BY <1>0, <1>1, <1>2 DEF LineSafe, Line, InLine, Waits
<1>3. CASE Query(p) /\ at \in Waits /\ (p \in wire \/ pc[p] \notin Waits)
  <2>1. p \in wire \/ ~InLine(p)
    BY <1>0, <1>3
  <2>2. Line' /\ \A q \in Procs : (InLine(q))' <=> InLine(q) \/ q = p
    BY <1>0, <1>3, <2>1, LineQuery
  <2>3. QED
    BY <1>0, <1>1, <1>3, <2>2 DEF LineSafe, Waits
<1>4. CASE Release(p) /\ p \in wire
  <2>1. Line' /\ \A q \in Procs : (InLine(q))' <=> InLine(q) /\ q # p
    BY <1>0, <1>4, LineRelease
  <2>2. QED
    BY <1>0, <1>1, <2>1 DEF LineSafe, Waits
<1>5. QED
  BY <1>2, <1>3, <1>4

\* A step that leaves the upserts in the line, and their order, to themselves.
LEMMA RowFrame ==
  ASSUME RowSafe, UNCHANGED <<known, sess, row, saving, failures>>,
         \A q \in Procs : (InLine(q) /\ Saves(q))' <=> InLine(q) /\ Saves(q),
         \A q, r \in Procs :
           q # r /\ (InLine(q) /\ Saves(q) /\ InLine(r) /\ Saves(r))' /\ (Before(q, r))' => Before(q, r)
  PROVE  RowSafe'
<1>1. \A q \in Procs : (NewestSave(q))' => NewestSave(q)
  BY DEF NewestSave
<1>2. (\A q \in Procs : InLine(q) => ~Saves(q))' => \A q \in Procs : InLine(q) => ~Saves(q)
  OBVIOUS
<1>3. QED
  BY <1>1, <1>2 DEF RowSafe

\* What is no upsert passes by.
LEMMA RowPassed ==
  ASSUME TypeOK, LineSafe, RowSafe, NEW p \in Procs, NEW at, Goto(p, at), ~Saves(p),
         at \notin {"startSave", "tickSave", "skipSave", "stopSave"},
         UNCHANGED <<known, sess, row, saving, failures>>,
         \/ UNCHANGED <<wire, queue>>
         \/ Query(p) /\ (p \in wire \/ pc[p] \notin Waits)
         \/ Release(p) /\ p \in wire
  PROVE  RowSafe'
<1> SUFFICES ASSUME PoolMax = 1 PROVE RowSafe'
  BY DEF RowSafe
<1>0. Line /\ \A q \in Procs : InLine(q) => pc[q] \in Waits
  BY DEF LineSafe, Waits
<1>1. \A q \in Procs : (Saves(q))' <=> Saves(q)
  BY DEF Goto, TypeOK, Saves
<1>2. CASE UNCHANGED <<wire, queue>>
  BY <1>1, <1>2, RowFrame DEF InLine, Before
<1>3. CASE Query(p) /\ (p \in wire \/ pc[p] \notin Waits)
  <2>1. p \in wire \/ ~InLine(p)
    BY <1>0, <1>3
  <2>2. /\ \A q \in Procs : (InLine(q))' <=> InLine(q) \/ q = p
        /\ \A q, r \in Procs :
             q # r /\ q # p /\ r # p /\ (InLine(r))' /\ (Before(q, r))' => Before(q, r)
    BY <1>0, <1>3, <2>1, LineQuery
  <2>3. QED
    BY <1>1, <2>2, RowFrame
<1>4. CASE Release(p) /\ p \in wire
  <2>1. /\ \A q \in Procs : (InLine(q))' <=> InLine(q) /\ q # p
        /\ \A q, r \in Procs :
             q # r /\ InLine(q) /\ (InLine(r))' /\ (Before(q, r))' => Before(q, r)
    BY <1>0, <1>4, LineRelease
  <2>2. QED
    BY <1>1, <2>1, RowFrame
<1>5. QED
  BY <1>2, <1>3, <1>4

\* An upsert that is issued is the newest, and it is of the entry as it is now.
LEMMA RowPersisted ==
  ASSUME TypeOK, LineSafe, NEW p \in Procs,
         NEW at \in {"startSave", "tickSave", "skipSave", "stopSave"},
         Persist(p, sess', at), p \in wire \/ pc[p] \notin Waits
  PROVE  RowSafe'
<1> SUFFICES ASSUME PoolMax = 1 PROVE RowSafe'
  BY DEF RowSafe
<1>1. p \in wire \/ ~InLine(p)
  BY DEF LineSafe, Waits
<1>2. /\ \A q \in Procs : (InLine(q))' <=> InLine(q) \/ q = p
      /\ \A q \in Procs : q # p /\ (InLine(q))' => ~(Before(p, q))'
  BY <1>1, LineQuery DEF LineSafe, Persist
<1>3. (Saves(p))' /\ saving'[p] = sess'
  BY DEF Persist, Goto, Saves, TypeOK
<1>4. \A q \in Procs : (NewestSave(q))' => q = p
  BY <1>2, <1>3 DEF NewestSave
<1>5. (InLine(p) /\ Saves(p))'
  BY <1>2, <1>3
<1>6. QED
  BY <1>3, <1>4, <1>5 DEF RowSafe

\* An upsert that has ended has written its snapshot; the last one that of the entry.
LEMMA RowSaved ==
  ASSUME TypeOK, LineSafe, RowSafe, NEW p \in Procs, SaveDone(p)
  PROVE  RowSafe'
<1> SUFFICES ASSUME PoolMax = 1, failures = 0, known PROVE RowSafe'
  BY DEF RowSafe, SaveDone, Resume, sessionVars
<1>1. Line /\ p \in wire /\ Release(p) /\ Saves(p) /\ InLine(p)
  BY DEF LineSafe, SaveDone, Resume, InLine
<1>2. /\ \A q \in Procs : (InLine(q))' <=> InLine(q) /\ q # p
      /\ \A q, r \in Procs :
           q # r /\ InLine(q) /\ (InLine(r))' /\ (Before(q, r))' => Before(q, r)
  BY <1>1, LineRelease
<1>3. \A q \in Procs : q # p => ((Saves(q))' <=> Saves(q)) /\ saving'[q] = saving[q]
  BY DEF SaveDone, Resume, Return, Goto, Saves, TypeOK
<1>4. row' = saving[p] /\ sess' = sess
  BY DEF SaveDone, Resume, sessionVars
<1>5. ASSUME NEW q \in Procs, (NewestSave(q))' PROVE saving'[q] = sess'
  <2>1. q # p /\ InLine(q) /\ Saves(q) /\ (InLine(q))'
    BY <1>2, <1>3, <1>5 DEF NewestSave
  <2>2. \A r \in Procs : InLine(r) /\ Saves(r) => r = q \/ Before(r, q)
    <3>1. Before(p, q)
      BY <1>1 DEF Before
    <3>2. ASSUME NEW r \in Procs, r # p, InLine(r), Saves(r), r # q PROVE Before(r, q)
      <4>1. (Before(r, q))'
        BY <1>2, <1>3, <1>5, <3>2 DEF NewestSave
      <4>2. QED
        BY <1>2, <2>1, <3>2, <4>1
    <3>3. QED
      BY <3>1, <3>2
  <2>3. NewestSave(q)
    BY <2>1, <2>2 DEF NewestSave
  <2>4. QED
    BY <1>3, <1>4, <2>1, <2>3 DEF RowSafe
<1>6. ASSUME (\A q \in Procs : InLine(q) => ~Saves(q))' PROVE row' = sess'
  <2>1. \A q \in Procs : InLine(q) /\ Saves(q) => q = p
    BY <1>2, <1>3, <1>6
  <2>2. NewestSave(p)
    BY <1>1, <2>1 DEF NewestSave
  <2>3. QED
    BY <1>4, <2>2 DEF RowSafe
<1>7. QED
  BY <1>5, <1>6 DEF RowSafe

LEMMA RowStep ==
  TypeOK /\ TypeOK' /\ LineSafe /\ RowSafe /\ [Next]_vars => LineSafe' /\ RowSafe'
<1> SUFFICES ASSUME TypeOK, TypeOK', LineSafe, RowSafe, [Next]_vars PROVE LineSafe' /\ RowSafe'
  OBVIOUS
<1>1. ASSUME NEW c \in Clients,
             \/ Invoke(c) \/ SnapshotOnly(c) \/ OneShot(c) \/ StartCold(c) \/ StopCold(c)
             \/ GetLoaded(c) \/ OneShotDone(c) \/ TickRefused(c)
             \/ (StopLoaded(c) /\ row = NoRow)
      PROVE  LineSafe' /\ RowSafe'
  <2>1. /\ c \in Procs /\ ~Saves(c) /\ UNCHANGED <<known, sess, row, saving, failures>>
    BY <1>1 DEF Invoke, SnapshotOnly, OneShot, StartCold, StopCold, GetLoaded, OneShotDone,
                TickRefused, StopLoaded, sessionVars, dbVars, boundVars, Procs, Saves
  <2>2. PICK at : /\ Goto(c, at)
                  /\ at \notin {"startSave", "tickSave", "skipSave", "stopSave"}
                  /\ \/ pc[c] \notin Waits /\ UNCHANGED <<wire, queue>>
                     \/ Query(c) /\ at \in Waits /\ (c \in wire \/ pc[c] \notin Waits)
                     \/ Release(c) /\ c \in wire
    BY <1>1 DEF Invoke, SnapshotOnly, OneShot, StartCold, StopCold, GetLoaded, OneShotDone,
                TickRefused, StopLoaded, Return, dbVars, Waits
  <2>3. QED
    BY <2>1, <2>2, LineKept, RowPassed
<1>2. ASSUME NEW p \in Procs, NEW at \in {"startSave", "tickSave", "skipSave", "stopSave"},
             Persist(p, sess', at), p \in wire \/ pc[p] \notin Waits
      PROVE  LineSafe' /\ RowSafe'
  <2>1. at \in Waits /\ Goto(p, at) /\ Query(p)
    BY <1>2 DEF Persist, Waits
  <2>2. QED
    BY <1>2, <2>1, LineKept, RowPersisted
<1>3. ASSUME NEW c \in Clients,
             StartWarm(c) \/ StartLoaded(c) \/ Stop(c) \/ (StopLoaded(c) /\ row # NoRow)
      PROVE  LineSafe' /\ RowSafe'
  <2>1. c \in Procs /\ (c \in wire \/ pc[c] \notin Waits)
    BY <1>3 DEF StartWarm, StartLoaded, Stop, StopLoaded, Waits, Procs
  <2>2. Persist(c, sess', "startSave") \/ Persist(c, sess', "stopSave")
    BY <1>3 DEF StartWarm, StartLoaded, Stop, StopLoaded, StopEntry
  <2>3. QED
    BY <1>2, <2>1, <2>2
<1>4. ASSUME NEW p \in Procs, pc[p] \in {"idle", "tick"}, SkipTick(p) PROVE LineSafe' /\ RowSafe'
  BY <1>2, <1>4 DEF SkipTick, Waits
<1>5. ASSUME NEW p \in Procs, TickDone(p) PROVE LineSafe' /\ RowSafe'
  BY <1>2, <1>5 DEF TickDone, Waits
<1>6. ASSUME NEW p \in Procs, pc[p] \in {"idle", "tick"}, BeginTick(p) PROVE LineSafe' /\ RowSafe'
  <2>1. /\ ~Saves(p) /\ pc[p] \notin Waits /\ Goto(p, "run")
        /\ UNCHANGED <<known, sess, row, saving, failures, wire, queue>>
    BY <1>6 DEF BeginTick, Saves, Waits, dbVars, boundVars
  <2>2. QED
    BY <2>1, LineKept, RowPassed
<1>7. ASSUME NEW p \in Procs, SaveDone(p) \/ SaveFailed(p) PROVE LineSafe' /\ RowSafe'
  <2>1. p \in wire /\ Release(p) /\ \E at : Goto(p, at)
    BY <1>7 DEF SaveDone, SaveFailed, Resume, Return
  <2>2. LineSafe'
    BY <2>1, LineKept
  <2>3. SaveFailed(p) => failures' # 0
    BY DEF SaveFailed, TypeOK
  <2>4. QED
    BY <1>7, <2>2, <2>3, RowSaved DEF RowSafe
<1>8. ASSUME NEW c \in Clients, LoadFailed(c) PROVE LineSafe' /\ RowSafe'
  <2>1. c \in Procs /\ c \in wire /\ Release(c) /\ \E at : Goto(c, at)
    BY <1>8 DEF LoadFailed, Return, Procs
  <2>2. LineSafe'
    BY <2>1, LineKept
  <2>3. failures' # 0
    BY <1>8 DEF LoadFailed, TypeOK
  <2>4. QED
    BY <2>2, <2>3 DEF RowSafe
<1>9. ASSUME CrashAndBoot PROVE LineSafe' /\ RowSafe'
  BY <1>9 DEF CrashAndBoot, LineSafe, Line, InLine, RowSafe
<1>10. CASE UNCHANGED vars
  BY <1>10 DEF vars, sessionVars, dbVars, procVars, boundVars, LineSafe, Line, InLine, RowSafe,
               NewestSave, Before, Saves
<1>11. QED
  <2>1. ASSUME NEW c \in Clients, ClientCall(c) \/ Loaded(c) \/ OneShotDone(c) \/ TickRefused(c)
        PROVE  LineSafe' /\ RowSafe'
    BY <2>1, <1>1, <1>3, <1>8 DEF ClientCall, Loaded
  <2>2. ASSUME NEW p \in Procs, pc[p] \in {"idle", "tick"}, SkipTick(p) \/ BeginTick(p)
        PROVE  LineSafe' /\ RowSafe'
    BY <2>2, <1>4, <1>6
  <2>3. QED
    BY <1>5, <1>7, <1>9, <1>10, <2>1, <2>2 DEF Next, ImmediateTick, Fire, Procs

\* With one pool connection and no failed upsert, the row equals the entry as soon
\* as no upsert is outstanding (persist, the pg pool).
THEOREM RowIsWritten == Spec => []RowCatchesUp
<1>1. Init => LineSafe /\ RowSafe
  BY DEF Init, LineSafe, Line, InLine, RowSafe
<1>2. RowSafe => RowCatchesUp
  BY DEF RowSafe, RowCatchesUp
<1>3. QED
  BY <1>1, <1>2, TypeInit, TypeStep, RowStep, PTL DEF Spec
=============================================================================
