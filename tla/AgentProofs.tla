----------------------------- MODULE AgentProofs -----------------------------
(* Theorems about the class HeartbeatAgent and its clients, for every number  *)
(* of ticks, skips and calls, and about the drafts of a tweet, for every      *)
(* number of attempts.                                                        *)
EXTENDS HeartbeatAgent, Tweet, TLAPS

\* A lowered flag over ticks in flight, and a tick beyond the flag's own, are the
\* work of as many calls of the client.
Overlap ==
  /\ isTickRunning => flights > 0
  /\ ~isTickRunning => flights <= overlaps
  /\ flights <= 1 + overlaps
  /\ overlaps <= clientCalls

Counted == begun = successCount + errorCount + flights

\* The demo and the persona begin once and never over a tick in flight; the
\* persona's agent has no timer and forces a single tick.
Clients ==
  /\ client # "free" => overlaps = 0
  /\ client = "persona" => /\ ~alive /\ ~timer /\ ~due
                           /\ begun <= 1 /\ skippedCount = 0
                           /\ over => flights = 0 /\ begun = 1

\* The type invariant, flags and counters apart.
FlagsOK ==
  /\ client \in {"demo", "persona", "free"} /\ over \in BOOLEAN
  /\ alive \in BOOLEAN /\ timer \in BOOLEAN /\ due \in BOOLEAN
  /\ isTickRunning \in BOOLEAN

CountsOK ==
  /\ flights \in 0 .. MaxBegun
  /\ begun \in 0 .. MaxBegun /\ successCount \in 0 .. MaxBegun /\ errorCount \in 0 .. MaxBegun
  /\ skippedCount \in 0 .. MaxSkips
  /\ overlaps \in 0 .. MaxClientCalls /\ clientCalls \in 0 .. MaxClientCalls

AgentInv == FlagsOK /\ CountsOK /\ Overlap /\ Counted /\ Clients

LEMMA AgentInvInit == AgentInit => AgentInv
<1> SUFFICES ASSUME AgentInit PROVE AgentInv
  OBVIOUS
<1>1. FlagsOK
  BY Zenon DEF AgentInit, FlagsOK
<1>2. CountsOK /\ Counted
  BY AgentAssumption DEF AgentInit, CountsOK, Counted
<1>3. Overlap
  BY DEF AgentInit, Overlap
<1>4. Clients
  BY DEF AgentInit, Clients
<1>5. QED
  BY <1>1, <1>2, <1>3, <1>4 DEF AgentInv

LEMMA Unchanged ==
  ASSUME AgentInv, UNCHANGED agentVars PROVE AgentInv'
<1>1. FlagsOK' /\ Clients'
  BY Zenon DEF AgentInv, agentVars, counters, FlagsOK, Clients
<1>2. CountsOK' /\ Counted' /\ Overlap'
  BY Zenon DEF AgentInv, agentVars, counters, CountsOK, Counted, Overlap
<1>3. QED
  BY <1>1, <1>2 DEF AgentInv

\* A tick begun by a call: one that is made over a tick in flight is counted.
LEMMA ForceTickKeeps ==
  ASSUME AgentInv, ForceTick, client' = client, over' = over,
         alive' \in BOOLEAN, timer' \in BOOLEAN, due' = due,
         client = "persona" => alive' = alive /\ timer' = timer /\ ~over,
         \/ begun = 0 /\ clientCalls' = clientCalls
         \/ /\ client = "free" /\ clientCalls < MaxClientCalls
            /\ clientCalls' = clientCalls + 1
  PROVE  AgentInv'
<1>1. FlagsOK'
  BY Zenon DEF AgentInv, FlagsOK, ForceTick, BeginTick
<1>2. CountsOK' /\ Counted' /\ overlaps' <= clientCalls' /\ (begun = 0 => overlaps' = overlaps)
  BY AgentAssumption
     DEF AgentInv, CountsOK, Overlap, Counted, ForceTick, BeginTick, counters
<1>3. isTickRunning' /\ flights' > 0 /\ flights' <= 1 + overlaps'
  <2>1. isTickRunning'
    BY Zenon DEF ForceTick, BeginTick
  <2>2. flights' > 0 /\ flights' <= 1 + overlaps'
    BY DEF AgentInv, CountsOK, Overlap, ForceTick, BeginTick
  <2>3. QED
    BY <2>1, <2>2
<1>4. Overlap'
  BY <1>2, <1>3 DEF Overlap
<1>5. Clients'
  BY <1>2, AgentAssumption
     DEF AgentInv, CountsOK, Clients, ForceTick, BeginTick, counters
<1>6. QED
  BY <1>1, <1>2, <1>4, <1>5 DEF AgentInv

LEMMA ShutdownKeeps ==
  ASSUME AgentInv, Shutdown, client' = client, over' \in BOOLEAN,
         client = "persona" => over' = over,
         \/ clientCalls' = clientCalls
         \/ clientCalls < MaxClientCalls /\ clientCalls' = clientCalls + 1
  PROVE  AgentInv'
<1>1. FlagsOK'
  BY Zenon DEF AgentInv, FlagsOK, Shutdown
<1>2. CountsOK' /\ Counted' /\ overlaps' <= clientCalls'
  BY AgentAssumption DEF AgentInv, CountsOK, Counted, Overlap, Shutdown, counters
<1>3. Overlap'
  BY <1>2 DEF AgentInv, Overlap, Shutdown
<1>4. Clients'
  <2>1. client = "persona" => ~due'
    BY Zenon DEF AgentInv, Clients, Shutdown
  <2>2. QED
    BY <2>1, Zenon DEF AgentInv, Clients, Shutdown, counters
<1>5. QED
  BY <1>1, <1>2, <1>3, <1>4 DEF AgentInv

LEMMA TimerFiresKeeps ==
  ASSUME AgentInv, TimerFires PROVE AgentInv'
<1>1. FlagsOK' /\ Clients'
  BY Zenon DEF AgentInv, FlagsOK, Clients, TimerFires, counters
<1>2. CountsOK' /\ Counted' /\ Overlap'
  BY Zenon DEF AgentInv, CountsOK, Counted, Overlap, TimerFires, counters
<1>3. QED
  BY <1>1, <1>2 DEF AgentInv

\* The callback begins a tick only under a lowered flag, over at most as many ticks
\* in flight as the client has begun over others.
LEMMA CallbackKeeps ==
  ASSUME AgentInv, TimerCallback PROVE AgentInv'
<1>1. FlagsOK'
  BY Zenon DEF AgentInv, FlagsOK, TimerCallback, BeginTick
<1>2. Clients'
  BY Zenon DEF AgentInv, Clients, TimerCallback
<1>3. CASE ~alive /\ UNCHANGED <<isTickRunning, flights, begun, counters>>
  <2>1. CountsOK' /\ Counted' /\ Overlap'
    BY <1>3, Zenon DEF AgentInv, CountsOK, Counted, Overlap, TimerCallback, counters
  <2>2. QED
    BY <1>1, <1>2, <2>1 DEF AgentInv
<1>4. CASE skippedCount < MaxSkips /\ skippedCount' = skippedCount + 1
           /\ UNCHANGED <<isTickRunning, flights, begun, successCount, errorCount>>
  <2>1. CountsOK' /\ Counted'
    BY <1>4, AgentAssumption DEF AgentInv, CountsOK, Counted, TimerCallback
  <2>2. Overlap'
    BY <1>4, Zenon DEF AgentInv, Overlap, TimerCallback
  <2>3. QED
    BY <1>1, <1>2, <2>1, <2>2 DEF AgentInv
<1>5. CASE ~isTickRunning /\ BeginTick
  <2>1. CountsOK' /\ Counted'
    BY <1>5, AgentAssumption DEF AgentInv, CountsOK, Counted, TimerCallback, BeginTick, counters
  <2>2. isTickRunning'
    BY <1>5, Zenon DEF BeginTick
  <2>3. flights <= overlaps
    BY <1>5 DEF AgentInv, Overlap
  <2>4. flights' > 0 /\ flights' <= 1 + overlaps' /\ overlaps' <= clientCalls'
    BY <1>5, <2>3 DEF AgentInv, CountsOK, Overlap, BeginTick, TimerCallback
  <2>5. Overlap'
    BY <2>2, <2>4 DEF Overlap
  <2>6. QED
    BY <1>1, <1>2, <2>1, <2>5 DEF AgentInv
<1>6. QED
  BY <1>3, <1>4, <1>5, Zenon DEF TimerCallback

\* The end of any tick lowers the flag, whatever is still in flight.
LEMMA EndTickKeeps ==
  ASSUME AgentInv, EndTick PROVE AgentInv'
<1>1. FlagsOK'
  BY Zenon DEF AgentInv, FlagsOK, EndTick
<1>2. CountsOK' /\ Counted'
  BY AgentAssumption DEF AgentInv, CountsOK, Counted, EndTick
<1>3. ~isTickRunning'
  BY Zenon DEF EndTick
<1>4. flights' <= overlaps' /\ flights' <= 1 + overlaps' /\ overlaps' <= clientCalls'
  BY DEF AgentInv, CountsOK, Overlap, EndTick
<1>5. Overlap'
  BY <1>3, <1>4 DEF Overlap
<1>6. Clients'
  BY Zenon DEF AgentInv, Clients, EndTick
<1>7. QED
  BY <1>1, <1>2, <1>5, <1>6 DEF AgentInv

LEMMA ClientKeeps ==
  AgentInv /\ (DemoStarts \/ DemoPolls \/ DemoInterrupted \/ PersonaTicks \/ PersonaAnswers
               \/ FreeClient) => AgentInv'
<1> SUFFICES ASSUME AgentInv PROVE
      DemoStarts \/ DemoPolls \/ DemoInterrupted \/ PersonaTicks \/ PersonaAnswers \/ FreeClient
      => AgentInv'
  OBVIOUS
<1>0. over \in BOOLEAN /\ alive \in BOOLEAN /\ timer \in BOOLEAN
  BY Zenon DEF AgentInv, FlagsOK
<1>1. CASE DemoStarts /\ alive
  BY <1>1, Unchanged, Zenon DEF DemoStarts, StartAgent, agentVars
<1>2. CASE DemoStarts /\ ~alive
  BY <1>2, ForceTickKeeps, Zenon DEF DemoStarts, StartAgent
<1>3. CASE DemoPolls
  BY <1>3, ShutdownKeeps, Zenon DEF DemoPolls
<1>4. CASE DemoInterrupted
  BY <1>4, ShutdownKeeps, Zenon DEF DemoInterrupted
<1>5. CASE PersonaTicks
  BY <1>0, <1>5, ForceTickKeeps, Zenon DEF PersonaTicks
<1>6. CASE PersonaAnswers
  <2>1. FlagsOK'
    BY <1>6, Zenon DEF AgentInv, FlagsOK, PersonaAnswers
  <2>2. CountsOK' /\ Counted' /\ Overlap'
    BY <1>6, Zenon DEF AgentInv, CountsOK, Counted, Overlap, PersonaAnswers, counters
  <2>3. Clients'
    BY <1>6 DEF AgentInv, CountsOK, Clients, PersonaAnswers, counters
  <2>4. QED
    BY <2>1, <2>2, <2>3 DEF AgentInv
<1>7. CASE FreeClient
  <2>1. CASE StartAgent /\ alive /\ UNCHANGED due
    <3>1. FlagsOK' /\ Clients'
      BY <1>7, <2>1, Zenon DEF AgentInv, FlagsOK, Clients, FreeClient, StartAgent, counters
    <3>2. CountsOK' /\ Counted' /\ overlaps' <= clientCalls'
      BY <1>7, <2>1, AgentAssumption
         DEF AgentInv, CountsOK, Counted, Overlap, FreeClient, StartAgent, counters
    <3>3. Overlap'
      BY <2>1, <3>2 DEF AgentInv, Overlap, StartAgent
    <3>4. QED
      BY <3>1, <3>2, <3>3 DEF AgentInv
  <2>2. CASE StartAgent /\ ~alive /\ UNCHANGED due
    BY <1>7, <2>2, ForceTickKeeps, Zenon DEF FreeClient, StartAgent
  <2>3. CASE ForceTick /\ UNCHANGED <<alive, timer, due>>
    BY <1>0, <1>7, <2>3, ForceTickKeeps, Zenon DEF FreeClient
  <2>4. CASE Shutdown
    BY <1>0, <1>7, <2>4, ShutdownKeeps, Zenon DEF FreeClient
  <2>5. QED
    BY <1>7, <2>1, <2>2, <2>3, <2>4, Zenon DEF FreeClient
<1>8. QED
  BY <1>1, <1>2, <1>3, <1>4, <1>5, <1>6, <1>7

LEMMA AgentInvStep == AgentInv /\ [AgentNext]_agentVars => AgentInv'
BY Unchanged, TimerFiresKeeps, CallbackKeeps, EndTickKeeps, ClientKeeps, Zenon DEF AgentNext

LEMMA AgentInvariant == AgentSpec => []AgentInv
BY AgentInvInit, AgentInvStep, PTL DEF AgentSpec

\* Every variable of the agent keeps its type (agents/heartbeat.ts).
THEOREM AgentTypeCorrect == AgentSpec => []AgentTypeOK
<1>1. AgentInv => AgentTypeOK
  BY Zenon DEF AgentInv, FlagsOK, CountsOK, AgentTypeOK
<1>2. QED
  BY <1>1, AgentInvariant, PTL

\* The overlap guard of agents/heartbeat.ts:181-187 for every number of ticks and of
\* calls: it never locks the agent, loses no count, and lets only a client's own call
\* begin a tick over another.
THEOREM GuardHolds == AgentSpec => []TicksGuarded
<1>1. AgentInv => TicksGuarded
  <2>1. AgentInv /\ client = "persona" /\ over => Seen = 1
    BY DEF AgentInv, CountsOK, Counted, Clients, Seen
  <2>2. AgentInv /\ client = "persona" => ~timer
    BY Zenon DEF AgentInv, Clients
  <2>3. QED
    BY <2>1, <2>2, Zenon DEF AgentInv, Overlap, Counted, Clients, TicksGuarded
<1>2. QED
  BY <1>1, AgentInvariant, PTL

-----------------------------------------------------------------------------
\* What the second guard refuses of what the first one let through.
Refusable(text, mode) ==
  \/ text = {"blank"}
  \/ mode /\ text \intersect {"link", "four.meme", "0X address"} # {}

\* A draft that was handed over for an order has satisfied the order's guard.
TweetInv ==
  /\ TweetTypeOK
  /\ draft \in Candidates
  /\ author = "heartbeat" => ~url
  /\ step = "drafting" => attempt < MaxAttempts
  /\ author = "order" /\ step # "drafting" /\ step # "failed" =>
       CheckTweetGuard(draft, url) = {} /\ "cut" \notin draft
  /\ step = "posted" => CheckTweetGuard(draft, FALSE) = {}
  /\ author = "order" /\ step \in {"posted", "refused"} =>
       (step = "refused" <=> Refusable(draft, url))

\* The two modes of checkTweetGuard, feature by feature.
LEMMA Violations ==
  ASSUME NEW text
  PROVE  /\ CheckTweetGuard(text, TRUE) = text \intersect {"leak", "long"}
         /\ CheckTweetGuard(text, FALSE) =
              text \intersect {"leak", "long", "link", "four.meme", "address", "0X address"}
BY DEF CheckTweetGuard, BaseGuards, NoUrlGuards

\* Safe mode asks for more.
LEMMA SafeModeStricter ==
  ASSUME NEW text, NEW mode \in BOOLEAN, CheckTweetGuard(text, FALSE) = {}
  PROVE  CheckTweetGuard(text, mode) = {}
BY Violations

\* A violation is a feature of the draft.
LEMMA ViolationsOfText ==
  ASSUME NEW text \in Candidates, NEW mode \in BOOLEAN
  PROVE  CheckTweetGuard(text, mode) \subseteq Features
BY Violations DEF Candidates, Features

\* What the sanitiser takes away helps safe mode, and nothing else changes.
LEMMA SanitizedCandidate ==
  ASSUME NEW text \in Candidates
  PROVE  /\ SanitizeTweetAddresses(text) \in Candidates
         /\ SanitizeTweetAddresses(text) \subseteq text
         /\ "cut" \in SanitizeTweetAddresses(text) => "cut" \in text
BY DEF SanitizeTweetAddresses, Candidates, Features

\* The second guard refuses what is refusable of what the first one let through.
LEMMA RefusedIffRefusable ==
  ASSUME NEW text \in Candidates, NEW mode \in BOOLEAN,
         CheckTweetGuard(text, mode) = {}, "cut" \notin text
  PROVE  Refusable(text, mode) <=>
           \/ text \intersect {"long", "blank"} # {}
           \/ CheckTweetGuard(SanitizeTweetAddresses(text), FALSE) # {}
<1>1. "leak" \notin text /\ "long" \notin text
  BY Violations
<1>2. ~mode => text \intersect {"link", "four.meme", "address", "0X address"} = {}
  BY Violations
<1>3. "blank" \in text <=> text = {"blank"}
  BY DEF Candidates, Features
<1>4. CheckTweetGuard(SanitizeTweetAddresses(text), FALSE) =
        SanitizeTweetAddresses(text) \intersect
          {"leak", "long", "link", "four.meme", "address", "0X address"}
  BY Violations, Zenon
<1>5. CheckTweetGuard(SanitizeTweetAddresses(text), FALSE) =
        text \intersect {"link", "four.meme", "0X address"}
  BY <1>1, <1>4 DEF SanitizeTweetAddresses
<1>6. text \intersect {"long", "blank"} # {} <=> text = {"blank"}
  BY <1>1, <1>3
<1>7. text \intersect {"link", "four.meme", "0X address"} # {} => mode
  BY <1>2
<1>8. QED
  BY <1>5, <1>6, <1>7, Zenon DEF Refusable

\* A posted draft has nothing refusable.
LEMMA PostedNotRefusable ==
  ASSUME NEW text, NEW mode, CheckTweetGuard(text, FALSE) = {}, "blank" \notin text
  PROVE  ~Refusable(text, mode)
BY Violations DEF Refusable

LEMMA TweetInvInit == TweetInit => TweetInv
BY TweetAssumption DEF TweetInit, TweetInv, TweetTypeOK, Candidates, Features

LEMMA DraftShillKeeps ==
  ASSUME TweetInv, DraftShill PROVE TweetInv'
<1>1. PICK text \in Candidates :
        LET violations == CheckTweetGuard(text, url) \union (text \intersect {"cut"}) IN
        /\ draft' = text /\ told' = violations
        /\ IF violations = {} THEN step' = "handed over" /\ UNCHANGED attempt
           ELSE /\ attempt' = attempt + 1
                /\ step' = IF attempt + 1 < MaxAttempts THEN "drafting" ELSE "failed"
  BY DEF DraftShill
<1> DEFINE violations == CheckTweetGuard(text, url) \union (text \intersect {"cut"})
<1>2. author' = author /\ url' = url /\ author = "order" /\ step = "drafting"
  BY DEF DraftShill
<1>3. violations \subseteq Features
  BY ViolationsOfText DEF TweetInv, TweetTypeOK, Features
<1>4. draft' \in Candidates /\ draft' \subseteq Features /\ told' \subseteq Features
  BY <1>1, <1>3 DEF Candidates
<1>5. CASE violations = {}
  <2>1. CheckTweetGuard(text, url) = {} /\ "cut" \notin text
    BY <1>5
  <2>2. draft' = text /\ step' = "handed over" /\ attempt' = attempt
    BY <1>1, <1>5
  <2>3. QED
    BY <1>2, <1>4, <2>1, <2>2, Zenon DEF TweetInv, TweetTypeOK
<1>6. CASE violations # {}
  <2>1. attempt' = attempt + 1 /\ step' \in {"drafting", "failed"}
        /\ (step' = "drafting" => attempt + 1 < MaxAttempts)
    BY <1>1, <1>6
  <2>2. attempt' \in 0 .. MaxAttempts
    <3>1. attempt < MaxAttempts
      BY <1>2 DEF TweetInv
    <3>2. attempt \in 0 .. MaxAttempts
      BY Zenon DEF TweetInv, TweetTypeOK
    <3>3. attempt' = attempt + 1
      BY <2>1
    <3>4. QED
      BY <3>1, <3>2, <3>3, TweetAssumption
  <2>3. TweetTypeOK'
    BY <1>2, <1>4, <2>1, <2>2, Zenon DEF TweetInv, TweetTypeOK
  <2>4. QED
    BY <1>2, <1>4, <2>1, <2>3, Zenon DEF TweetInv
<1>7. QED
  BY <1>5, <1>6

LEMMA PostGuardedKeeps ==
  ASSUME TweetInv, PostGuarded PROVE TweetInv'
<1> DEFINE text == SanitizeTweetAddresses(draft)
<1>1. draft \in Candidates /\ url \in BOOLEAN /\ step = "handed over"
  BY DEF TweetInv, TweetTypeOK, PostGuarded
<1>2. UNCHANGED <<author, url, attempt, told>>
  BY DEF PostGuarded
<1>3. CASE draft \intersect {"long", "blank"} # {} \/ CheckTweetGuard(text, FALSE) # {}
  <2>1. step' = "refused" /\ draft' = draft
    BY <1>3 DEF PostGuarded
  <2>2. author = "order" => Refusable(draft, url)
    BY <1>1, <1>3, RefusedIffRefusable DEF TweetInv
  <2>3. TweetTypeOK'
    BY <1>2, <2>1, Zenon DEF TweetInv, TweetTypeOK
  <2>4. CheckTweetGuard(draft, url)' = CheckTweetGuard(draft, url)
    BY <1>2, <2>1, Zenon
  <2>5. QED
    BY <1>1, <1>2, <2>1, <2>2, <2>3, <2>4, Zenon DEF TweetInv, Refusable
<1>4. CASE ~(draft \intersect {"long", "blank"} # {} \/ CheckTweetGuard(text, FALSE) # {})
  <2>1. step' = "posted" /\ draft' = text
    BY <1>4 DEF PostGuarded
  <2>2. CheckTweetGuard(text, FALSE) = {} /\ CheckTweetGuard(text, url) = {}
    BY <1>1, <1>4, SafeModeStricter
  <2>3. text \in Candidates /\ text \subseteq Features
        /\ (author = "order" => "cut" \notin text)
    BY <1>1, SanitizedCandidate DEF TweetInv, Candidates
  <2>4. ~Refusable(text, url)
    <3>1. "blank" \notin text
      BY <1>1, <1>4, SanitizedCandidate
    <3>2. QED
      BY <2>2, <3>1, PostedNotRefusable
  <2>5. QED
    BY <1>2, <2>1, <2>2, <2>3, <2>4, Zenon DEF TweetInv, TweetTypeOK, Refusable
<1>5. QED
  BY <1>3, <1>4

LEMMA TweetInvStep == TweetInv /\ [TweetNext]_tweetVars => TweetInv'
<1> SUFFICES ASSUME TweetInv PROVE [TweetNext]_tweetVars => TweetInv'
  OBVIOUS
<1>1. CASE DraftFails
  BY <1>1, Zenon DEF TweetInv, TweetTypeOK, DraftFails
<1>2. CASE DraftTick
  <2>1. PICK text \in Candidates : draft' = text
    BY <1>2 DEF DraftTick
  <2>2. text \subseteq Features
    BY DEF Candidates
  <2>3. QED
    BY <1>2, <2>1, <2>2, Zenon DEF TweetInv, TweetTypeOK, DraftTick
<1>3. CASE PostDryRun
  BY <1>3, Zenon DEF TweetInv, TweetTypeOK, PostDryRun
<1>4. CASE UNCHANGED tweetVars
  BY <1>4, Zenon DEF TweetInv, TweetTypeOK, tweetVars
<1>5. QED
  BY <1>1, <1>2, <1>3, <1>4, DraftShillKeeps, PostGuardedKeeps, Zenon DEF TweetNext

LEMMA TweetInvariant == TweetSpec => []TweetInv
BY TweetInvInit, TweetInvStep, PTL DEF TweetSpec

\* Every variable of a draft keeps its type, and post_shill_for never asks for more
\* than MAX_ATTEMPTS drafts (tools/post-shill-for.ts).
THEOREM TweetTypeCorrect == TweetSpec => []TweetTypeOK
<1>1. TweetInv => TweetTypeOK
  BY DEF TweetInv
<1>2. QED
  BY <1>1, TweetInvariant, PTL

\* Nothing unsafe reaches X; of an order's accepted drafts the second guard refuses
\* the blank ones and, in URL mode, those with a link or a 0X address, and no others
\* (tools/x-post.ts:250-266), for every number of drafts.
THEOREM OnlySafeTweets == TweetSpec => []TweetsSafe
<1>1. TweetInv => TweetsSafe
  BY Zenon DEF TweetInv, TweetsSafe, Refusable
<1>2. QED
  BY <1>1, TweetInvariant, PTL

=============================================================================
