------------------------------ MODULE Dashboard ------------------------------
(***************************************************************************)
(* The page that shows the evidence: the chapters on a sticky stage driven *)
(* by the scroll position (apps/web: app/page.tsx, lib/chapters.ts,        *)
(* components/sticky-stage.tsx, hooks/useActiveChapter.ts), the mirror of  *)
(* artifacts received from the stream (hooks/useRunStateContext.tsx) and   *)
(* the last chapter, which fetches the log once and lists the newest       *)
(* artifacts of a tab (components/chapters/ch12-evidence.tsx), next to the *)
(* drawer that lists them all (footer-drawer-tabs/artifacts-tab.tsx).      *)
(*                                                                         *)
(* A slot of the stage is Slot units long; a chapter's progress is counted *)
(* in units, 0 .. FullyIn.                                                 *)
(***************************************************************************)
EXTENDS ArtifactLog

CONSTANTS
  Chapters,   \* number of chapters, the last of which shows the evidence
  Stops,      \* scroll positions reached by hand
  Limit,      \* rows fetched
  TabRows,    \* rows a tab has room for: 5 in the code
  MaxLosses,  \* bound: streams that drop and pages that reload
  MaxFetches  \* bound: fetches that are answered

ASSUME DashboardAssumption ==
  /\ Chapters \in Nat \ {0} /\ Stops \subseteq Nat /\ 0 \in Stops
  /\ Limit \in Nat \ {0} /\ TabRows \in Nat \ {0} /\ MaxLosses \in Nat
  /\ MaxFetches \in Nat

VARIABLES
  y,          \* scroll position
  reduced,    \* prefers-reduced-motion
  hydration,  \* the fetch of the mounted evidence chapter
  fetched,    \* its answer
  mirror,     \* artifacts pushed to the run state
  stream,     \* the chat's stream: down, up, or gone with the page it belonged to
  read,       \* artifacts received on it
  hydrated,   \* history: keys of the rows a fetch has pushed
  losses,
  fetches     \* fetches answered

pageVars == <<y, reduced, hydration, fetched, mirror, stream, read, hydrated, losses,
              fetches>>

DashboardTypeOK ==
  /\ pooled \in BOOLEAN /\ busy \subseteq LoggedArtifacts
  /\ emitted \in Seq(LoggedArtifacts) /\ waiting \in Seq(LoggedArtifacts)
  /\ log.rows \in Seq(LoggedArtifacts) /\ log.index \in [DOMAIN log.index -> 1 .. RingSize]
  /\ tick \in [begun : 0 .. TickCount, thinking : BOOLEAN]
  /\ order \in [1..OrderCount -> {"none", "queued", "judged"}] /\ config \in Configs
  /\ y \in Nat /\ reduced \in BOOLEAN
  /\ hydration \in {"idle", "asked", "served", "landed", "failed", "aborted"}
  /\ fetched \in Seq(LoggedArtifacts) /\ mirror \in Seq(LoggedArtifacts)
  /\ stream \in {"down", "up", "gone"} /\ read \in 0 .. Len(emitted)
  /\ losses \in 0 .. MaxLosses /\ fetches \in 0 .. MaxFetches

DashboardInit ==
  /\ LogInit
  /\ y = 0 /\ reduced \in BOOLEAN
  /\ hydration = "idle" /\ fetched = <<>> /\ mirror = <<>>
  /\ stream = "down" /\ read = 0 /\ hydrated = {} /\ losses = 0
  /\ fetches = 0

(***************************************************************************)
(* The stage.                                                              *)
(***************************************************************************)
Slot     == 100
Fade     == 10     \* FADE_IN_FRAC and FADE_OUT_FRAC of a slot
FullyIn  == Slot - 2 * Fade
Evidence == Chapters - 1

Clamp(v, low, high) == IF v < low THEN low ELSE IF v > high THEN high ELSE v

\* deriveActiveChapter.
ActiveIdx(at) == Clamp((at + 30) \div Slot, 0, Chapters - 1)

\* chapterScrollTarget: 30% into the slot.
ChapterScrollTarget(i) == i * Slot + 30

LocalP(i, at) == Clamp(at - i * Slot, 0, Slot)

\* mapStageStyle: opacity in percent; the first does not fade in, nor the last out.
Opacity(i, at) ==
  LET p == LocalP(i, at) IN
  CASE p < Fade /\ i > 0                   -> (100 * p) \div Fade
    [] p > Slot - Fade /\ i < Chapters - 1 -> (100 * (Slot - p)) \div Fade
    [] OTHER                               -> 100

\* StickyStage renders what is not transparent; with reduced motion, the active chapter.
Mounted(i, at) == IF reduced THEN i = ActiveIdx(at) ELSE Opacity(i, at) > 1

\* The progress handed to the chapter: done after half of its visible span.
Progress(i, at) ==
  IF reduced THEN FullyIn ELSE Clamp(2 * (LocalP(i, at) - Fade), 0, FullyIn)

(***************************************************************************)
(* The evidence chapter's effect on [p, mirror].                           *)
(***************************************************************************)
\* A chapter that is not rendered forgets hydratedRef.  A dependency that
\* changes runs the cleanup, which aborts the fetch, and then the effect, which
\* asks only if nothing was asked before.
RunEffect(at, changed) ==
  /\ hydration' =
       CASE ~Mounted(Evidence, at)                                 -> "idle"
         [] hydration = "idle" /\ Progress(Evidence, at) > 0       -> "asked"
         [] hydration \in {"asked", "served"} /\ changed           -> "aborted"
         [] OTHER                                                  -> hydration
  /\ fetched' = IF hydration' = "served" THEN fetched ELSE <<>>

ScrollTo(at) ==
  /\ y' = at
  /\ RunEffect(at, Progress(Evidence, at) # Progress(Evidence, y))
  /\ UNCHANGED <<logVars, reduced, mirror, stream, read, hydrated, losses, fetches>>

Scroll == \E at \in Stops \ {y} : ScrollTo(at)

\* The table of contents and the hash of the address jump to a chapter.
Jump == \E i \in 0 .. Evidence : ChapterScrollTarget(i) # y /\ ScrollTo(ChapterScrollTarget(i))

\* GET /api/artifacts.
ServeArtifacts ==
  /\ hydration = "asked" /\ hydration' = "served"
  /\ fetches < MaxFetches /\ fetches' = fetches + 1
  /\ fetched' = ListRecent(Limit)
  /\ UNCHANGED <<logVars, y, reduced, mirror, stream, read, hydrated, losses>>

\* 503, 500, or the network.
FetchFails ==
  /\ hydration = "asked" /\ hydration' = "failed"
  /\ UNCHANGED <<logVars, y, reduced, fetched, mirror, stream, read, hydrated, losses, fetches>>

\* The rows go behind what the mirror holds, oldest first.
Hydrate ==
  /\ hydration = "served" /\ hydration' = "landed"
  /\ mirror' = mirror \o Reverse(fetched)
  /\ hydrated' = hydrated \union {NaturalKey(fetched[i]) : i \in DOMAIN fetched}
  /\ fetched' = <<>>
  /\ UNCHANGED <<logVars, y, reduced, stream, read, losses, fetches>>

(***************************************************************************)
(* The mirror.                                                             *)
(***************************************************************************)
\* The chat opens its stream, or opens it again: the buffer is replayed.
OpenStream ==
  /\ stream = "down" /\ stream' = "up" /\ read' = 0
  /\ UNCHANGED <<logVars, y, reduced, hydration, fetched, mirror, hydrated, losses, fetches>>

DropStream ==
  /\ stream = "up" /\ losses < MaxLosses
  /\ stream' = "down" /\ losses' = losses + 1
  /\ UNCHANGED <<logVars, y, reduced, hydration, fetched, mirror, read, hydrated, fetches>>

\* pushArtifact changes the context value, and with it the mirror of every consumer.
PushArtifact ==
  /\ stream = "up" /\ read < Len(emitted) /\ read' = read + 1
  /\ mirror' = Append(mirror, emitted[read + 1])
  /\ RunEffect(y, TRUE)
  /\ UNCHANGED <<logVars, y, reduced, stream, hydrated, losses, fetches>>

\* The page is loaded again: the run goes on unwatched.
Reload ==
  /\ losses < MaxLosses /\ losses' = losses + 1
  /\ y' = 0 /\ mirror' = <<>> /\ stream' = "gone" /\ read' = 0 /\ hydrated' = {}
  /\ hydration' = "idle" /\ fetched' = <<>>
  /\ UNCHANGED <<logVars, reduced, fetches>>

\* Slip: the first version of a key is kept.
DedupeArtifact_First(out, a) ==
  IF NaturalKey(a) # NoKey /\ PositionsOf(out, NaturalKey(a)) # {} THEN out ELSE Append(out, a)

\* dedupeArtifacts: a later version takes the place of the earlier one.
DedupeArtifact(out, a) ==
  LET same == PositionsOf(out, NaturalKey(a)) IN
  IF NaturalKey(a) = NoKey \/ same = {} THEN Append(out, a)
  ELSE [i \in DOMAIN out |-> IF i \in same THEN a ELSE out[i]]

\* mergeRunState: nothing publishes artifacts besides the mirror.
MergedArtifacts == FoldLeft(DedupeArtifact, <<>>, mirror)

\* tabForArtifact; a tick has no tab.
TabOf(a) ==
  CASE a.kind = "shill-order" -> "BNB" [] a.kind = "x402-tx" -> "BASE"
    [] a.kind \in {"tweet-url", "shill-tweet"} -> "X" [] OTHER -> "none"

EvidenceRow(a, chain) == [of |-> a, chain |-> chain]

\* The evidence shows the tweet of an order under X, ...
MapArtifactToEvidenceRow(a) ==
  EvidenceRow(a, CASE a.kind = "shill-order" -> "BNB" [] a.kind = "x402-tx" -> "BASE"
                   [] NaturalKey(a) = NoKey -> "TICK" [] OTHER -> "X")

\* ... the drawer under BNB.
MapArtifactToFooterRow(a) ==
  EvidenceRow(a, CASE a.kind \in {"shill-order", "shill-tweet"} -> "BNB"
                   [] a.kind = "x402-tx" -> "BASE"
                   [] a.kind = "tweet-url" -> "X" [] OTHER -> "TICK")

\* The rows of a recorded run, for a tab with none or few of its own: nothing marks them.
Recorded(i) == [kind |-> "recorded", id |-> i, n |-> 0]
FallbackOnchainTabs(tab) ==
  LET recorded == CASE tab = "BNB" -> 4 [] tab = "BASE" -> 2 [] OTHER -> 1
  IN  [i \in 1 .. recorded |-> EvidenceRow(Recorded(i), tab)]

FirstRows(rows, n) == SubSeq(rows, 1, IF Len(rows) > n THEN n ELSE Len(rows))

AddRow(tab, rows, a) ==
  IF Len(rows) < TabRows /\ TabOf(a) = tab THEN Append(rows, MapArtifactToEvidenceRow(a)) ELSE rows

\* rowsForTab: from the last slot of the mirror to the first, as many as there is room
\* for; ...
RealRowsForTab(tab, artifacts) ==
  FoldLeft(LAMBDA rows, a : AddRow(tab, rows, a), <<>>, Reverse(artifacts))

\* ... recorded ones fill the rest.
RowsForTab(tab) ==
  LET real == RealRowsForTab(tab, MergedArtifacts)
  IN  real \o FirstRows(FallbackOnchainTabs(tab), TabRows - Len(real))

\* The drawer lists them all.
ArtifactsTab == [i \in DOMAIN MergedArtifacts |-> MapArtifactToFooterRow(MergedArtifacts[i])]

DashboardNext ==
  \/ LogNext /\ UNCHANGED pageVars
  \/ Scroll \/ Jump \/ ServeArtifacts \/ FetchFails \/ Hydrate
  \/ OpenStream \/ DropStream \/ PushArtifact \/ Reload

DashboardSpec == DashboardInit /\ [][DashboardNext]_<<logVars, pageVars>>

(***************************************************************************)
(* What must hold.                                                         *)
(***************************************************************************)
CaughtUp == stream = "up" /\ read = Len(emitted)
Newest(i) ==
  LET key == NaturalKey(emitted[i])
  IN  key = NoKey \/ \A j \in i + 1 .. Len(emitted) : NaturalKey(emitted[j]) # key

\* No fetch has pushed a row of its key.
Live(a) == NaturalKey(a) = NoKey \/ NaturalKey(a) \notin hydrated

\* The place at which the run first showed a key.
FirstShown(key) ==
  CHOOSE i \in PositionsOf(emitted, key) : \A j \in PositionsOf(emitted, key) : i <= j

After(b, a) == FirstShown(NaturalKey(b)) > FirstShown(NaturalKey(a))

DrawerShows ==
  LET rows == ArtifactsTab IN
  /\ \A k, l \in DOMAIN rows :
       k < l /\ NaturalKey(rows[k].of) = NaturalKey(rows[l].of) => NaturalKey(rows[k].of) = NoKey
  /\ CaughtUp =>
       \A i \in DOMAIN emitted : Newest(i) /\ Live(emitted[i]) =>
         \E k \in DOMAIN rows : rows[k].of = emitted[i]

Tabs == {"BNB", "BASE", "X"}
IsReal(row) == row.of.kind \in Kinds

TabShows(tab) ==
  LET rows == RowsForTab(tab) IN
  /\ Len(rows) <= TabRows /\ \A k \in DOMAIN rows : rows[k].chain = tab
  /\ \A k, l \in DOMAIN rows : k < l /\ IsReal(rows[l]) =>
       /\ IsReal(rows[k])
       /\ Live(rows[k].of) /\ Live(rows[l].of) => After(rows[k].of, rows[l].of)
  /\ CaughtUp =>
       \A i \in DOMAIN emitted :
         Newest(i) /\ Live(emitted[i]) /\ TabOf(emitted[i]) = tab =>
           \/ \E k \in DOMAIN rows : rows[k].of = emitted[i]
           \/ /\ Len(rows) = TabRows
              /\ \A k \in DOMAIN rows :
                   IsReal(rows[k]) /\ (Live(rows[k].of) => After(rows[k].of, emitted[i]))

\* The drawer never has two rows for a key, and when the page has received what its
\* stream has to tell, it shows the newest version of every artifact, through replays
\* and hydrations.  A tab has rows of its chain, the real ones first, in the reverse
\* of the order in which the run first showed their keys: a later version does not
\* move its row.  It shows the newest version of an artifact unless all its rows are
\* taken by keys first shown later.  Only of a hydrated key may the version be old,
\* when the stream overtook the answer, and the place be another.
ShownNewest == DrawerShows /\ \A tab \in Tabs : TabShows(tab)

\* ch12-evidence.tsx:406-413: on entry the chapter fetches the artifacts, and only a
\* failure keeps the sample rows: while it is entered, a fetch is under way, has
\* landed or has failed.
EvidenceFetched ==
  Mounted(Evidence, y) /\ Progress(Evidence, y) > 0 =>
    hydration \in {"asked", "served", "landed", "failed"}
=============================================================================
