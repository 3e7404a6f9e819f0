---------------------------- MODULE LaunchProofs ----------------------------
(* Theorems about the launch of a token and its narration, for every set of *)
(* runs, every number of turns and texts, and with layer 2 on or off.       *)
EXTENDS Launch, FiniteSetTheorems, SequenceTheorems, TLAPS

Drafts == [chapter : Chapters \union {0}, cid : Cids \union {0}]
Rows   == [cid : Cids \union {0}, memo : Cids \union {0}]

\* The type invariant by the groups of variables the actions change together.
StoresTyped ==
  /\ lore \in [Chapters -> Cids \union {0}] /\ upserts \subseteq Cids
  /\ ledger \in [Chapters -> Rows] /\ commits \subseteq Chapters \X Cids
TextsTyped == texts \in Seq(Chapters) /\ Len(texts) <= MaxTexts
WorldTyped ==
  /\ deployed \in BOOLEAN /\ crashed \in BOOLEAN
  /\ image \in {"none", "ok", "upload-failed"}
ChainTyped == chain \subseteq Chapters \X Cids
RunsTyped ==
  /\ pc \in [Runs -> Ended \union Loops \union Steps]
  /\ turns \in [Runs -> 0 .. MaxTurns]
  /\ stage \in [Runs -> 0 .. 4]
  /\ draft \in [Runs -> Drafts]
BuysTyped == served \in [Runs -> Cids \union {0}] /\ paid \subseteq Runs
KindTyped == kind \in [Runs -> Kinds \union {"none"}]
ShownTyped == shown \subseteq Artifacts

Typed ==
  /\ StoresTyped /\ TextsTyped /\ WorldTyped /\ ChainTyped
  /\ RunsTyped /\ BuysTyped /\ KindTyped /\ ShownTyped

LEMMA TypedIsTypeOK == Typed <=> TypeOK
BY Zenon DEF Typed, TypeOK, StoresTyped, TextsTyped, WorldTyped, ChainTyped, RunsTyped,
   BuysTyped, KindTyped, ShownTyped, Drafts, Rows

(***************************************************************************)
(* The inductive invariant.                                                *)
(***************************************************************************)
\* The text cid was written as chapter c.
HasText(c, cid) == cid \in DOMAIN texts /\ texts[cid] = c

\* What a run has in hand was written as the chapter it takes it for, is in the
\* ledger's history, is in a memo; its chapter can be read; the chapters before it can.
Written(r)  == HasText(draft[r].chapter, draft[r].cid)
Held(r)     == <<draft[r].chapter, draft[r].cid>> \in commits
Sent(r)     == <<draft[r].chapter, draft[r].cid>> \in chain
Readable(r) == draft[r].chapter \in Chapters /\ lore[draft[r].chapter] # 0
Next1(r)    == /\ draft[r].chapter \in Chapters
               /\ \A d \in Chapters : d < draft[r].chapter => lore[d] # 0

Creators  == {"a2a", "creator"}
Narrators == {"a2a", "dry", "narrator"}

\* A run at each of its awaits.
AtCreator(r) ==
  /\ pc[r] = "idle" => kind[r] = "none"
  /\ pc[r] = "creating" =>
       /\ kind[r] \in Creators
       /\ stage[r] >= 3 => deployed
       /\ stage[r] = 4 => draft[r].chapter = 1 /\ Written(r)
  /\ pc[r] \in {"append1", "send1", "mark1"} =>
       kind[r] \in Creators /\ deployed /\ draft[r].chapter = 1 /\ Written(r)
  /\ pc[r] \in {"send1", "mark1"} => Held(r)
  /\ pc[r] = "mark1" => Sent(r)

AtNarrator(r) ==
  /\ pc[r] \in {"narrating", "upsert", "latest", "append", "send", "mark"} =>
       kind[r] \in Narrators
  /\ pc[r] = "narrating" =>
       /\ stage[r] = 0 => draft[r].cid = 0
       /\ stage[r] # 0 => stage[r] = 1 /\ Next1(r)
       /\ draft[r].cid # 0 => Written(r)
  /\ pc[r] = "upsert" => Written(r) /\ Next1(r)
  /\ pc[r] \in {"append", "send", "mark"} => Written(r) /\ Readable(r)
  /\ pc[r] \in {"send", "mark"} => Held(r)
  /\ pc[r] = "mark" => Sent(r)

AtTrader(r) ==
  /\ pc[r] = "trading" =>
       /\ kind[r] \in {"a2a", "dry"} /\ Readable(r) /\ Held(r)
       /\ stage[r] <= 2
       /\ stage[r] = 2 => r \in paid /\ served[r] # 0
  /\ pc[r] = "done" /\ kind[r] # "creator" => Readable(r) /\ Held(r)

Local(r) == AtCreator(r) /\ AtNarrator(r) /\ AtTrader(r)

\* What the stores and the chain hold was written as what it is held as.
Stores ==
  /\ \A c \in Chapters : lore[c] # 0 => HasText(c, lore[c])
  /\ \A cid \in upserts : HasText(1, cid)
  /\ \A c \in Chapters : ledger[c].cid # 0 => <<c, ledger[c].cid>> \in commits
  /\ \A c \in Chapters : ledger[c].memo # 0 => <<c, ledger[c].memo>> \in chain
  /\ chain \subseteq commits
  /\ \A m \in commits : HasText(m[1], m[2])

Gapless == \A c, d \in Chapters : lore[c] # 0 /\ d < c => lore[d] # 0

\* One run creates the token; once it has shown the image it is past its loop, so
\* the image is not drawn again.
OneCreator == \A r, q \in Runs : kind[r] \in Creators /\ kind[q] \in Creators => r = q
ImageShown ==
  (\E a \in shown : a.what = "image") =>
    image = "ok" /\ \E r \in Runs : kind[r] \in Creators /\ pc[r] # "creating" 

\* What each artifact asserts.
Holds(a) ==
  /\ a.what \in {"token", "deploy-tx"} => deployed \/ Forged
  /\ a.what = "lore" =>
       HasText(a.chapter, a.cid) \/ (a.cid = 0 /\ a.chapter = 0 /\ Forged)
  /\ a.what = "anchor" => <<a.chapter, a.cid>> \in commits
  /\ a.what = "anchor" /\ a.memo # 0 => a.memo = a.cid /\ <<a.chapter, a.cid>> \in chain
  /\ a.what = "payment" =>
       a.cid # 0 /\ \E r \in paid : pc[r] = "done" /\ served[r] = a.cid
ShownHolds == \A a \in shown : Holds(a)

Inv ==
  /\ Typed /\ (\A r \in Runs : Local(r))
  /\ Stores /\ Gapless /\ OneCreator /\ ImageShown /\ ShownHolds

LEMMA InvImplies ==
  Inv => TypeOK /\ SlotsHoldOwnTexts /\ StampsProven /\ ChaptersGapless
         /\ EvidenceTrue /\ DoneMeansPublished
<1> SUFFICES ASSUME Inv PROVE TypeOK /\ SlotsHoldOwnTexts /\ StampsProven
      /\ ChaptersGapless /\ EvidenceTrue /\ DoneMeansPublished
  OBVIOUS
<1>1. TypeOK
  BY TypedIsTypeOK DEF Inv
<1>2. SlotsHoldOwnTexts
  <2>1. \A m \in commits : m[2] \in DOMAIN texts /\ texts[m[2]] = m[1]
    BY DEF Inv, Stores, HasText
  <2>2. \A c, cid : <<c, cid>> \in commits => cid \in DOMAIN texts /\ texts[cid] = c
    BY <2>1
  <2>3. \A c \in Chapters : lore[c] # 0 => lore[c] \in DOMAIN texts /\ texts[lore[c]] = c
    BY DEF Inv, Stores, HasText
  <2>4. ASSUME NEW c \in Chapters, NEW cid \in {lore[c], ledger[c].cid, ledger[c].memo} \ {0}
        PROVE  cid \in DOMAIN texts /\ texts[cid] = c
    <3>1. ledger[c].cid # 0 => <<c, ledger[c].cid>> \in commits
      BY Zenon DEF Inv, Stores
    <3>2. ledger[c].memo # 0 => <<c, ledger[c].memo>> \in commits
      BY Zenon DEF Inv, Stores
    <3>3. QED
      BY <2>2, <2>3, <3>1, <3>2
  <2>5. chain \subseteq commits
    BY DEF Inv, Stores
  <2>6. QED
    BY <2>1, <2>4, <2>5 DEF SlotsHoldOwnTexts
<1>3. StampsProven
  BY Zenon DEF Inv, Stores, StampsProven
<1>4. ChaptersGapless
  <2>1. ASSUME NEW c \in AllChapters, NEW d \in 1 .. c PROVE d \in AllChapters
    <3>1. c \in Chapters /\ lore[c] # 0 /\ d \in Chapters
      BY LaunchAssumption DEF AllChapters, Chapters
    <3>2. d = c \/ d < c
      BY <3>1 DEF Chapters
    <3>3. QED
      BY <3>1, <3>2 DEF Inv, Gapless, AllChapters
  <2>2. QED
    BY <2>1 DEF ChaptersGapless
<1>5. EvidenceTrue
  <2>1. ASSUME NEW a \in shown
        PROVE  Holds(a) /\ (a.what = "image" => image = "ok")
    BY Zenon DEF Inv, ShownHolds, ImageShown
  <2>2. QED
    BY <2>1, Zenon DEF EvidenceTrue, Holds, HasText
<1>6. DoneMeansPublished
  BY Zenon DEF Inv, Local, AtTrader, Readable, Held, DoneMeansPublished, AllChapters
<1>7. QED
  BY <1>1, <1>2, <1>3, <1>4, <1>5, <1>6

(***************************************************************************)
(* What a step leaves alone.                                               *)
(***************************************************************************)
\* A step of run r is nobody else's, and a dry run stays one.
Alone(r) ==
  /\ \A q \in Runs \ {r} :
       /\ pc'[q] = pc[q] /\ stage'[q] = stage[q] /\ draft'[q] = draft[q]
       /\ kind'[q] = kind[q] /\ served'[q] = served[q]
  /\ kind[r] = "dry" => kind'[r] = "dry"

\* What is written, read, committed, sent, deployed and paid stays so.
Grows ==
  /\ \A c, cid : HasText(c, cid) => HasText(c, cid)'
  /\ \A c \in Chapters : lore[c] # 0 => lore'[c] # 0
  /\ commits \subseteq commits' /\ chain \subseteq chain'
  /\ deployed => deployed'
  /\ paid \subseteq paid'

LEMMA LocalKept ==
  ASSUME NEW q \in Runs, Local(q), Grows, pc'[q] = pc[q], stage'[q] = stage[q],
         draft'[q] = draft[q], kind'[q] = kind[q], served'[q] = served[q]
  PROVE  Local(q)'
<1>1. /\ Written(q) => Written(q)'
      /\ Held(q) => Held(q)'
      /\ Sent(q) => Sent(q)'
      /\ Readable(q) => Readable(q)'
      /\ Next1(q) => Next1(q)'
      /\ deployed => deployed'
      /\ q \in paid => q \in paid'
  BY Zenon DEF Grows, Written, Held, Sent, Readable, Next1
<1>2. AtCreator(q) => AtCreator(q)'
  BY <1>1, Zenon DEF AtCreator
<1>3. AtNarrator(q) => AtNarrator(q)'
  BY <1>1, Zenon DEF AtNarrator
<1>4. AtTrader(q) => AtTrader(q)'
  BY <1>1, Zenon DEF AtTrader
<1>5. QED
  BY <1>2, <1>3, <1>4, Zenon DEF Local

LEMMA LocalOthers ==
  ASSUME Inv, NEW r \in Runs, Alone(r), Grows, Local(r)'
  PROVE  \A q \in Runs : Local(q)'
BY LocalKept, Zenon DEF Inv, Alone

QuietStores == UNCHANGED <<lore, upserts, ledger, commits, texts, chain>>

LEMMA StoresKept ==
  ASSUME Inv, QuietStores
  PROVE  Stores' /\ Gapless'
<1>1. \A c, cid : HasText(c, cid)' <=> HasText(c, cid)
  BY Zenon DEF QuietStores, HasText
<1>2. Stores'
  BY <1>1, Zenon DEF Inv, Stores, QuietStores
<1>3. QED
  BY <1>2, Zenon DEF Inv, Gapless, QuietStores

LEMMA QuietGrows ==
  ASSUME QuietStores, deployed => deployed', paid \subseteq paid'
  PROVE  Grows
<1>1. \A c, cid : HasText(c, cid)' <=> HasText(c, cid)
  BY Zenon DEF QuietStores, HasText
<1>2. QED
  BY <1>1, Zenon DEF Grows, QuietStores

\* An artifact goes on asserting what has happened.
LEMMA HoldsKept ==
  ASSUME NEW r \in Runs, Alone(r), Grows, pc[r] # "done", NEW a, Holds(a),
         paid \subseteq Runs
  PROVE  Holds(a)'
<1>1. \A q \in paid : pc[q] = "done" => pc'[q] = "done" /\ served'[q] = served[q] /\ q \in paid'
  BY Zenon DEF Alone, Grows
<1>2. Forged => Forged'
  BY Zenon DEF Alone, Forged
<1>3. QED
  BY <1>1, <1>2, Zenon DEF Holds, Grows

LEMMA ShownKept ==
  ASSUME Inv, NEW r \in Runs, Alone(r), Grows, pc[r] # "done",
         NEW S, \A a \in S : Holds(a)', shown' \subseteq shown \union S
  PROVE  ShownHolds'
<1>1. paid \subseteq Runs
  BY DEF Inv, Typed, BuysTyped
<1>2. \A a \in shown : Holds(a)'
  BY <1>1, HoldsKept, Zenon DEF Inv, ShownHolds
<1>3. QED
  BY <1>2 DEF ShownHolds

LEMMA ShownSame ==
  ASSUME Inv, NEW r \in Runs, Alone(r), Grows, pc[r] # "done", shown' = shown
  PROVE  ShownHolds'
<1>1. paid \subseteq Runs
  BY DEF Inv, Typed, BuysTyped
<1>2. \A a \in shown : Holds(a)'
  BY <1>1, HoldsKept, Zenon DEF Inv, ShownHolds
<1>3. QED
  BY <1>2, Zenon DEF ShownHolds

LEMMA ImagesKept ==
  ASSUME Inv, NEW r \in Runs, Alone(r), image' = image, kind' = kind,
         pc'[r] = "creating" => pc[r] = "creating",
         \A a \in shown' : a.what = "image" => a \in shown
  PROVE  OneCreator' /\ ImageShown'
<1>1. OneCreator'
  BY Zenon DEF Inv, OneCreator
<1>2. \A q \in Runs : pc'[q] = "creating" => pc[q] = "creating"
  BY Zenon DEF Alone
<1>3. ImageShown'
  BY <1>2, Zenon DEF Inv, ImageShown
<1>4. QED
  BY <1>1, <1>3

\* A step inside a run that shows nothing and leaves the stores alone.
LEMMA QuietStep ==
  ASSUME Inv, NEW r \in Runs, Typed', Alone(r), QuietStores, Local(r)',
         deployed => deployed', paid \subseteq paid', pc[r] # "done",
         image' = image, kind' = kind, shown' = shown,
         pc'[r] = "creating" => pc[r] = "creating"
  PROVE  Inv'
<1>1. Grows
  BY QuietGrows, Zenon
<1>2. \A q \in Runs : Local(q)'
  BY <1>1, LocalOthers, Zenon
<1>3. Stores' /\ Gapless'
  BY StoresKept, Zenon
<1>4. ShownHolds'
  BY <1>1, ShownSame, Zenon
<1>5. OneCreator' /\ ImageShown'
  BY ImagesKept, Zenon
<1>6. QED
  BY <1>2, <1>3, <1>4, <1>5, Zenon DEF Inv

(***************************************************************************)
(* The pieces the actions are made of.                                     *)
(***************************************************************************)
LEMMA DraftTyped ==
  ASSUME Typed, NEW r \in Runs
  PROVE  /\ draft[r] \in Drafts
         /\ draft[r].chapter \in Chapters \union {0} /\ draft[r].cid \in Cids \union {0}
         /\ stage[r] \in 0 .. 4 /\ turns[r] \in 0 .. MaxTurns
         /\ served[r] \in Cids \union {0}
BY DEF Typed, RunsTyped, BuysTyped, Drafts

LEMMA ZeroOutside == 0 \notin Chapters /\ 0 \notin Cids
BY LaunchAssumption DEF Chapters, Cids

LEMMA TextTyped ==
  ASSUME Typed, NEW c, NEW cid, HasText(c, cid)
  PROVE  c \in Chapters /\ cid \in Cids /\ c # 0 /\ cid # 0
<1>1. cid \in 1 .. Len(texts) /\ c \in Chapters
  BY DEF Typed, TextsTyped, HasText
<1>2. Len(texts) \in Nat /\ Len(texts) <= MaxTexts
  BY DEF Typed, TextsTyped
<1>3. cid \in Cids
  BY <1>1, <1>2, LaunchAssumption DEF Cids
<1>4. QED
  BY <1>1, <1>3, ZeroOutside

LEMMA EndEffect ==
  ASSUME Typed, NEW r \in Runs, NEW how, End(r, how)
  PROVE  /\ pc'[r] = how /\ stage'[r] = 0
         /\ \A q \in Runs \ {r} : pc'[q] = pc[q] /\ stage'[q] = stage[q]
         /\ how \in Ended \union Loops \union Steps => 
              /\ pc' \in [Runs -> Ended \union Loops \union Steps]
              /\ turns' \in [Runs -> 0 .. MaxTurns]
              /\ stage' \in [Runs -> 0 .. 4]
<1>1. 0 \in 0 .. MaxTurns /\ 0 \in 0 .. 4
  BY LaunchAssumption
<1>2. QED
  BY <1>1, Zenon DEF Typed, RunsTyped, End

LEMMA EnterIsEnd == \A r, loop : Enter(r, loop) <=> End(r, loop)
BY Zenon DEF Enter, End

LEMMA TurnEffect ==
  ASSUME Typed, NEW r \in Runs, NEW loop, Turn(r, loop)
  PROVE  pc[r] = loop /\ turns' \in [Runs -> 0 .. MaxTurns]
<1>1. turns[r] + 1 \in 0 .. MaxTurns
  BY LaunchAssumption DEF Typed, RunsTyped, Turn
<1>2. QED
  BY <1>1, Zenon DEF Typed, RunsTyped, Turn

LEMMA AdvanceEffect ==
  ASSUME Typed, NEW r \in Runs, Advance(r), stage[r] <= 3
  PROVE  /\ stage'[r] = stage[r] + 1
         /\ \A q \in Runs \ {r} : stage'[q] = stage[q]
         /\ stage' \in [Runs -> 0 .. 4]
<1>1. stage[r] + 1 \in 0 .. 4
  BY DEF Typed, RunsTyped
<1>2. QED
  BY <1>1, Zenon DEF Typed, RunsTyped, Advance

LEMMA QuietTyped ==
  ASSUME Typed, QuietStores, RunsTyped', WorldTyped', BuysTyped',
         shown' = shown, kind' = kind
  PROVE  Typed'
BY Zenon DEF Typed, StoresTyped, TextsTyped, ChainTyped, KindTyped, ShownTyped, QuietStores

\* Such a step of a loop that neither buys nor draws nor deploys.
LEMMA LoopStep ==
  ASSUME Inv, NEW r \in Runs, Alone(r), Local(r)', RunsTyped', pc[r] # "done",
         pc'[r] = "creating" => pc[r] = "creating",
         UNCHANGED <<storeVars, worldVars, buyVars, shown, kind, crashed>>
  PROVE  Inv'
<1>1. /\ QuietStores /\ WorldTyped' /\ BuysTyped'
      /\ shown' = shown /\ kind' = kind /\ image' = image
      /\ (deployed => deployed') /\ paid \subseteq paid'
  BY Zenon DEF Inv, Typed, QuietStores, WorldTyped, BuysTyped, storeVars, worldVars, buyVars
<1>2. Typed'
  BY <1>1, QuietTyped, Zenon DEF Inv
<1>3. QED
  BY <1>1, <1>2, QuietStep, Zenon

(***************************************************************************)
(* The turns of the loops.                                                 *)
(***************************************************************************)
LEMMA NarrativeToolKeeps ==
  ASSUME Inv, NEW r \in Runs, NarrativeTool(r) PROVE Inv'
<1>1. Typed /\ Local(r)
  BY DEF Inv
<1>2. pc[r] = "creating" /\ turns' \in [Runs -> 0 .. MaxTurns]
  BY <1>1, TurnEffect, Zenon DEF NarrativeTool, Calls
<1>3. /\ stage'[r] = 1 /\ stage' \in [Runs -> 0 .. 4]
      /\ \A q \in Runs \ {r} : stage'[q] = stage[q]
  BY <1>1, AdvanceEffect DEF NarrativeTool
<1>4. UNCHANGED <<storeVars, worldVars, buyVars, shown, kind, crashed>>
      /\ pc' = pc /\ draft' = draft
  BY Zenon DEF NarrativeTool
<1>5. Alone(r) /\ RunsTyped'
  BY <1>1, <1>2, <1>3, <1>4, Zenon DEF Alone, RunsTyped, Typed, buyVars
<1>6. Local(r)'
  <2>1. pc'[r] = "creating" /\ stage'[r] = 1 /\ kind'[r] \in Creators
    BY <1>1, <1>2, <1>3, <1>4 DEF Local, AtCreator
  <2>2. QED
    BY <2>1 DEF Local, AtCreator, AtNarrator, AtTrader
<1>7. QED
  BY <1>2, <1>4, <1>5, <1>6, LoopStep, Zenon

LEMMA OnchainDeployerKeeps ==
  ASSUME Inv, NEW r \in Runs, OnchainDeployer(r) PROVE Inv'
<1>1. Typed /\ Local(r)
  BY DEF Inv
<1>2. pc[r] = "creating" /\ turns' \in [Runs -> 0 .. MaxTurns]
  BY <1>1, TurnEffect, Zenon DEF OnchainDeployer, Calls
<1>3. /\ stage'[r] = 3 /\ stage' \in [Runs -> 0 .. 4]
      /\ \A q \in Runs \ {r} : stage'[q] = stage[q]
  BY <1>1, AdvanceEffect DEF OnchainDeployer
<1>4. /\ QuietStores /\ pc' = pc /\ draft' = draft /\ kind' = kind /\ shown' = shown
      /\ image' = image /\ served' = served /\ paid' = paid /\ crashed' = crashed
      /\ deployed' = TRUE
  BY Zenon DEF OnchainDeployer, QuietStores, storeVars, buyVars
<1>5. Alone(r) /\ RunsTyped' /\ WorldTyped' /\ BuysTyped'
  BY <1>1, <1>2, <1>3, <1>4, Zenon DEF Alone, RunsTyped, WorldTyped, BuysTyped, Typed
<1>6. Local(r)'
  <2>1. pc'[r] = "creating" /\ stage'[r] = 3 /\ kind'[r] \in Creators /\ deployed'
    BY <1>1, <1>2, <1>3, <1>4 DEF Local, AtCreator
  <2>2. QED
    BY <2>1 DEF Local, AtCreator, AtNarrator, AtTrader
<1>7. Typed'
  BY <1>1, <1>4, <1>5, QuietTyped, Zenon
<1>8. QED
  BY <1>2, <1>4, <1>5, <1>6, <1>7, QuietStep, Zenon

\* The image is drawn before it is shown: the only creator is still in its loop.
LEMMA ImageToolKeeps ==
  ASSUME Inv, NEW r \in Runs, ImageTool(r) PROVE Inv'
<1>1. Typed /\ Local(r)
  BY DEF Inv
<1>2. pc[r] = "creating" /\ turns' \in [Runs -> 0 .. MaxTurns]
  BY <1>1, TurnEffect, Zenon DEF ImageTool, Calls
<1>3. /\ stage'[r] = 2 /\ stage' \in [Runs -> 0 .. 4]
      /\ \A q \in Runs \ {r} : stage'[q] = stage[q]
  BY <1>1, AdvanceEffect DEF ImageTool
<1>4. /\ QuietStores /\ pc' = pc /\ draft' = draft /\ kind' = kind /\ shown' = shown
      /\ deployed' = deployed /\ served' = served /\ paid' = paid /\ crashed' = crashed
      /\ image' \in {"ok", "upload-failed"}
  BY Zenon DEF ImageTool, QuietStores, storeVars, buyVars
<1>5. Alone(r) /\ RunsTyped' /\ BuysTyped'
  BY <1>1, <1>2, <1>3, <1>4, Zenon DEF Alone, RunsTyped, BuysTyped, Typed
<1>6. WorldTyped'
  BY <1>1, <1>4 DEF WorldTyped, Typed
<1>7. Local(r)'
  <2>1. pc'[r] = "creating" /\ stage'[r] = 2 /\ kind'[r] \in Creators
    BY <1>1, <1>2, <1>3, <1>4 DEF Local, AtCreator
  <2>2. QED
    BY <2>1 DEF Local, AtCreator, AtNarrator, AtTrader
<1>8. Typed'
  BY <1>1, <1>4, <1>5, <1>6, QuietTyped, Zenon
<1>9. Grows
  BY <1>4, QuietGrows, Zenon
<1>10. \A a \in shown : a.what # "image"
  <2>1. kind[r] \in Creators
    BY <1>1, <1>2 DEF Local, AtCreator
  <2>2. \A q \in Runs : kind[q] \in Creators => pc[q] = "creating"
    BY <1>2, <2>1, Zenon DEF Inv, OneCreator
  <2>3. QED
    BY <2>2, Zenon DEF Inv, ImageShown
<1>11. ImageShown' /\ OneCreator'
  BY <1>4, <1>10, Zenon DEF Inv, ImageShown, OneCreator
<1>12. ShownHolds'
  BY <1>2, <1>4, <1>5, <1>9, ShownSame, Zenon
<1>13. Stores' /\ Gapless'
  BY <1>4, StoresKept, Zenon
<1>14. \A q \in Runs : Local(q)'
  BY <1>5, <1>7, <1>9, LocalOthers, Zenon
<1>15. QED
  BY <1>8, <1>11, <1>12, <1>13, <1>14, Zenon DEF Inv

LEMMA GiveUpKeeps ==
  ASSUME Inv, NEW r \in Runs, GiveUp(r) PROVE Inv'
<1>1. Typed /\ End(r, "error") /\ pc[r] \in Loops
  BY Zenon DEF Inv, GiveUp
<1>2. "error" \in Ended \union Loops \union Steps
  BY DEF Ended
<1>3. /\ UNCHANGED <<storeVars, worldVars, buyVars, shown, kind, crashed>> /\ draft' = draft
  BY Zenon DEF GiveUp
<1>4. Alone(r) /\ RunsTyped' /\ pc'[r] = "error"
  BY <1>1, <1>2, <1>3, EndEffect, Zenon DEF Alone, RunsTyped, Typed, buyVars
<1>5. Local(r)'
  BY <1>4 DEF Local, AtCreator, AtNarrator, AtTrader
<1>6. pc[r] # "done" /\ pc'[r] # "creating"
  BY <1>1, <1>4 DEF Loops
<1>7. QED
  BY <1>3, <1>4, <1>5, <1>6, LoopStep, Zenon

\* A failed call: the narrator's text is forgotten.
LEMMA ToolErrorKeeps ==
  ASSUME Inv, NEW r \in Runs, ToolError(r) PROVE Inv'
<1>1. Typed /\ Local(r)
  BY DEF Inv
<1>2. pc[r] \in Loops /\ turns' \in [Runs -> 0 .. MaxTurns]
  BY <1>1, TurnEffect DEF ToolError
<1>3. UNCHANGED <<storeVars, worldVars, buyVars, shown, kind, crashed>>
      /\ pc' = pc /\ stage' = stage
  BY Zenon DEF ToolError
<1>4. CASE ~(pc[r] = "narrating" /\ stage[r] = 1)
  <2>1. draft' = draft
    BY <1>4, Zenon DEF ToolError
  <2>2. Alone(r) /\ RunsTyped'
    BY <1>1, <1>2, <1>3, <2>1, Zenon DEF Alone, RunsTyped, Typed, buyVars
  <2>3. Grows
    <3>1. QuietStores /\ deployed' = deployed /\ paid' = paid
      BY <1>3, Zenon DEF QuietStores, storeVars, worldVars, buyVars
    <3>2. QED
      BY <3>1, QuietGrows
  <2>4. Local(r)'
    BY <1>1, <1>3, <2>1, <2>3, LocalKept, Zenon DEF buyVars
  <2>5. pc[r] # "done"
    BY <1>2 DEF Loops
  <2>6. QED
    BY <1>3, <2>2, <2>4, <2>5, LoopStep, Zenon
<1>5. CASE pc[r] = "narrating" /\ stage[r] = 1
  <2>1. draft' = [draft EXCEPT ![r].cid = 0]
    BY <1>5, Zenon DEF ToolError
  <2>2. draft[r] \in Drafts
    BY <1>1, DraftTyped
  <2>3. [draft[r] EXCEPT !.cid = 0] \in Drafts
    BY <2>2, Zenon DEF Drafts
  <2>4. /\ draft' \in [Runs -> Drafts]
        /\ draft'[r].cid = 0 /\ draft'[r].chapter = draft[r].chapter
        /\ \A q \in Runs \ {r} : draft'[q] = draft[q]
    BY <1>1, <2>1, <2>2, <2>3, Zenon DEF Typed, RunsTyped, Drafts
  <2>5. Alone(r) /\ RunsTyped'
    BY <1>1, <1>2, <1>3, <2>4, Zenon DEF Alone, RunsTyped, Typed, buyVars
  <2>6. lore' = lore /\ kind' = kind
    BY <1>3, Zenon DEF storeVars
  <2>7. Next1(r)' /\ kind'[r] \in Narrators /\ pc'[r] = "narrating" /\ stage'[r] = 1
    BY <1>1, <1>3, <1>5, <2>4, <2>6 DEF Local, AtNarrator, Next1
  <2>8. Local(r)'
    BY <2>4, <2>7 DEF Local, AtCreator, AtNarrator, AtTrader
  <2>9. QED
    BY <1>3, <1>5, <2>5, <2>7, <2>8, LoopStep, Zenon
<1>6. QED
  BY <1>4, <1>5

(***************************************************************************)
(* A text is pinned.                                                       *)
(***************************************************************************)
LEMMA PinEffect ==
  ASSUME Typed, NEW r \in Runs, NEW c \in Chapters, Pin(r, c)
  PROVE  /\ TextsTyped'
         /\ \A d, cid : HasText(d, cid) => HasText(d, cid)'
         /\ draft'[r].chapter = c /\ draft'[r].cid = Len(texts) + 1 /\ Written(r)'
         /\ \A q \in Runs \ {r} : draft'[q] = draft[q]
         /\ draft' \in [Runs -> Drafts]
<1>1. texts \in Seq(Chapters) /\ Len(texts) \in Nat /\ Len(texts) < MaxTexts
  BY DEF Typed, TextsTyped, Pin
<1>2. texts' = Append(texts, c)
  BY DEF Pin
<1>3. /\ texts' \in Seq(Chapters) /\ Len(texts') = Len(texts) + 1
      /\ texts'[Len(texts) + 1] = c
      /\ \A i \in 1 .. Len(texts) : texts'[i] = texts[i]
      /\ DOMAIN texts' = 1 .. Len(texts) + 1 /\ DOMAIN texts = 1 .. Len(texts)
  BY <1>1, <1>2
<1>4. TextsTyped'
  BY <1>1, <1>3, LaunchAssumption DEF TextsTyped
<1>5. ASSUME NEW d, NEW cid, HasText(d, cid) PROVE HasText(d, cid)'
  <2>1. cid \in 1 .. Len(texts) /\ texts[cid] = d
    BY <1>3, <1>5, Zenon DEF HasText
  <2>2. cid \in 1 .. Len(texts) + 1 /\ texts'[cid] = d
    BY <1>1, <1>3, <2>1
  <2>3. QED
    BY <1>3, <2>2, Zenon DEF HasText
<1>6. Len(texts) + 1 \in Cids
  BY <1>1, LaunchAssumption DEF Cids
<1>7. draft' = [draft EXCEPT ![r] = [chapter |-> c, cid |-> Len(texts) + 1]]
  BY Zenon DEF Pin
<1>8. [chapter |-> c, cid |-> Len(texts) + 1] \in Drafts
  BY <1>6, Zenon DEF Drafts
<1>9. /\ draft'[r].chapter = c /\ draft'[r].cid = Len(texts) + 1
      /\ \A q \in Runs \ {r} : draft'[q] = draft[q]
      /\ draft' \in [Runs -> Drafts]
  BY <1>7, <1>8, Zenon DEF Typed, RunsTyped
<1>10. Written(r)'
  <2>1. Len(texts) + 1 \in DOMAIN texts' /\ texts'[Len(texts) + 1] = c
    BY <1>1, <1>3
  <2>2. QED
    BY <1>9, <2>1, Zenon DEF Written, HasText
<1>11. QED
  BY <1>4, <1>5, <1>9, <1>10

LEMMA PinStep ==
  ASSUME Inv, NEW r \in Runs, NEW c \in Chapters, Pin(r, c), Local(r)',
         pc' = pc, pc[r] # "done", turns' \in [Runs -> 0 .. MaxTurns],
         stage' \in [Runs -> 0 .. 4], \A q \in Runs \ {r} : stage'[q] = stage[q],
         UNCHANGED <<storeVars, deployed, image, chain, buyVars, shown, kind, crashed>>
  PROVE  Inv'
<1>1. Typed /\ paid \subseteq Runs
  BY DEF Inv, Typed, BuysTyped
<1>2. /\ lore' = lore /\ upserts' = upserts /\ ledger' = ledger /\ commits' = commits
      /\ served' = served /\ paid' = paid /\ deployed' = deployed /\ chain' = chain
      /\ image' = image /\ shown' = shown /\ kind' = kind /\ crashed' = crashed
  BY Zenon DEF storeVars, buyVars
<1>3. Typed'
  BY <1>1, <1>2, PinEffect, Zenon DEF Typed, StoresTyped, WorldTyped, ChainTyped, RunsTyped,
     BuysTyped, KindTyped, ShownTyped
<1>4. Alone(r) /\ Grows
  <2>1. Alone(r)
    BY <1>1, <1>2, PinEffect, Zenon DEF Alone
  <2>2. \A d, cid : HasText(d, cid) => HasText(d, cid)'
    BY <1>1, PinEffect, Zenon
  <2>3. commits \subseteq commits' /\ chain \subseteq chain' /\ paid \subseteq paid'
    BY <1>2, Zenon
  <2>4. \A d \in Chapters : lore[d] # 0 => lore'[d] # 0
    BY <1>2, Zenon
  <2>5. deployed => deployed'
    BY <1>2
  <2>6. QED
    BY <2>1, <2>2, <2>3, <2>4, <2>5, Zenon DEF Grows
<1>5. Stores'
  BY <1>1, <1>2, PinEffect, Zenon DEF Inv, Stores
<1>6. Gapless'
  BY <1>2, Zenon DEF Inv, Gapless
<1>7. \A q \in Runs : Local(q)'
  BY <1>4, LocalOthers, Zenon
<1>8. ShownHolds'
  BY <1>2, <1>4, ShownSame, Zenon
<1>9. OneCreator' /\ ImageShown'
  BY <1>2, Zenon DEF Inv, OneCreator, ImageShown
<1>10. QED
  BY <1>3, <1>5, <1>6, <1>7, <1>8, <1>9, Zenon DEF Inv

LEMMA LoreWriterKeeps ==
  ASSUME Inv, NEW r \in Runs, LoreWriter(r) PROVE Inv'
<1>1. Typed /\ Local(r) /\ Pin(r, 1)
  BY Zenon DEF Inv, LoreWriter
<1>2. pc[r] = "creating" /\ turns' \in [Runs -> 0 .. MaxTurns]
  BY <1>1, TurnEffect, Zenon DEF LoreWriter, Calls
<1>3. /\ stage'[r] = 4 /\ stage' \in [Runs -> 0 .. 4] /\ stage[r] = 3
      /\ \A q \in Runs \ {r} : stage'[q] = stage[q]
  BY <1>1, AdvanceEffect DEF LoreWriter
<1>4. UNCHANGED <<storeVars, deployed, image, chain, buyVars, shown, kind, crashed>>
      /\ pc' = pc
  BY Zenon DEF LoreWriter
<1>5. 1 \in Chapters
  <2>1. Len(texts) \in Nat /\ Len(texts) < MaxTexts
    BY <1>1 DEF Typed, TextsTyped, Pin
  <2>2. QED
    BY <2>1, LaunchAssumption DEF Chapters
<1>6. Local(r)'
  <2>1. pc'[r] = "creating" /\ stage'[r] = 4 /\ kind'[r] \in Creators /\ deployed'
    BY <1>1, <1>2, <1>3, <1>4 DEF Local, AtCreator
  <2>2. draft'[r].chapter = 1 /\ Written(r)'
    BY <1>1, <1>5, PinEffect, Zenon
  <2>3. QED
    BY <2>1, <2>2 DEF Local, AtCreator, AtNarrator, AtTrader
<1>7. pc[r] # "done"
  BY <1>2
<1>8. QED
  BY <1>1, <1>2, <1>3, <1>4, <1>5, <1>6, <1>7, PinStep, Zenon

LEMMA ExtendLoreKeeps ==
  ASSUME Inv, NEW r \in Runs, ExtendLore(r) PROVE Inv'
<1>1. Typed /\ Local(r) /\ Pin(r, draft[r].chapter)
  BY Zenon DEF Inv, ExtendLore
<1>2. pc[r] = "narrating" /\ stage[r] = 1 /\ turns' \in [Runs -> 0 .. MaxTurns]
  BY <1>1, TurnEffect, Zenon DEF ExtendLore, Calls
<1>3. UNCHANGED <<storeVars, deployed, image, chain, buyVars, shown, kind, crashed>>
      /\ pc' = pc /\ stage' = stage
  BY Zenon DEF ExtendLore
<1>4. Next1(r) /\ draft[r].chapter \in Chapters /\ kind[r] \in Narrators
  BY <1>1, <1>2 DEF Local, AtNarrator, Next1
<1>5. /\ draft'[r].chapter = draft[r].chapter /\ Written(r)'
  BY <1>1, <1>4, PinEffect, Zenon
<1>6. Local(r)'
  <2>1. lore' = lore
    BY <1>3, Zenon DEF storeVars
  <2>2. Next1(r)'
    BY <1>4, <1>5, <2>1, Zenon DEF Next1
  <2>3. pc'[r] = "narrating" /\ stage'[r] = 1 /\ kind'[r] \in Narrators
    BY <1>2, <1>3, <1>4
  <2>4. QED
    BY <1>5, <2>2, <2>3 DEF Local, AtCreator, AtNarrator, AtTrader
<1>7. stage' \in [Runs -> 0 .. 4] /\ pc[r] # "done"
  BY <1>1, <1>2, <1>3 DEF Typed, RunsTyped
<1>8. QED
  BY <1>1, <1>2, <1>3, <1>4, <1>6, <1>7, PinStep, Zenon

(***************************************************************************)
(* The other turns of the narrator and the market-maker.                   *)
(***************************************************************************)
\* As many chapters as there are can be read, so the one after them has no gap
\* before it.
LEMMA CountedIsNext ==
  ASSUME Typed, Gapless, Cardinality(AllChapters) < MaxTexts
  PROVE  /\ Cardinality(AllChapters) + 1 \in Chapters
         /\ \A d \in Chapters : d < Cardinality(AllChapters) + 1 => lore[d] # 0
<1> DEFINE k == Cardinality(AllChapters)
<1>1. IsFiniteSet(Chapters) /\ AllChapters \subseteq Chapters
  BY LaunchAssumption, FS_Interval DEF Chapters, AllChapters
<1>2. k \in Nat
  BY <1>1, FS_Subset, FS_CardinalityType
<1>3. ASSUME NEW d \in Chapters, d < k + 1, lore[d] = 0 PROVE FALSE
  <2>1. d \in Nat /\ d >= 1
    BY LaunchAssumption DEF Chapters
  <2>2. AllChapters \subseteq 1 .. d - 1
    <3>1. ASSUME NEW c \in AllChapters PROVE c \in 1 .. d - 1
      <4>1. c \in Chapters /\ lore[c] # 0
        BY DEF AllChapters
      <4>2. ~(d < c) /\ c # d
        BY <1>3, <4>1 DEF Gapless
      <4>3. QED
        BY <2>1, <4>1, <4>2, LaunchAssumption DEF Chapters
    <3>2. QED
      BY <3>1
  <2>3. IsFiniteSet(1 .. d - 1) /\ Cardinality(1 .. d - 1) = d - 1
    BY <2>1, FS_Interval
  <2>4. k <= d - 1
    BY <2>2, <2>3, FS_Subset
  <2>5. QED
    BY <1>2, <1>3, <2>1, <2>4
<1>4. k + 1 \in Chapters
  BY <1>2, LaunchAssumption DEF Chapters
<1>5. QED
  BY <1>3, <1>4

LEMMA GetTokenInfoKeeps ==
  ASSUME Inv, NEW r \in Runs, GetTokenInfo(r) PROVE Inv'
<1>1. Typed /\ Local(r)
  BY DEF Inv
<1>2. pc[r] = "narrating" /\ turns' \in [Runs -> 0 .. MaxTurns]
  BY <1>1, TurnEffect, Zenon DEF GetTokenInfo, Calls
<1>3. /\ stage'[r] = 1 /\ stage' \in [Runs -> 0 .. 4]
      /\ \A q \in Runs \ {r} : stage'[q] = stage[q]
  BY <1>1, AdvanceEffect DEF GetTokenInfo
<1>4. UNCHANGED <<storeVars, worldVars, buyVars, shown, kind, crashed>> /\ pc' = pc
  BY Zenon DEF GetTokenInfo
<1> DEFINE n == Cardinality(AllChapters) + 1
<1>5. n \in Chapters /\ \A d \in Chapters : d < n => lore[d] # 0
  BY <1>1, CountedIsNext, Zenon DEF GetTokenInfo, Inv
<1> HIDE DEF n
<1>6. draft' = [draft EXCEPT ![r] = [chapter |-> n, cid |-> 0]]
  BY Zenon DEF GetTokenInfo, n
<1>7. [chapter |-> n, cid |-> 0] \in Drafts
  BY <1>5, Zenon DEF Drafts
<1>8. /\ draft' \in [Runs -> Drafts] /\ draft'[r].chapter = n /\ draft'[r].cid = 0
      /\ \A q \in Runs \ {r} : draft'[q] = draft[q]
  BY <1>1, <1>6, <1>7, Zenon DEF Typed, RunsTyped
<1>9. Alone(r) /\ RunsTyped'
  BY <1>1, <1>2, <1>3, <1>4, <1>8, Zenon DEF Alone, RunsTyped, Typed, buyVars
<1>10. Local(r)'
  <2>1. lore' = lore
    BY <1>4, Zenon DEF storeVars
  <2>2. Next1(r)'
    BY <1>5, <1>8, <2>1, Zenon DEF Next1
  <2>3. pc'[r] = "narrating" /\ kind'[r] \in Narrators
    BY <1>1, <1>2, <1>4 DEF Local, AtNarrator
  <2>4. QED
    BY <1>3, <1>8, <2>2, <2>3 DEF Local, AtCreator, AtNarrator, AtTrader
<1>11. pc[r] # "done" /\ pc'[r] # "creating"
  BY <1>2, <1>4
<1>12. QED
  BY <1>4, <1>9, <1>10, <1>11, LoopStep, Zenon

LEMMA PickExtendLoreKeeps ==
  ASSUME Inv, NEW r \in Runs, PickExtendLore(r) PROVE Inv'
<1>1. Typed /\ Local(r) /\ End(r, "upsert") /\ pc[r] = "narrating" /\ draft[r].cid # 0
  BY Zenon DEF Inv, PickExtendLore
<1>2. "upsert" \in Ended \union Loops \union Steps
  BY DEF Steps
<1>3. /\ UNCHANGED <<storeVars, worldVars, buyVars, shown, kind, crashed>> /\ draft' = draft
  BY Zenon DEF PickExtendLore
<1>4. Alone(r) /\ RunsTyped' /\ pc'[r] = "upsert"
  BY <1>1, <1>2, <1>3, EndEffect, Zenon DEF Alone, RunsTyped, Typed, buyVars
<1>5. Local(r)'
  <2>1. texts' = texts /\ lore' = lore /\ kind' = kind
    BY <1>3, Zenon DEF storeVars, worldVars
  <2>2. Written(r) /\ Next1(r) /\ kind[r] \in Narrators
    BY <1>1 DEF Local, AtNarrator
  <2>3. Written(r)' /\ Next1(r)' /\ kind'[r] \in Narrators
    BY <1>3, <2>1, <2>2, Zenon DEF Written, HasText, Next1
  <2>4. QED
    BY <1>4, <2>3 DEF Local, AtCreator, AtNarrator, AtTrader
<1>6. pc[r] # "done" /\ pc'[r] # "creating"
  BY <1>1, <1>4
<1>7. QED
  BY <1>3, <1>4, <1>5, <1>6, LoopStep, Zenon

LEMMA ReadTokenInfoKeeps ==
  ASSUME Inv, NEW r \in Runs, ReadTokenInfo(r) PROVE Inv'
<1>1. Typed /\ Local(r)
  BY DEF Inv
<1>2. pc[r] = "trading" /\ turns' \in [Runs -> 0 .. MaxTurns]
  BY <1>1, TurnEffect, Zenon DEF ReadTokenInfo, Calls
<1>3. UNCHANGED <<storeVars, worldVars, buyVars, shown, kind, crashed>>
      /\ pc' = pc /\ stage' = stage /\ draft' = draft
  BY Zenon DEF ReadTokenInfo
<1>4. Alone(r) /\ RunsTyped'
  BY <1>1, <1>2, <1>3, Zenon DEF Alone, RunsTyped, Typed, buyVars
<1>5. Local(r)'
  <2>1. QuietStores /\ deployed' = deployed /\ paid' = paid /\ served' = served
    BY <1>3, Zenon DEF QuietStores, storeVars, worldVars, buyVars
  <2>2. Grows
    BY <2>1, QuietGrows
  <2>3. QED
    BY <1>1, <1>3, <2>1, <2>2, LocalKept, Zenon
<1>6. pc[r] # "done"
  BY <1>2
<1>7. QED
  BY <1>3, <1>4, <1>5, <1>6, LoopStep, Zenon

LEMMA CheckTokenStatusKeeps ==
  ASSUME Inv, NEW r \in Runs, CheckTokenStatus(r) PROVE Inv'
<1>1. Typed /\ Local(r)
  BY DEF Inv
<1>2. pc[r] = "trading" /\ turns' \in [Runs -> 0 .. MaxTurns]
  BY <1>1, TurnEffect, Zenon DEF CheckTokenStatus, Calls
<1>3. /\ stage'[r] = 1 /\ stage' \in [Runs -> 0 .. 4]
      /\ \A q \in Runs \ {r} : stage'[q] = stage[q]
  BY <1>1, AdvanceEffect DEF CheckTokenStatus
<1>4. UNCHANGED <<storeVars, worldVars, buyVars, shown, kind, crashed>>
      /\ pc' = pc /\ draft' = draft
  BY Zenon DEF CheckTokenStatus
<1>5. Alone(r) /\ RunsTyped'
  BY <1>1, <1>2, <1>3, <1>4, Zenon DEF Alone, RunsTyped, Typed, buyVars
<1>6. Local(r)'
  <2>1. Readable(r) /\ Held(r) /\ kind[r] \in {"a2a", "dry"}
    BY <1>1, <1>2 DEF Local, AtTrader
  <2>2. Readable(r)' /\ Held(r)' /\ kind'[r] \in {"a2a", "dry"}
    BY <1>4, <2>1, Zenon DEF Readable, Held, storeVars
  <2>3. pc'[r] = "trading" /\ stage'[r] = 1
    BY <1>2, <1>3, <1>4
  <2>4. QED
    BY <2>2, <2>3 DEF Local, AtCreator, AtNarrator, AtTrader
<1>7. pc[r] # "done"
  BY <1>2
<1>8. QED
  BY <1>4, <1>5, <1>6, <1>7, LoopStep, Zenon

\* What is served is the latest chapter, since the run's own can be read.
LEMMA ServedIsText ==
  ASSUME NEW r \in Runs, Readable(r), NEW cid, ServesLore(r, cid)
  PROVE  cid # 0
<1>1. AllChapters # {}
  BY DEF Readable, AllChapters
<1>2. QED
  BY <1>1, Zenon DEF ServesLore, IsLatest, AllChapters

LEMMA XFetchLoreKeeps ==
  ASSUME Inv, NEW r \in Runs, XFetchLore(r) PROVE Inv'
<1>1. Typed /\ Local(r)
  BY DEF Inv
<1>2. pc[r] = "trading" /\ turns' \in [Runs -> 0 .. MaxTurns]
  BY <1>1, TurnEffect, Zenon DEF XFetchLore, Calls
<1>3. /\ QuietStores /\ image' = image /\ deployed' = deployed /\ crashed' = crashed
      /\ draft' = draft /\ shown' = shown /\ kind' = kind /\ pc' = pc
      /\ paid' = paid \union {r}
  BY Zenon DEF XFetchLore, QuietStores, storeVars, worldVars
<1>4. Readable(r) /\ Held(r) /\ kind[r] \in {"a2a", "dry"} /\ stage[r] <= 2
      /\ (stage[r] = 2 => served[r] # 0)
  BY <1>1, <1>2 DEF Local, AtTrader
<1>5. /\ stage' \in [Runs -> 0 .. 4] /\ served' \in [Runs -> Cids \union {0}]
      /\ \A q \in Runs \ {r} : stage'[q] = stage[q] /\ served'[q] = served[q]
      /\ stage'[r] <= 2 /\ (stage'[r] = 2 => served'[r] # 0)
  <2>1. CASE UNCHANGED <<stage, served>>
    BY <1>1, <1>4, <2>1, Zenon DEF Typed, RunsTyped, BuysTyped
  <2>2. CASE /\ stage' = [stage EXCEPT ![r] = 2]
             /\ IF stage[r] = 2 THEN UNCHANGED served
                ELSE \E cid \in Cids \union {0} :
                       ServesLore(r, cid) /\ served' = [served EXCEPT ![r] = cid]
    <3>1. /\ stage' \in [Runs -> 0 .. 4] /\ stage'[r] = 2
          /\ \A q \in Runs \ {r} : stage'[q] = stage[q]
      BY <1>1, <2>2 DEF Typed, RunsTyped
    <3>2. /\ served' \in [Runs -> Cids \union {0}] /\ served'[r] # 0
          /\ \A q \in Runs \ {r} : served'[q] = served[q]
      <4>1. CASE stage[r] = 2
        BY <1>1, <1>4, <2>2, <4>1, Zenon DEF Typed, BuysTyped
      <4>2. CASE stage[r] # 2
        <5>1. PICK cid \in Cids \union {0} :
                ServesLore(r, cid) /\ served' = [served EXCEPT ![r] = cid]
          BY <2>2, <4>2
        <5>2. cid # 0
          BY <1>4, <5>1, ServedIsText
        <5>3. QED
          BY <1>1, <5>1, <5>2, Zenon DEF Typed, BuysTyped
      <4>3. QED
        BY <4>1, <4>2
    <3>3. QED
      BY <3>1, <3>2
  <2>3. QED
    BY <2>1, <2>2, Zenon DEF XFetchLore
<1>6. Alone(r) /\ RunsTyped' /\ BuysTyped' /\ WorldTyped'
  BY <1>1, <1>2, <1>3, <1>5, Zenon DEF Alone, RunsTyped, BuysTyped, WorldTyped, Typed
<1>7. Local(r)'
  <2>1. Readable(r)' /\ Held(r)'
    BY <1>3, <1>4, Zenon DEF Readable, Held, QuietStores
  <2>2. pc'[r] = "trading" /\ kind'[r] \in {"a2a", "dry"} /\ r \in paid'
    BY <1>2, <1>3, <1>4
  <2>3. QED
    BY <1>5, <2>1, <2>2 DEF Local, AtCreator, AtNarrator, AtTrader
<1>8. Typed'
  BY <1>1, <1>3, <1>6, QuietTyped, Zenon
<1>9. paid \subseteq paid' /\ pc[r] # "done"
  BY <1>2, <1>3
<1>10. QED
  BY <1>2, <1>3, <1>6, <1>7, <1>8, <1>9, QuietStep, Zenon

LEMMA ReadBackKeeps ==
  ASSUME Inv, NEW r \in Runs, ReadBack(r) PROVE Inv'
<1>1. Typed /\ Local(r) /\ pc[r] = "latest"
  BY Zenon DEF Inv, ReadBack
<1>2. UNCHANGED <<storeVars, worldVars, buyVars, shown, kind, crashed>>
  BY Zenon DEF ReadBack
<1>3. pc[r] # "done"
  BY <1>1
<1>4. CASE UNCHANGED draft /\ End(r, "error")
  <2>1. "error" \in Ended \union Loops \union Steps
    BY DEF Ended
  <2>2. Alone(r) /\ RunsTyped' /\ pc'[r] = "error"
    BY <1>1, <1>2, <1>4, <2>1, EndEffect, Zenon DEF Alone, RunsTyped, Typed, buyVars
  <2>3. Local(r)'
    BY <2>2 DEF Local, AtCreator, AtNarrator, AtTrader
  <2>4. pc'[r] # "creating"
    BY <2>2
  <2>5. QED
    BY <1>2, <1>3, <2>2, <2>3, <2>4, LoopStep, Zenon
<1>5. ASSUME End(r, "append"), NEW c \in Chapters, IsLatest(c),
             draft' = [draft EXCEPT ![r] = [chapter |-> c, cid |-> lore[c]]]
      PROVE  Inv'
  <2>1. "append" \in Ended \union Loops \union Steps
    BY DEF Steps
  <2>2. lore[c] # 0 /\ HasText(c, lore[c]) /\ lore[c] \in Cids \union {0}
    BY <1>1, <1>5, Zenon DEF Inv, Stores, IsLatest, AllChapters, Typed, StoresTyped
  <2>3. [chapter |-> c, cid |-> lore[c]] \in Drafts
    BY <2>2, Zenon DEF Drafts
  <2>4. /\ draft' \in [Runs -> Drafts] /\ draft'[r].chapter = c /\ draft'[r].cid = lore[c]
        /\ \A q \in Runs \ {r} : draft'[q] = draft[q]
    BY <1>1, <1>5, <2>3, Zenon DEF Typed, RunsTyped
  <2>5. Alone(r) /\ RunsTyped' /\ pc'[r] = "append"
    BY <1>1, <1>2, <1>5, <2>1, <2>4, EndEffect, Zenon DEF Alone, RunsTyped, Typed, buyVars
  <2>6. lore' = lore /\ texts' = texts /\ kind' = kind
    BY <1>2, Zenon DEF storeVars, worldVars
  <2>7. Written(r)' /\ Readable(r)' /\ kind'[r] \in Narrators
    <3>1. kind[r] \in Narrators
      BY <1>1 DEF Local, AtNarrator
    <3>2. QED
      BY <2>2, <2>4, <2>6, <3>1, Zenon DEF Written, HasText, Readable
  <2>8. Local(r)'
    BY <2>5, <2>7 DEF Local, AtCreator, AtNarrator, AtTrader
  <2>9. pc'[r] # "creating"
    BY <2>5
  <2>10. QED
    BY <1>2, <1>3, <2>5, <2>8, <2>9, LoopStep, Zenon
<1>6. QED
  BY <1>4, <1>5, Zenon DEF ReadBack

(***************************************************************************)
(* Steps that write to a store or show an artifact.                        *)
(***************************************************************************)
LEMMA ShowStep ==
  ASSUME Inv, NEW r \in Runs, Typed', Alone(r), Grows, Local(r)', Stores', Gapless',
         pc[r] # "done", NEW S, \A a \in S : Holds(a)' /\ a.what # "image",
         shown' \subseteq shown \union S, image' = image, kind' = kind,
         pc'[r] = "creating" => pc[r] = "creating"
  PROVE  Inv'
<1>1. \A q \in Runs : Local(q)'
  BY LocalOthers, Zenon
<1>2. ShownHolds'
  BY ShownKept, Zenon
<1>3. \A a \in shown' : a.what = "image" => a \in shown
  BY Zenon
<1>4. OneCreator' /\ ImageShown'
  BY <1>3, ImagesKept, Zenon
<1>5. QED
  BY <1>1, <1>2, <1>4, Zenon DEF Inv

LEMMA ArtifactFields ==
  ASSUME NEW what, NEW c, NEW cid, NEW memo
  PROVE  /\ Artifact(what, c, cid, memo).what = what
         /\ Artifact(what, c, cid, memo).chapter = c
         /\ Artifact(what, c, cid, memo).cid = cid
         /\ Artifact(what, c, cid, memo).memo = memo
         /\ /\ what \in {"token", "deploy-tx", "image", "image-failed", "lore", "anchor", "payment"}
            /\ c \in Chapters \union {0} /\ cid \in Cids \union {0} /\ memo \in Cids \union {0}
            => Artifact(what, c, cid, memo) \in Artifacts
BY Zenon DEF Artifact, Artifacts

LEMMA TokenHolds ==
  ASSUME deployed' \/ Forged', NEW a \in TokenArtifacts
  PROVE  a \in Artifacts /\ Holds(a)' /\ a.what # "image"
<1>1. a.what \in {"token", "deploy-tx"} /\ a \in Artifacts
  <2>1. CASE a = TokenArtifact
    BY <2>1, ArtifactFields DEF TokenArtifact
  <2>2. CASE a = DeployArtifact
    BY <2>2, ArtifactFields DEF DeployArtifact
  <2>3. QED
    BY <2>1, <2>2 DEF TokenArtifacts
<1>2. a.what # "image" /\ a.what # "lore" /\ a.what # "anchor" /\ a.what # "payment"
  BY <1>1
<1>3. Holds(a)'
  BY <1>2, Zenon DEF Holds
<1>4. QED
  BY <1>1, <1>2, <1>3

LEMMA AnchorHolds ==
  ASSUME NEW c \in Chapters, NEW cid \in Cids, NEW memo \in {0, cid}, <<c, cid>> \in commits',
         memo # 0 => <<c, cid>> \in chain'
  PROVE  /\ Artifact("anchor", c, cid, memo) \in Artifacts
         /\ Holds(Artifact("anchor", c, cid, memo))'
         /\ Artifact("anchor", c, cid, memo).what # "image"
<1> DEFINE a == Artifact("anchor", c, cid, memo)
<1>1. a.what = "anchor" /\ a.chapter = c /\ a.cid = cid /\ a.memo = memo
  BY ArtifactFields
<1>2. /\ a.what \notin {"token", "deploy-tx"} /\ a.what # "lore"
      /\ a.what # "payment" /\ a.what # "image"
  BY <1>1
<1> HIDE DEF a
<1>3. Holds(a)'
  BY <1>1, <1>2, Zenon DEF Holds
<1>4. Artifact("anchor", c, cid, memo) \in Artifacts
  BY ArtifactFields
<1>5. QED
  BY <1>2, <1>3, <1>4 DEF a

LEMMA LoreHolds ==
  ASSUME NEW c \in Chapters, NEW cid \in Cids, HasText(c, cid)'
  PROVE  /\ Artifact("lore", c, cid, 0) \in Artifacts
         /\ Holds(Artifact("lore", c, cid, 0))'
         /\ Artifact("lore", c, cid, 0).what # "image"
<1> DEFINE a == Artifact("lore", c, cid, 0)
<1>1. a.what = "lore" /\ a.chapter = c /\ a.cid = cid
  BY ArtifactFields
<1>2. /\ a.what \notin {"token", "deploy-tx"} /\ a.what # "anchor"
      /\ a.what # "payment" /\ a.what # "image"
  BY <1>1
<1> HIDE DEF a
<1>3. Holds(a)'
  BY <1>1, <1>2, Zenon DEF Holds
<1>4. Artifact("lore", c, cid, 0) \in Artifacts
  BY ArtifactFields
<1>5. QED
  BY <1>2, <1>3, <1>4 DEF a

\* A ledger entry for a text under the chapter it was written as.
LEMMA AppendEffect ==
  ASSUME Inv, NEW c, NEW cid, HasText(c, cid), AppendAnchor(c, cid),
         UNCHANGED <<lore, upserts, texts, chain>>
  PROVE  /\ StoresTyped' /\ Stores' /\ Gapless'
         /\ commits \subseteq commits' /\ <<c, cid>> \in commits'
<1>1. c \in Chapters /\ cid \in Cids /\ Typed
  BY TextTyped DEF Inv
<1>2. [cid |-> cid, memo |-> 0] \in Rows
  BY <1>1, Zenon DEF Rows
<1>3. /\ ledger' \in [Chapters -> Rows] /\ ledger'[c].cid = cid /\ ledger'[c].memo = 0
      /\ \A d \in Chapters \ {c} : ledger'[d] = ledger[d]
  BY <1>1, <1>2, Zenon DEF AppendAnchor, Typed, StoresTyped
<1>4. commits' = commits \union {<<c, cid>>}
  BY Zenon DEF AppendAnchor
<1>5. StoresTyped'
  <2>1. commits' \subseteq Chapters \X Cids
    BY <1>1, <1>4 DEF Typed, StoresTyped
  <2>2. QED
    BY <1>1, <1>3, <2>1, Zenon DEF Typed, StoresTyped
<1>6. commits \subseteq commits' /\ <<c, cid>> \in commits'
  BY <1>4
<1>7. Stores'
  <2>1. \A d, t : HasText(d, t)' <=> HasText(d, t)
    BY Zenon DEF HasText
  <2>2. \A d \in Chapters : ledger'[d].cid # 0 => <<d, ledger'[d].cid>> \in commits'
    BY <1>3, <1>6, Zenon DEF Inv, Stores
  <2>3. \A d \in Chapters : ledger'[d].memo # 0 => <<d, ledger'[d].memo>> \in chain'
    BY <1>3, Zenon DEF Inv, Stores
  <2>4. \A m \in commits' : HasText(m[1], m[2])
    <3>1. \A m \in commits : HasText(m[1], m[2])
      BY DEF Inv, Stores
    <3>2. <<c, cid>>[1] = c /\ <<c, cid>>[2] = cid
      OBVIOUS
    <3>3. QED
      BY <1>4, <3>1, <3>2, Zenon
  <2>5. chain' \subseteq commits'
    BY <1>6 DEF Inv, Stores
  <2>6. (\A d \in Chapters : lore'[d] # 0 => HasText(d, lore'[d]))
        /\ \A t \in upserts' : HasText(1, t)
    BY Zenon DEF Inv, Stores
  <2>7. QED
    BY <2>1, <2>2, <2>3, <2>4, <2>5, <2>6, Zenon DEF Stores
<1>8. Gapless'
  BY Zenon DEF Inv, Gapless
<1>9. QED
  BY <1>5, <1>6, <1>7, <1>8

\* A stamp for a memo that is on the chain.
LEMMA MarkEffect ==
  ASSUME Inv, NEW c, NEW cid, <<c, cid>> \in chain, MarkOnChain(c, cid),
         UNCHANGED <<lore, upserts, commits, texts, chain>>
  PROVE  StoresTyped' /\ Stores' /\ Gapless'
<1>1. Typed /\ <<c, cid>> \in commits
  BY DEF Inv, Stores
<1>2. c \in Chapters /\ cid \in Cids
  BY <1>1 DEF Typed, StoresTyped
<1>3. /\ ledger' \in [Chapters -> Rows]
      /\ \A d \in Chapters : ledger'[d].cid = ledger[d].cid
      /\ \A d \in Chapters : ledger'[d].memo # ledger[d].memo => d = c /\ ledger'[d].memo = cid
  <2>1. CASE ledger[c].cid = 0
    BY <1>1, <2>1, Zenon DEF MarkOnChain, Typed, StoresTyped
  <2>2. CASE ledger[c].cid # 0
    <3>1. ledger' = [ledger EXCEPT ![c].memo = cid]
      BY <2>2, Zenon DEF MarkOnChain
    <3>2. [ledger[c] EXCEPT !.memo = cid] \in Rows
      BY <1>1, <1>2, Zenon DEF Rows, Typed, StoresTyped
    <3>3. /\ ledger' \in [Chapters -> Rows] /\ ledger'[c].memo = cid
          /\ ledger'[c].cid = ledger[c].cid
          /\ \A d \in Chapters \ {c} : ledger'[d] = ledger[d]
      BY <1>1, <1>2, <3>1, <3>2, Zenon DEF Rows, Typed, StoresTyped
    <3>4. QED
      BY <3>3, Zenon
  <2>3. QED
    BY <2>1, <2>2
<1>4. StoresTyped'
  BY <1>1, <1>3, Zenon DEF Typed, StoresTyped
<1>5. Stores'
  <2>1. \A d, t : HasText(d, t)' <=> HasText(d, t)
    BY Zenon DEF HasText
  <2>2. \A d \in Chapters : ledger'[d].cid # 0 => <<d, ledger'[d].cid>> \in commits'
    BY <1>3, Zenon DEF Inv, Stores
  <2>3. \A d \in Chapters : ledger'[d].memo # 0 => <<d, ledger'[d].memo>> \in chain'
    BY <1>3, Zenon DEF Inv, Stores
  <2>4. QED
    BY <2>1, <2>2, <2>3, Zenon DEF Inv, Stores
<1>6. Gapless'
  BY Zenon DEF Inv, Gapless
<1>7. QED
  BY <1>4, <1>5, <1>6

(***************************************************************************)
(* Anchoring.                                                              *)
(***************************************************************************)
\* The rest of the caller: the narrator's loop, the market-maker's, or the end.
LEMMA ContinueEffect ==
  ASSUME Inv, NEW r \in Runs, NEW first \in BOOLEAN, Continue(r, first), kind' = kind,
         first => kind[r] \in Creators,
         ~first => kind[r] \in Narrators
                   /\ (draft' = draft => Readable(r)' /\ Held(r)')
  PROVE  /\ pc' \in [Runs -> Ended \union Loops \union Steps]
         /\ turns' \in [Runs -> 0 .. MaxTurns]
         /\ stage' \in [Runs -> 0 .. 4]
         /\ draft' \in [Runs -> Drafts]
         /\ \A q \in Runs \ {r} :
              pc'[q] = pc[q] /\ stage'[q] = stage[q] /\ draft'[q] = draft[q]
         /\ pc'[r] # "creating"
         /\ Local(r)'
<1>1. Typed
  BY DEF Inv
<1>2. CASE first /\ kind[r] = "a2a" /\ NarratorPhase(r)
  <2>1. End(r, "narrating") /\ draft' = [draft EXCEPT ![r] = Nothing]
    BY <1>2, EnterIsEnd, Zenon DEF NarratorPhase
  <2>2. "narrating" \in Ended \union Loops \union Steps
    BY DEF Loops
  <2>3. Nothing \in Drafts /\ Nothing.cid = 0
    BY Zenon DEF Nothing, Drafts
  <2>4. /\ draft' \in [Runs -> Drafts] /\ draft'[r].cid = 0
        /\ \A q \in Runs \ {r} : draft'[q] = draft[q]
    BY <1>1, <2>1, <2>3, Zenon DEF Typed, RunsTyped
  <2>5. pc'[r] = "narrating" /\ stage'[r] = 0 /\ kind'[r] \in Narrators
    BY <1>1, <1>2, <2>1, EndEffect DEF Narrators
  <2>6. Local(r)'
    BY <2>4, <2>5 DEF Local, AtCreator, AtNarrator, AtTrader
  <2>7. QED
    BY <1>1, <2>1, <2>2, <2>4, <2>5, <2>6, EndEffect
<1>3. CASE first /\ kind[r] = "creator" /\ End(r, "done") /\ UNCHANGED draft
  <2>1. "done" \in Ended \union Loops \union Steps
    BY DEF Ended
  <2>2. pc'[r] = "done" /\ kind'[r] = "creator"
    BY <1>1, <1>3, EndEffect
  <2>3. Local(r)'
    BY <2>2 DEF Local, AtCreator, AtNarrator, AtTrader
  <2>4. draft' \in [Runs -> Drafts] /\ draft' = draft
    BY <1>1, <1>3 DEF Typed, RunsTyped
  <2>5. QED
    BY <1>1, <1>3, <2>1, <2>2, <2>3, <2>4, EndEffect
<1>4. CASE ~first /\ UNCHANGED draft /\ kind[r] \in {"a2a", "dry"} /\ MarketMakerPhase(r)
  <2>1. End(r, "trading")
    BY <1>4, EnterIsEnd, Zenon DEF MarketMakerPhase
  <2>2. "trading" \in Ended \union Loops \union Steps
    BY DEF Loops
  <2>3. pc'[r] = "trading" /\ stage'[r] = 0 /\ kind'[r] \in {"a2a", "dry"}
    BY <1>1, <1>4, <2>1, EndEffect
  <2>4. Readable(r)' /\ Held(r)'
    BY <1>4
  <2>5. Local(r)'
    BY <2>3, <2>4 DEF Local, AtCreator, AtNarrator, AtTrader
  <2>6. draft' \in [Runs -> Drafts] /\ draft' = draft
    BY <1>1, <1>4 DEF Typed, RunsTyped
  <2>7. QED
    BY <1>1, <2>1, <2>2, <2>3, <2>5, <2>6, EndEffect
<1>5. CASE ~first /\ UNCHANGED draft /\ kind[r] = "narrator" /\ End(r, "done")
  <2>1. "done" \in Ended \union Loops \union Steps
    BY DEF Ended
  <2>2. pc'[r] = "done" /\ kind'[r] = "narrator" /\ Readable(r)' /\ Held(r)'
    BY <1>1, <1>5, EndEffect
  <2>3. Local(r)'
    BY <2>2 DEF Local, AtCreator, AtNarrator, AtTrader
  <2>4. draft' \in [Runs -> Drafts] /\ draft' = draft
    BY <1>1, <1>5 DEF Typed, RunsTyped
  <2>5. QED
    BY <1>1, <1>5, <2>1, <2>2, <2>3, <2>4, EndEffect
<1>6. QED
  BY <1>2, <1>3, <1>4, <1>5, Zenon DEF Continue, AfterCreator, AfterNarrator

\* A run that stops at an await of its anchoring.
LEMMA AwaitEffect ==
  ASSUME Inv, NEW r \in Runs, NEW how \in Steps, End(r, how), draft' = draft
  PROVE  /\ pc' \in [Runs -> Ended \union Loops \union Steps]
         /\ turns' \in [Runs -> 0 .. MaxTurns]
         /\ stage' \in [Runs -> 0 .. 4]
         /\ draft' \in [Runs -> Drafts]
         /\ \A q \in Runs \ {r} :
              pc'[q] = pc[q] /\ stage'[q] = stage[q] /\ draft'[q] = draft[q]
         /\ pc'[r] = how /\ pc'[r] # "creating"
<1>1. Typed /\ how \in Ended \union Loops \union Steps /\ how # "creating"
  BY DEF Inv, Steps
<1>2. draft' \in [Runs -> Drafts]
  BY <1>1 DEF Typed, RunsTyped
<1>3. QED
  BY <1>1, <1>2, EndEffect

\* A step of the anchoring shows the token, the anchor and the chapter, or less.
LEMMA AnchorStep ==
  ASSUME Inv, NEW r \in Runs, Local(r)', pc[r] # "done", pc'[r] # "creating",
         pc' \in [Runs -> Ended \union Loops \union Steps],
         turns' \in [Runs -> 0 .. MaxTurns], stage' \in [Runs -> 0 .. 4],
         draft' \in [Runs -> Drafts],
         \A q \in Runs \ {r} :
           pc'[q] = pc[q] /\ stage'[q] = stage[q] /\ draft'[q] = draft[q],
         StoresTyped', Stores', Gapless', commits \subseteq commits',
         chain \subseteq chain', ChainTyped',
         UNCHANGED <<lore, deployed, image, texts, buyVars, kind, crashed>>,
         NEW S, \A a \in S : a \in Artifacts /\ Holds(a)' /\ a.what # "image",
         shown' \subseteq shown \union S
  PROVE  Inv'
<1>1. served' = served /\ paid' = paid /\ image' = image /\ kind' = kind
      /\ lore' = lore /\ texts' = texts /\ deployed' = deployed
  BY Zenon DEF buyVars
<1>2. Alone(r)
  BY <1>1, Zenon DEF Alone
<1>3. Grows
  <2>1. \A d, t : HasText(d, t)' <=> HasText(d, t)
    BY <1>1, Zenon DEF HasText
  <2>2. paid \subseteq paid' /\ (deployed => deployed')
    BY <1>1
  <2>3. QED
    BY <1>1, <2>1, <2>2, Zenon DEF Grows
<1>4. Typed'
  <2>1. ShownTyped'
    BY DEF Inv, Typed, ShownTyped
  <2>2. RunsTyped'
    BY Zenon DEF RunsTyped
  <2>3. TextsTyped' /\ WorldTyped' /\ BuysTyped' /\ KindTyped'
    BY <1>1, Zenon DEF Inv, Typed, TextsTyped, WorldTyped, BuysTyped, KindTyped
  <2>4. QED
    BY <2>1, <2>2, <2>3, Zenon DEF Typed
<1>5. QED
  BY <1>1, <1>2, <1>3, <1>4, ShowStep, Zenon

LEMMA AppendFirstKeeps ==
  ASSUME Inv, NEW r \in Runs, AppendFirst(r) PROVE Inv'
<1>1. Typed /\ Local(r) /\ pc[r] = "append1"
  BY Zenon DEF Inv, AppendFirst
<1>2. kind[r] \in Creators /\ deployed /\ draft[r].chapter = 1 /\ Written(r)
  BY <1>1 DEF Local, AtCreator
<1>3. UNCHANGED <<lore, upserts, worldVars, buyVars, kind, crashed>>
  BY Zenon DEF AppendFirst
<1>4. /\ lore' = lore /\ upserts' = upserts /\ texts' = texts /\ chain' = chain
      /\ deployed' = deployed /\ image' = image /\ kind' = kind /\ ChainTyped'
  BY <1>1, <1>3, Zenon DEF worldVars, Typed, ChainTyped
<1>5. pc[r] # "done" /\ deployed' /\ TRUE \in BOOLEAN
  BY <1>1, <1>2, <1>4
<1>6. PICK t : t = draft[r].cid
  OBVIOUS
<1>7. HasText(1, t) /\ 1 \in Chapters /\ t \in Cids
  BY <1>1, <1>2, <1>6, TextTyped, Zenon DEF Written
<1>8. CASE /\ AppendAnchor(1, draft[r].cid)
           /\ MaybeAnchor(r, TRUE, "send1", {AnchorArtifact(r, 0)})
  <2>1. /\ StoresTyped' /\ Stores' /\ Gapless'
        /\ commits \subseteq commits' /\ <<1, t>> \in commits'
    BY <1>4, <1>6, <1>7, <1>8, AppendEffect, Zenon
  <2> DEFINE S == {AnchorArtifact(r, 0)} \union TokenArtifacts
  <2>2. \A a \in S : a \in Artifacts /\ Holds(a)' /\ a.what # "image"
    <3>1. AnchorArtifact(r, 0) = Artifact("anchor", 1, t, 0)
      BY <1>2, <1>6, Zenon DEF AnchorArtifact
    <3>2. /\ Artifact("anchor", 1, t, 0) \in Artifacts
          /\ Holds(Artifact("anchor", 1, t, 0))' /\ Artifact("anchor", 1, t, 0).what # "image"
      BY <1>7, <2>1, AnchorHolds
    <3>3. \A a \in TokenArtifacts : a \in Artifacts /\ Holds(a)' /\ a.what # "image"
      BY <1>5, TokenHolds, Zenon
    <3>4. ASSUME NEW a \in S PROVE a \in Artifacts /\ Holds(a)' /\ a.what # "image"
      <4>1. CASE a = Artifact("anchor", 1, t, 0)
        BY <3>2, <4>1, Zenon DEF Holds
      <4>2. CASE a \in TokenArtifacts
        BY <3>3, <4>2, Zenon
      <4>3. QED
        BY <3>1, <3>4, <4>1, <4>2
    <3>5. QED
      BY <3>4
  <2>3. shown' \subseteq shown \union S
    BY <1>8 DEF MaybeAnchor, OnLeaving
  <2> HIDE DEF S
  <2>4. CASE OnChain
    <3>1. End(r, "send1") /\ draft' = draft
      BY <1>8, <2>4, Zenon DEF MaybeAnchor
    <3>2. "send1" \in Steps /\ pc'[r] = "send1"
      BY <1>1, <3>1, EndEffect DEF Steps
    <3>3. Written(r)' /\ Held(r)' /\ kind'[r] \in Creators /\ draft'[r].chapter = 1
      BY <1>2, <1>4, <1>6, <2>1, <3>1, Zenon DEF Written, HasText, Held
    <3>4. Local(r)'
      BY <1>5, <3>2, <3>3 DEF Local, AtCreator, AtNarrator, AtTrader
    <3>5. QED
      BY <1>3, <1>4, <1>5, <2>1, <2>2, <2>3, <3>1, <3>2, <3>4, AwaitEffect, AnchorStep, Zenon
         DEF worldVars
  <2>5. CASE ~OnChain
    <3>1. Continue(r, TRUE)
      BY <1>8, <2>5, Zenon DEF MaybeAnchor
    <3>2. QED
      BY <1>2, <1>3, <1>4, <1>5, <2>1, <2>2, <2>3, <3>1, ContinueEffect, AnchorStep, Zenon
         DEF worldVars
  <2>6. QED
    BY <2>4, <2>5
<1>9. CASE /\ Continue(r, TRUE) /\ shown' = shown \union OnLeaving(r, TRUE)
           /\ UNCHANGED <<ledger, commits>>
  <2>1. QuietStores /\ StoresTyped'
    BY <1>1, <1>4, <1>9, Zenon DEF QuietStores, Typed, StoresTyped
  <2>2. Stores' /\ Gapless' /\ commits \subseteq commits' /\ chain \subseteq chain'
    BY <1>4, <1>9, <2>1, StoresKept, Zenon
  <2> DEFINE S == TokenArtifacts
  <2>3. \A a \in S : a \in Artifacts /\ Holds(a)' /\ a.what # "image"
    BY <1>5, TokenHolds, Zenon
  <2>4. shown' \subseteq shown \union S
    BY <1>9 DEF OnLeaving
  <2> HIDE DEF S
  <2>5. QED
    BY <1>2, <1>3, <1>4, <1>5, <1>9, <2>1, <2>2, <2>3, <2>4, ContinueEffect, AnchorStep, Zenon
       DEF worldVars
<1>10. QED
  BY <1>8, <1>9, Zenon DEF AppendFirst

LEMMA AppendNextKeeps ==
  ASSUME Inv, NEW r \in Runs, AppendNext(r) PROVE Inv'
<1>1. Typed /\ Local(r) /\ pc[r] = "append"
  BY Zenon DEF Inv, AppendNext
<1>2. kind[r] \in Narrators /\ Written(r) /\ Readable(r)
  BY <1>1 DEF Local, AtNarrator
<1>3. UNCHANGED <<lore, upserts, worldVars, buyVars, kind, crashed>>
  BY Zenon DEF AppendNext
<1>4. /\ lore' = lore /\ upserts' = upserts /\ texts' = texts /\ chain' = chain
      /\ deployed' = deployed /\ image' = image /\ kind' = kind /\ ChainTyped'
      /\ chain \subseteq chain'
  BY <1>1, <1>3, Zenon DEF worldVars, Typed, ChainTyped
<1>5. pc[r] # "done" /\ FALSE \in BOOLEAN
  BY <1>1
<1>6. PICK c, t : c = draft[r].chapter /\ t = draft[r].cid
  OBVIOUS
<1>7. HasText(c, t) /\ c \in Chapters /\ t \in Cids
  BY <1>1, <1>2, <1>6, TextTyped, Zenon DEF Written
<1>8. CASE /\ AppendAnchor(draft[r].chapter, draft[r].cid)
           /\ MaybeAnchor(r, FALSE, "send",
                {AnchorArtifact(r, 0), Artifact("lore", draft[r].chapter, draft[r].cid, 0)})
  <2>1. /\ StoresTyped' /\ Stores' /\ Gapless'
        /\ commits \subseteq commits' /\ <<c, t>> \in commits'
    BY <1>4, <1>6, <1>7, <1>8, AppendEffect, Zenon
  <2> DEFINE S == {AnchorArtifact(r, 0), Artifact("lore", draft[r].chapter, draft[r].cid, 0)}
  <2>2. \A a \in S : a \in Artifacts /\ Holds(a)' /\ a.what # "image"
    <3>1. AnchorArtifact(r, 0) = Artifact("anchor", c, t, 0)
      BY <1>6, Zenon DEF AnchorArtifact
    <3>2. /\ Artifact("anchor", c, t, 0) \in Artifacts
          /\ Holds(Artifact("anchor", c, t, 0))' /\ Artifact("anchor", c, t, 0).what # "image"
      BY <1>7, <2>1, AnchorHolds
    <3>3. HasText(c, t)'
      BY <1>4, <1>7, Zenon DEF HasText
    <3>4. /\ Artifact("lore", c, t, 0) \in Artifacts
          /\ Holds(Artifact("lore", c, t, 0))' /\ Artifact("lore", c, t, 0).what # "image"
      BY <1>7, <3>3, LoreHolds
    <3>5. ASSUME NEW a \in S PROVE a \in Artifacts /\ Holds(a)' /\ a.what # "image"
      <4>1. CASE a = Artifact("anchor", c, t, 0)
        BY <3>2, <4>1, Zenon DEF Holds
      <4>2. CASE a = Artifact("lore", c, t, 0)
        BY <3>4, <4>2, Zenon DEF Holds
      <4>3. QED
        BY <1>6, <3>1, <3>5, <4>1, <4>2
    <3>6. QED
      BY <3>5
  <2>3. shown' \subseteq shown \union S
    BY <1>8 DEF MaybeAnchor, OnLeaving
  <2> HIDE DEF S
  <2>4. draft' = draft => Readable(r)' /\ Held(r)' /\ Written(r)'
    BY <1>2, <1>4, <1>6, <2>1, Zenon DEF Readable, Held, Written, HasText
  <2>5. CASE OnChain
    <3>1. End(r, "send") /\ draft' = draft
      BY <1>8, <2>5, Zenon DEF MaybeAnchor
    <3>2. "send" \in Steps /\ pc'[r] = "send" /\ kind'[r] \in Narrators
      BY <1>1, <1>2, <1>4, <3>1, EndEffect DEF Steps
    <3>3. Local(r)'
      BY <2>4, <3>1, <3>2 DEF Local, AtCreator, AtNarrator, AtTrader
    <3>4. QED
      BY <1>3, <1>4, <1>5, <2>1, <2>2, <2>3, <3>1, <3>2, <3>3, AwaitEffect, AnchorStep, Zenon
         DEF worldVars
  <2>6. CASE ~OnChain
    <3>1. Continue(r, FALSE)
      BY <1>8, <2>6, Zenon DEF MaybeAnchor
    <3>2. QED
      BY <1>2, <1>3, <1>4, <1>5, <2>1, <2>2, <2>3, <2>4, <3>1, ContinueEffect, AnchorStep, Zenon
         DEF worldVars
  <2>7. QED
    BY <2>5, <2>6
<1>9. CASE End(r, "error") /\ UNCHANGED <<ledger, commits, draft, shown>>
  <2>1. "error" \in Ended \union Loops \union Steps
    BY DEF Ended
  <2>2. UNCHANGED <<storeVars, worldVars, buyVars, shown, kind, crashed>> /\ draft' = draft
    BY <1>3, <1>9, Zenon DEF storeVars
  <2>3. Alone(r) /\ RunsTyped' /\ pc'[r] = "error"
    BY <1>1, <1>9, <2>1, <2>2, EndEffect, Zenon DEF Alone, RunsTyped, Typed, buyVars
  <2>4. Local(r)'
    BY <2>3 DEF Local, AtCreator, AtNarrator, AtTrader
  <2>5. pc'[r] # "creating"
    BY <2>3
  <2>6. QED
    BY <1>5, <2>2, <2>3, <2>4, <2>5, LoopStep, Zenon
<1>10. QED
  BY <1>8, <1>9, Zenon DEF AppendNext

LEMMA ChainEffect ==
  ASSUME Inv, NEW c, NEW t, <<c, t>> \in commits,
         chain' \in {chain, chain \union {<<c, t>>}},
         UNCHANGED <<lore, upserts, ledger, commits, texts>>
  PROVE  ChainTyped' /\ StoresTyped' /\ Stores' /\ Gapless' /\ chain \subseteq chain'
<1>1. Typed /\ commits \subseteq Chapters \X Cids /\ chain \subseteq Chapters \X Cids
  BY DEF Inv, Typed, StoresTyped, ChainTyped
<1>2. ChainTyped' /\ chain \subseteq chain' /\ chain' \subseteq commits'
  BY <1>1 DEF ChainTyped, Inv, Stores
<1>3. StoresTyped' /\ Gapless'
  BY <1>1, Zenon DEF Inv, Gapless, Typed, StoresTyped
<1>4. \A d, u : HasText(d, u)' <=> HasText(d, u)
  BY Zenon DEF HasText
<1>5. Stores'
  BY <1>2, <1>4, Zenon DEF Inv, Stores
<1>6. QED
  BY <1>2, <1>3, <1>5

\* Only the token may be shown by what follows a memo that was not heard of.
LEMMA LeavingHolds ==
  ASSUME NEW r, NEW first \in BOOLEAN, first => deployed'
  PROVE  \A a \in OnLeaving(r, first) : a \in Artifacts /\ Holds(a)' /\ a.what # "image"
<1>1. ASSUME NEW a \in OnLeaving(r, first)
      PROVE  a \in Artifacts /\ Holds(a)' /\ a.what # "image"
  <2>1. first /\ a \in TokenArtifacts
    BY <1>1 DEF OnLeaving
  <2>2. QED
    BY <2>1, TokenHolds, Zenon
<1>2. QED
  BY <1>1

LEMMA SendMemoKeeps ==
  ASSUME Inv, NEW r \in Runs, NEW first \in BOOLEAN, NEW here, NEW next,
         \/ first /\ here = "send1" /\ next = "mark1"
         \/ ~first /\ here = "send" /\ next = "mark",
         SendMemo(r, first, here, next)
  PROVE  Inv'
<1>1. Typed /\ Local(r) /\ pc[r] = here
  BY Zenon DEF Inv, SendMemo
<1>2. /\ Written(r) /\ Held(r)
      /\ first => kind[r] \in Creators /\ deployed /\ draft[r].chapter = 1
      /\ ~first => kind[r] \in Narrators /\ Readable(r)
  BY <1>1 DEF Local, AtCreator, AtNarrator
<1>3. UNCHANGED <<storeVars, deployed, image, texts, buyVars, kind, crashed>>
  BY Zenon DEF SendMemo
<1>4. /\ lore' = lore /\ upserts' = upserts /\ ledger' = ledger /\ commits' = commits
      /\ texts' = texts /\ deployed' = deployed /\ image' = image /\ kind' = kind
  BY <1>3, Zenon DEF storeVars
<1>5. pc[r] # "done" /\ commits \subseteq commits' /\ (first => deployed')
  BY <1>1, <1>2, <1>4
<1>6. PICK c, t : c = draft[r].chapter /\ t = draft[r].cid
  OBVIOUS
<1>7. <<c, t>> \in commits
  BY <1>2, <1>6 DEF Held
<1>8. chain' \in {chain, chain \union {<<c, t>>}}
  BY <1>6 DEF SendMemo
<1>9. ChainTyped' /\ StoresTyped' /\ Stores' /\ Gapless' /\ chain \subseteq chain'
  BY <1>4, <1>7, <1>8, ChainEffect, Zenon
<1>10. draft' = draft => Readable(r)' = Readable(r) /\ Held(r)' /\ Written(r)'
  BY <1>2, <1>4, Zenon DEF Readable, Held, Written, HasText
<1> DEFINE S == OnLeaving(r, first)
<1>11. \A a \in S : a \in Artifacts /\ Holds(a)' /\ a.what # "image"
  BY <1>5, LeavingHolds
<1>12. CASE /\ chain' = chain \union {<<draft[r].chapter, draft[r].cid>>}
            /\ End(r, next) /\ UNCHANGED <<draft, shown>>
  <2>1. next \in Steps /\ pc'[r] = next
    BY <1>1, <1>12, EndEffect DEF Steps
  <2>2. Sent(r)'
    BY <1>12 DEF Sent
  <2>3. Local(r)'
    <3>1. CASE first
      <4>1. pc'[r] = "mark1" /\ kind'[r] \in Creators /\ deployed' /\ draft'[r].chapter = 1
        BY <1>2, <1>4, <1>5, <1>12, <2>1, <3>1
      <4>2. Written(r)' /\ Held(r)'
        BY <1>10, <1>12, Zenon
      <4>3. QED
        BY <2>2, <4>1, <4>2 DEF Local, AtCreator, AtNarrator, AtTrader
    <3>2. CASE ~first
      <4>1. pc'[r] = "mark" /\ kind'[r] \in Narrators
        BY <1>2, <1>4, <2>1, <3>2
      <4>2. Written(r)' /\ Held(r)' /\ Readable(r)'
        BY <1>2, <1>10, <1>12, <3>2, Zenon
      <4>3. QED
        BY <2>2, <4>1, <4>2 DEF Local, AtCreator, AtNarrator, AtTrader
    <3>3. QED
      BY <3>1, <3>2
  <2>4. shown' \subseteq shown \union S
    BY <1>12
  <2> HIDE DEF S
  <2>5. QED
    BY <1>3, <1>4, <1>5, <1>9, <1>11, <1>12, <2>1, <2>3, <2>4, AwaitEffect, AnchorStep, Zenon
<1>13. CASE Continue(r, first) /\ shown' = shown \union OnLeaving(r, first)
  <2>1. shown' \subseteq shown \union S
    BY <1>13
  <2> HIDE DEF S
  <2>2. ~first => kind[r] \in Narrators /\ (draft' = draft => Readable(r)' /\ Held(r)')
    BY <1>2, <1>10, Zenon
  <2>3. QED
    BY <1>2, <1>3, <1>4, <1>5, <1>9, <1>11, <1>13, <2>1, <2>2, ContinueEffect, AnchorStep, Zenon
<1>14. QED
  BY <1>12, <1>13, Zenon DEF SendMemo

LEMMA MarkKeeps ==
  ASSUME Inv, NEW r \in Runs, NEW first \in BOOLEAN, NEW here,
         \/ first /\ here = "mark1"
         \/ ~first /\ here = "mark",
         Mark(r, first, here)
  PROVE  Inv'
<1>1. Typed /\ Local(r) /\ pc[r] = here /\ Continue(r, first)
  BY Zenon DEF Inv, Mark
<1>2. /\ Written(r) /\ Held(r) /\ Sent(r)
      /\ first => kind[r] \in Creators /\ deployed
      /\ ~first => kind[r] \in Narrators /\ Readable(r)
  BY <1>1 DEF Local, AtCreator, AtNarrator
<1>3. UNCHANGED <<lore, upserts, commits, worldVars, buyVars, kind, crashed>>
  BY Zenon DEF Mark
<1>4. /\ lore' = lore /\ upserts' = upserts /\ commits' = commits /\ chain' = chain
      /\ texts' = texts /\ deployed' = deployed /\ image' = image /\ kind' = kind
  BY <1>3, Zenon DEF worldVars
<1>5. /\ pc[r] # "done" /\ commits \subseteq commits' /\ chain \subseteq chain'
      /\ (first => deployed')
  BY <1>1, <1>2, <1>4
<1>6. PICK c, t : c = draft[r].chapter /\ t = draft[r].cid
  OBVIOUS
<1>7. c \in Chapters /\ t \in Cids /\ <<c, t>> \in chain /\ <<c, t>> \in commits
  BY <1>1, <1>2, <1>6, TextTyped, Zenon DEF Written, Held, Sent
<1>8. ChainTyped' /\ StoresTyped' /\ Stores' /\ Gapless'
  <2>1. ChainTyped'
    BY <1>1, <1>4, Zenon DEF Typed, ChainTyped
  <2>2. CASE MarkOnChain(draft[r].chapter, draft[r].cid)
    BY <1>4, <1>6, <1>7, <2>1, <2>2, MarkEffect, Zenon
  <2>3. CASE UNCHANGED ledger
    <3>1. QuietStores
      BY <1>4, <2>3, Zenon DEF QuietStores
    <3>2. StoresTyped'
      BY <1>1, <3>1, Zenon DEF QuietStores, Typed, StoresTyped
    <3>3. QED
      BY <2>1, <3>1, <3>2, StoresKept
  <2>4. QED
    BY <2>2, <2>3, Zenon DEF Mark
<1>9. draft' = draft => Readable(r)' = Readable(r) /\ Held(r)'
  BY <1>2, <1>4, Zenon DEF Readable, Held
<1> DEFINE S == {Artifact("anchor", c, t, t)} \union OnLeaving(r, first)
<1>10. \A a \in S : a \in Artifacts /\ Holds(a)' /\ a.what # "image"
  <2>1. /\ Artifact("anchor", c, t, t) \in Artifacts
        /\ Holds(Artifact("anchor", c, t, t))' /\ Artifact("anchor", c, t, t).what # "image"
    <3>1. <<c, t>> \in commits' /\ <<c, t>> \in chain' /\ t \in {0, t}
      BY <1>4, <1>7
    <3>2. QED
      BY <1>7, <3>1, AnchorHolds
  <2>2. ASSUME NEW a \in S PROVE a \in Artifacts /\ Holds(a)' /\ a.what # "image"
    <3>1. CASE a = Artifact("anchor", c, t, t)
      BY <2>1, <3>1, Zenon DEF Holds
    <3>2. CASE a \in OnLeaving(r, first)
      BY <1>5, <3>2, LeavingHolds
    <3>3. QED
      BY <2>2, <3>1, <3>2
  <2>3. QED
    BY <2>2
<1>11. shown' \subseteq shown \union S
  <2>1. AnchorArtifact(r, draft[r].cid) = Artifact("anchor", c, t, t)
    BY <1>6, Zenon DEF AnchorArtifact
  <2>2. QED
    BY <2>1 DEF Mark
<1> HIDE DEF S
<1>12. ~first => kind[r] \in Narrators /\ (draft' = draft => Readable(r)' /\ Held(r)')
  BY <1>2, <1>9, Zenon
<1>13. QED
  BY <1>1, <1>2, <1>3, <1>4, <1>5, <1>8, <1>10, <1>11, <1>12, ContinueEffect, AnchorStep, Zenon
     DEF worldVars

(***************************************************************************)
(* The starts of a run.                                                    *)
(***************************************************************************)
\* A creator starts when there is none, so nothing has shown an image yet.
LEMMA StartLaunchKeeps ==
  ASSUME Inv, NEW r \in Runs, StartLaunch(r) PROVE Inv'
<1>1. Typed /\ Local(r) /\ pc[r] = "idle" /\ End(r, "creating")
  BY EnterIsEnd, Zenon DEF Inv, StartLaunch
<1>2. PICK k \in Creators : kind' = [kind EXCEPT ![r] = k]
  BY Zenon DEF StartLaunch, Creators
<1>3. \A q \in Runs : kind[q] # "dry" /\ kind[q] \notin Creators
  BY DEF StartLaunch, Creators
<1>4. /\ QuietStores /\ draft' = draft /\ shown' = shown /\ image' = image
      /\ deployed' = deployed /\ served' = served /\ paid' = paid /\ crashed' = crashed
  BY Zenon DEF StartLaunch, QuietStores, storeVars, worldVars, buyVars
<1>5. "creating" \in Ended \union Loops \union Steps
  BY DEF Loops
<1>6. /\ pc'[r] = "creating" /\ stage'[r] = 0
      /\ \A q \in Runs \ {r} : pc'[q] = pc[q] /\ stage'[q] = stage[q]
      /\ RunsTyped'
  BY <1>1, <1>4, <1>5, EndEffect, Zenon DEF Typed, RunsTyped
<1>7. /\ kind'[r] = k /\ \A q \in Runs \ {r} : kind'[q] = kind[q]
  BY <1>1, <1>2, Zenon DEF Typed, KindTyped
<1>8. Alone(r)
  BY <1>3, <1>4, <1>6, <1>7, Zenon DEF Alone
<1>9. Typed'
  <2>1. k \in Kinds \union {"none"}
    BY DEF Creators, Kinds
  <2>2. KindTyped'
    BY <1>1, <1>2, <2>1, Zenon DEF Typed, KindTyped
  <2>3. QED
    BY <1>1, <1>4, <1>6, <2>2, Zenon DEF Typed, StoresTyped, TextsTyped, WorldTyped, ChainTyped,
       BuysTyped, ShownTyped, QuietStores
<1>10. Grows
  BY <1>4, QuietGrows
<1>11. Local(r)'
  BY <1>6, <1>7 DEF Local, AtCreator, AtNarrator, AtTrader, Creators
<1>12. \A q \in Runs : Local(q)'
  BY <1>8, <1>10, <1>11, LocalOthers, Zenon
<1>13. ShownHolds'
  <2>1. pc[r] # "done"
    BY <1>1
  <2>2. QED
    BY <1>4, <1>8, <1>10, <2>1, ShownSame, Zenon
<1>14. OneCreator' /\ ImageShown'
  BY <1>3, <1>4, <1>7, Zenon DEF Inv, OneCreator, ImageShown
<1>15. Stores' /\ Gapless'
  BY <1>4, StoresKept
<1>16. QED
  BY <1>9, <1>12, <1>13, <1>14, <1>15, Zenon DEF Inv

\* A narration starts with nothing in hand, whatever a run has shown before.
LEMMA NarrationStarts ==
  ASSUME Inv, NEW r \in Runs, pc[r] = "idle", NEW k \in {"dry", "narrator"},
         kind' = [kind EXCEPT ![r] = k], Enter(r, "narrating"),
         draft' = [draft EXCEPT ![r] = Nothing],
         UNCHANGED <<storeVars, worldVars, buyVars, crashed>>,
         NEW S, \A a \in S : a \in Artifacts /\ Holds(a)' /\ a.what # "image",
         shown' \subseteq shown \union S
  PROVE  Inv'
<1>1. Typed /\ Local(r) /\ End(r, "narrating") /\ kind[r] = "none"
  BY EnterIsEnd DEF Inv, Local, AtCreator
<1>2. /\ QuietStores /\ image' = image
      /\ deployed' = deployed /\ served' = served /\ paid' = paid /\ crashed' = crashed
  BY Zenon DEF QuietStores, storeVars, worldVars, buyVars
<1>3. "narrating" \in Ended \union Loops \union Steps
  BY DEF Loops
<1>4. Nothing \in Drafts /\ Nothing.cid = 0
  BY Zenon DEF Nothing, Drafts
<1>5. /\ draft' \in [Runs -> Drafts] /\ draft'[r].cid = 0
      /\ \A q \in Runs \ {r} : draft'[q] = draft[q]
  BY <1>1, <1>4, Zenon DEF Typed, RunsTyped
<1>6. /\ pc'[r] = "narrating" /\ stage'[r] = 0
      /\ \A q \in Runs \ {r} : pc'[q] = pc[q] /\ stage'[q] = stage[q]
      /\ RunsTyped'
  BY <1>1, <1>3, <1>5, EndEffect, Zenon DEF Typed, RunsTyped
<1>7. kind'[r] = k /\ \A q \in Runs \ {r} : kind'[q] = kind[q]
  BY <1>1, Zenon DEF Typed, KindTyped
<1>8. Alone(r)
  <2>1. kind[r] # "dry"
    BY <1>1
  <2>2. QED
    BY <1>2, <1>5, <1>6, <1>7, <2>1, Zenon DEF Alone
<1>9. Typed'
  <2>1. k \in Kinds \union {"none"}
    BY DEF Kinds
  <2>2. KindTyped'
    BY <1>1, <2>1, Zenon DEF Typed, KindTyped
  <2>3. ShownTyped'
    BY <1>1 DEF Typed, ShownTyped
  <2>4. QED
    BY <1>1, <1>2, <1>6, <2>2, <2>3, Zenon DEF Typed, StoresTyped, TextsTyped, WorldTyped,
       ChainTyped, BuysTyped, QuietStores
<1>10. Grows
  BY <1>2, QuietGrows
<1>11. Local(r)'
  <2>1. kind'[r] \in Narrators
    BY <1>7 DEF Narrators
  <2>2. QED
    BY <1>5, <1>6, <2>1 DEF Local, AtCreator, AtNarrator, AtTrader
<1>12. \A q \in Runs : Local(q)'
  BY <1>8, <1>10, <1>11, LocalOthers, Zenon
<1>13. ShownHolds'
  <2>1. pc[r] # "done" /\ \A a \in S : Holds(a)'
    BY Zenon
  <2>2. QED
    BY <1>8, <1>10, <2>1, ShownKept, Zenon
<1>14. OneCreator' /\ ImageShown'
  <2>1. \A q \in Runs : kind'[q] \in Creators <=> kind[q] \in Creators
    <3>1. kind'[r] \notin Creators /\ kind[r] \notin Creators
      BY <1>1, <1>7 DEF Creators
    <3>2. QED
      BY <1>7, <3>1, Zenon
  <2>2. OneCreator'
    BY <2>1, Zenon DEF Inv, OneCreator
  <2>3. \A q \in Runs : kind[q] \in Creators /\ pc[q] # "creating" => pc'[q] # "creating"
    BY <1>1, <1>6 DEF Creators
  <2>4. \A a \in shown' : a.what = "image" => a \in shown
    BY Zenon
  <2>5. ImageShown'
    BY <1>2, <2>1, <2>3, <2>4, Zenon DEF Inv, ImageShown
  <2>6. QED
    BY <2>2, <2>5
<1>15. Stores' /\ Gapless'
  BY <1>2, StoresKept
<1>16. QED
  BY <1>9, <1>12, <1>13, <1>14, <1>15, Zenon DEF Inv

\* What a dry run shows is forged, and nothing else is asserted of it.
LEMMA FallbackHolds ==
  ASSUME Forged', NEW a \in FallbackArtifacts
  PROVE  a \in Artifacts /\ Holds(a)' /\ a.what # "image"
<1>1. CASE a \in TokenArtifacts
  BY <1>1, TokenHolds, Zenon
<1>2. CASE a = Artifact("lore", 0, 0, 0)
  <2>1. /\ a \in Artifacts /\ a.what = "lore" /\ a.chapter = 0 /\ a.cid = 0
    BY <1>2, ArtifactFields
  <2>2. a.what \notin {"token", "deploy-tx", "image", "anchor", "payment"}
    BY <2>1
  <2>3. Holds(a)'
    BY <2>1, <2>2 DEF Holds
  <2>4. QED
    BY <2>1, <2>2, <2>3
<1>3. QED
  BY <1>1, <1>2 DEF FallbackArtifacts, TokenArtifacts

LEMMA StartDryRunKeeps ==
  ASSUME Inv, NEW r \in Runs, StartDryRun(r) PROVE Inv'
<1>1. /\ pc[r] = "idle" /\ kind' = [kind EXCEPT ![r] = "dry"] /\ Enter(r, "narrating")
      /\ draft' = [draft EXCEPT ![r] = Nothing]
      /\ shown' = shown \union FallbackArtifacts
      /\ UNCHANGED <<storeVars, worldVars, buyVars, crashed>>
  BY Zenon DEF StartDryRun, NarratorPhase
<1>2. kind'[r] = "dry"
  BY <1>1, Zenon DEF Inv, Typed, KindTyped
<1>3. \A a \in FallbackArtifacts : a \in Artifacts /\ Holds(a)' /\ a.what # "image"
  BY <1>2, FallbackHolds, Zenon DEF Forged
<1>4. shown' \subseteq shown \union FallbackArtifacts
  BY <1>1
<1>5. "dry" \in {"dry", "narrator"}
  OBVIOUS
<1>6. QED
  BY <1>1, <1>3, <1>4, <1>5, NarrationStarts, Zenon

LEMMA InvokeNarratorKeeps ==
  ASSUME Inv, NEW r \in Runs, InvokeNarrator(r) PROVE Inv'
<1>1. /\ pc[r] = "idle" /\ kind' = [kind EXCEPT ![r] = "narrator"] /\ Enter(r, "narrating")
      /\ draft' = [draft EXCEPT ![r] = Nothing] /\ shown' = shown
      /\ UNCHANGED <<storeVars, worldVars, buyVars, crashed>>
  BY Zenon DEF InvokeNarrator, NarratorPersona
<1>2. PICK S : S = {}
  OBVIOUS
<1>3. /\ \A a \in S : a \in Artifacts /\ Holds(a)' /\ a.what # "image"
      /\ shown' \subseteq shown \union S
  BY <1>1, <1>2
<1>4. "narrator" \in {"dry", "narrator"}
  OBVIOUS
<1>5. QED
  BY <1>1, <1>3, <1>4, NarrationStarts, Zenon

(***************************************************************************)
(* Publishing, and the answers that show what a loop has made.             *)
(***************************************************************************)
LEMMA PublishKeeps ==
  ASSUME Inv, NEW r \in Runs, Publish(r) PROVE Inv'
<1>1. Typed /\ Local(r) /\ pc[r] = "upsert"
  BY Zenon DEF Inv, Publish
<1>2. Written(r) /\ Next1(r) /\ kind[r] \in Narrators
  BY <1>1 DEF Local, AtNarrator
<1>3. UNCHANGED <<upserts, ledger, commits, worldVars, buyVars, draft, shown, kind, crashed>>
  BY Zenon DEF Publish
<1>4. pc[r] # "done"
  BY <1>1
<1>5. CASE UNCHANGED lore /\ End(r, "error")
  <2>1. "error" \in Ended \union Loops \union Steps
    BY DEF Ended
  <2>2. UNCHANGED <<storeVars, worldVars, buyVars, shown, kind, crashed>> /\ draft' = draft
    BY <1>3, <1>5, Zenon DEF storeVars
  <2>3. Alone(r) /\ RunsTyped' /\ pc'[r] = "error"
    BY <1>1, <1>5, <2>1, <2>2, EndEffect, Zenon DEF Alone, RunsTyped, Typed, buyVars
  <2>4. Local(r)'
    BY <2>3 DEF Local, AtCreator, AtNarrator, AtTrader
  <2>5. pc'[r] # "creating"
    BY <2>3
  <2>6. QED
    BY <1>4, <2>2, <2>3, <2>4, <2>5, LoopStep, Zenon
<1>6. CASE UpsertLore(draft[r].chapter, draft[r].cid) /\ End(r, "latest")
  <2>1. PICK c, t : c = draft[r].chapter /\ t = draft[r].cid
    OBVIOUS
  <2>2. /\ HasText(c, t) /\ c \in Chapters /\ t \in Cids /\ t # 0
        /\ \A d \in Chapters : d < c => lore[d] # 0
    BY <1>1, <1>2, <2>1, TextTyped, Zenon DEF Written, Next1
  <2>3. lore' = [lore EXCEPT ![c] = t]
    BY <1>6, <2>1, Zenon DEF UpsertLore
  <2>4. /\ lore' \in [Chapters -> Cids \union {0}] /\ lore'[c] = t
        /\ \A d \in Chapters \ {c} : lore'[d] = lore[d]
    BY <1>1, <2>2, <2>3, Zenon DEF Typed, StoresTyped
  <2>5. /\ upserts' = upserts /\ ledger' = ledger /\ commits' = commits /\ texts' = texts
        /\ chain' = chain /\ deployed' = deployed /\ image' = image /\ kind' = kind
        /\ served' = served /\ paid' = paid /\ draft' = draft /\ shown' = shown
        /\ crashed' = crashed
    BY <1>3, Zenon DEF worldVars, buyVars
  <2>6. "latest" \in Ended \union Loops \union Steps
    BY DEF Steps
  <2>7. /\ pc'[r] = "latest" /\ RunsTyped' /\ Alone(r)
    BY <1>1, <1>6, <2>5, <2>6, EndEffect, Zenon DEF Alone, RunsTyped, Typed
  <2>8. Typed'
    BY <1>1, <2>4, <2>5, <2>7, Zenon DEF Typed, StoresTyped, TextsTyped, WorldTyped, ChainTyped,
       BuysTyped, KindTyped, ShownTyped
  <2>9. Grows
    <3>1. \A d, u : HasText(d, u)' <=> HasText(d, u)
      BY <2>5, Zenon DEF HasText
    <3>2. \A d \in Chapters : lore[d] # 0 => lore'[d] # 0
      BY <2>2, <2>4, Zenon
    <3>3. (deployed => deployed') /\ paid \subseteq paid' /\ commits \subseteq commits'
          /\ chain \subseteq chain'
      BY <2>5
    <3>4. QED
      BY <3>1, <3>2, <3>3, Zenon DEF Grows
  <2>10. Local(r)'
    <3>1. kind'[r] \in Narrators
      BY <1>2, <2>5
    <3>2. QED
      BY <2>7, <3>1 DEF Local, AtCreator, AtNarrator, AtTrader
  <2>11. Stores'
    <3>1. \A d, u : HasText(d, u)' <=> HasText(d, u)
      BY <2>5, Zenon DEF HasText
    <3>2. \A d \in Chapters : lore'[d] # 0 => HasText(d, lore'[d])
      BY <2>2, <2>4, Zenon DEF Inv, Stores
    <3>3. QED
      BY <2>5, <3>1, <3>2, Zenon DEF Inv, Stores
  <2>12. Gapless'
    <3>1. ASSUME NEW d \in Chapters, NEW e \in Chapters, lore'[d] # 0, e < d
          PROVE  lore'[e] # 0
      <4>1. CASE d = c
        BY <2>2, <2>4, <3>1, <4>1, LaunchAssumption DEF Chapters
      <4>2. CASE d # c
        BY <2>2, <2>4, <3>1, <4>2 DEF Inv, Gapless
      <4>3. QED
        BY <4>1, <4>2
    <3>2. QED
      BY <3>1 DEF Gapless
  <2>13. \A q \in Runs : Local(q)'
    BY <2>7, <2>9, <2>10, LocalOthers, Zenon
  <2>14. ShownHolds'
    BY <1>4, <2>5, <2>7, <2>9, ShownSame, Zenon
  <2>15. pc'[r] # "creating" /\ \A a \in shown' : a.what = "image" => a \in shown
    BY <2>5, <2>7
  <2>16. OneCreator' /\ ImageShown'
    BY <2>5, <2>7, <2>15, ImagesKept, Zenon
  <2>17. QED
    BY <2>8, <2>11, <2>12, <2>13, <2>14, <2>16, Zenon DEF Inv
<1>7. QED
  BY <1>5, <1>6, Zenon DEF Publish

\* The payment stands for the chapter that was bought.
LEMMA DecideKeeps ==
  ASSUME Inv, NEW r \in Runs, Decide(r) PROVE Inv'
<1>1. Typed /\ Local(r) /\ pc[r] = "trading" /\ End(r, "done")
  BY Zenon DEF Inv, Decide
<1>2. /\ kind[r] \in {"a2a", "dry"} /\ Readable(r) /\ Held(r)
      /\ stage[r] = 2 => r \in paid /\ served[r] # 0
  BY <1>1 DEF Local, AtTrader
<1>3. /\ UNCHANGED <<storeVars, worldVars, buyVars, draft, kind, crashed>>
  BY Zenon DEF Decide
<1>4. /\ QuietStores /\ draft' = draft /\ kind' = kind /\ image' = image /\ crashed' = crashed
      /\ deployed' = deployed /\ served' = served /\ paid' = paid /\ lore' = lore
      /\ commits' = commits
  BY <1>3, Zenon DEF QuietStores, storeVars, worldVars, buyVars
<1>5. "done" \in Ended \union Loops \union Steps
  BY DEF Ended
<1>6. pc'[r] = "done" /\ RunsTyped' /\ Alone(r)
  BY <1>1, <1>4, <1>5, EndEffect, Zenon DEF Alone, RunsTyped, Typed
<1>7. Grows
  BY <1>4, QuietGrows
<1>8. Local(r)'
  <2>1. Readable(r)' /\ Held(r)'
    BY <1>2, <1>4, Zenon DEF Readable, Held
  <2>2. QED
    BY <1>6, <2>1 DEF Local, AtCreator, AtNarrator, AtTrader
<1>9. Stores' /\ Gapless'
  BY <1>4, StoresKept
<1>10. pc[r] # "done" /\ pc'[r] # "creating"
  BY <1>1, <1>6
<1> DEFINE S == IF stage[r] = 2 THEN {PaymentArtifact(r)} ELSE {}
<1>11. \A a \in S : a \in Artifacts /\ Holds(a)' /\ a.what # "image"
  <2>1. PICK u : u = served[r]
    OBVIOUS
  <2>2. u \in Cids \union {0} /\ PaymentArtifact(r) = Artifact("payment", 0, u, 0)
    BY <1>1, <2>1, DraftTyped DEF PaymentArtifact
  <2>3. /\ Artifact("payment", 0, u, 0) \in Artifacts
        /\ Artifact("payment", 0, u, 0).what = "payment"
        /\ Artifact("payment", 0, u, 0).cid = u
    BY <2>2, ArtifactFields
  <2>4. stage[r] = 2 => u # 0 /\ r \in paid' /\ pc'[r] = "done" /\ served'[r] = u
    BY <1>2, <1>4, <1>6, <2>1
  <2>5. PICK b : b = Artifact("payment", 0, u, 0)
    OBVIOUS
  <2>6. b.what \notin {"token", "deploy-tx"} /\ b.what # "lore" /\ b.what # "anchor" /\ b.what # "image"
        /\ b \in Artifacts /\ b.cid = u
    BY <2>3, <2>5
  <2>7. stage[r] = 2 => Holds(b)'
    BY <2>4, <2>6, Zenon DEF Holds
  <2>8. ASSUME NEW a \in S PROVE a \in Artifacts /\ Holds(a)' /\ a.what # "image"
    <3>1. stage[r] = 2 /\ a = b
      BY <2>2, <2>5, <2>8
    <3>2. QED
      BY <2>6, <2>7, <3>1, Zenon DEF Holds
  <2>9. QED
    BY <2>8
<1>12. shown' \subseteq shown \union S
  BY DEF Decide
<1> HIDE DEF S
<1>13. Typed'
  <2>1. ShownTyped'
    BY <1>1, <1>11, <1>12 DEF Typed, ShownTyped
  <2>2. QED
    BY <1>1, <1>4, <1>6, <2>1, Zenon DEF Typed, StoresTyped, TextsTyped, WorldTyped, ChainTyped,
       BuysTyped, KindTyped, QuietStores
<1>14. \A a \in S : Holds(a)' /\ a.what # "image"
  BY <1>11, Zenon
<1>15. QED
  BY <1>4, <1>6, <1>7, <1>8, <1>9, <1>10, <1>12, <1>13, <1>14, ShowStep, Zenon

\* The creator has pinned its chapter: whoever built the loop shows image and lore,
\* the tool of the Brain starts the upsert as well.
LEMMA CreatorShows ==
  ASSUME Inv, NEW r \in Runs, CreatorAnswers(r), End(r, "append1"), UNCHANGED draft,
         upserts' \in {upserts, upserts \union {draft[r].cid}},
         shown' \subseteq shown \union {ImageArtifact, LoreArtifact(r)} \union TokenArtifacts,
         UNCHANGED <<lore, ledger, commits, worldVars, buyVars, kind, crashed>>
  PROVE  Inv'
<1>1. Typed /\ Local(r) /\ pc[r] = "creating" /\ stage[r] = 4
  BY Zenon DEF Inv, CreatorAnswers
<1>2. kind[r] \in Creators /\ deployed /\ draft[r].chapter = 1 /\ Written(r)
  BY <1>1 DEF Local, AtCreator
<1>3. /\ lore' = lore /\ ledger' = ledger /\ commits' = commits /\ texts' = texts
      /\ chain' = chain /\ deployed' = deployed /\ image' = image /\ kind' = kind
      /\ served' = served /\ paid' = paid /\ draft' = draft /\ crashed' = crashed
  BY Zenon DEF worldVars, buyVars
<1>4. PICK t : t = draft[r].cid
  OBVIOUS
<1>5. HasText(1, t) /\ 1 \in Chapters /\ t \in Cids
  BY <1>1, <1>2, <1>4, TextTyped, Zenon DEF Written
<1>6. "append1" \in Ended \union Loops \union Steps
  BY DEF Steps
<1>7. pc'[r] = "append1" /\ RunsTyped' /\ Alone(r)
  BY <1>1, <1>3, <1>6, EndEffect, Zenon DEF Alone, RunsTyped, Typed
<1>8. \A d, u : HasText(d, u)' <=> HasText(d, u)
  BY <1>3, Zenon DEF HasText
<1>9. Grows
  <2>1. (deployed => deployed') /\ paid \subseteq paid' /\ commits \subseteq commits'
        /\ chain \subseteq chain' /\ \A d \in Chapters : lore[d] # 0 => lore'[d] # 0
    BY <1>3
  <2>2. QED
    BY <1>8, <2>1, Zenon DEF Grows
<1>10. Local(r)'
  <2>1. kind'[r] \in Creators /\ deployed' /\ draft'[r].chapter = 1
    BY <1>2, <1>3
  <2>2. Written(r)'
    BY <1>2, <1>3, Zenon DEF Written, HasText
  <2>3. QED
    BY <1>7, <2>1, <2>2 DEF Local, AtCreator, AtNarrator, AtTrader
<1>11. Stores' /\ Gapless'
  <2>1. \A u \in upserts' : u \in upserts \/ u = t
    BY <1>4
  <2>2. \A u \in upserts' : HasText(1, u)'
    BY <1>5, <1>8, <2>1, Zenon DEF Inv, Stores
  <2>3. Stores'
    BY <1>3, <1>8, <2>2, Zenon DEF Inv, Stores
  <2>4. QED
    BY <1>3, <2>3, Zenon DEF Inv, Gapless
<1> DEFINE I == Artifact("image", 0, 0, 0)
<1> DEFINE F == Artifact("image-failed", 0, 0, 0)
<1> DEFINE L == Artifact("lore", 1, t, 0)
<1>12. /\ LoreArtifact(r) = L
       /\ ImageArtifact = IF image = "ok" THEN I ELSE F
  <2>1. LoreArtifact(r) = L
    BY <1>2, <1>3, <1>4 DEF LoreArtifact
  <2>2. ImageArtifact = IF image = "ok" THEN I ELSE F
    BY DEF ImageArtifact
  <2>3. QED
    BY <2>1, <2>2
<1>13. L \in Artifacts /\ Holds(L)' /\ L.what # "image"
  BY <1>5, <1>8, LoreHolds
<1>14. \A a \in TokenArtifacts : a \in Artifacts /\ Holds(a)' /\ a.what # "image"
  BY <1>2, <1>3, TokenHolds
<1>15. /\ I \in Artifacts /\ I.what = "image" /\ F \in Artifacts /\ F.what = "image-failed"
  BY ArtifactFields
<1> HIDE DEF I, F, L
<1>16. Holds(I)' /\ Holds(F)'
  <2>1. \A a : a.what \in {"image", "image-failed"} =>
          a.what \notin {"token", "deploy-tx"} /\ a.what # "lore" /\ a.what # "anchor" /\ a.what # "payment"
    OBVIOUS
  <2>2. \A a : a.what \in {"image", "image-failed"} => Holds(a)'
    BY <2>1, Zenon DEF Holds
  <2>3. I.what \in {"image", "image-failed"} /\ F.what \in {"image", "image-failed"}
    BY <1>15
  <2>4. QED
    BY <2>2, <2>3, Zenon DEF Holds
<1>17. \A a \in shown' : a \in shown \/ a \in {I, F, L} \union TokenArtifacts
  BY <1>12
<1>18. Typed'
  <2>1. ShownTyped'
    BY <1>1, <1>13, <1>14, <1>15, <1>17 DEF Typed, ShownTyped
  <2>2. upserts' \subseteq Cids
    BY <1>1, <1>4, <1>5 DEF Typed, StoresTyped
  <2>3. QED
    BY <1>1, <1>3, <1>7, <2>1, <2>2, Zenon DEF Typed, StoresTyped, TextsTyped, WorldTyped,
       ChainTyped, BuysTyped, KindTyped
<1>19. ShownHolds'
  <2> DEFINE S == {I, F, L} \union TokenArtifacts
  <2>1. \A a \in S : Holds(a)'
    <3>1. ASSUME NEW a \in S PROVE Holds(a)'
      <4>1. CASE a = I
        BY <1>16, <4>1, Zenon DEF Holds
      <4>2. CASE a = F
        BY <1>16, <4>2, Zenon DEF Holds
      <4>3. CASE a = L
        BY <1>13, <4>3, Zenon DEF Holds
      <4>4. CASE a \in TokenArtifacts
        BY <1>14, <4>4, Zenon DEF Holds
      <4>5. QED
        BY <3>1, <4>1, <4>2, <4>3, <4>4
    <3>2. QED
      BY <3>1
  <2>2. shown' \subseteq shown \union S /\ pc[r] # "done"
    BY <1>1, <1>17
  <2> HIDE DEF S
  <2>3. QED
    BY <1>7, <1>9, <2>1, <2>2, ShownKept, Zenon
<1>20. OneCreator'
  BY <1>3, Zenon DEF Inv, OneCreator
<1>21. ImageShown'
  <2>1. ASSUME NEW a \in shown', a.what = "image" PROVE image = "ok"
    <3>1. CASE a \in shown
      BY <2>1, <3>1, Zenon DEF Inv, ImageShown
    <3>2. CASE a \notin shown
      BY <1>12, <1>13, <1>14, <1>15, <2>1, <3>2
    <3>3. QED
      BY <3>1, <3>2
  <2>2. kind'[r] \in Creators /\ pc'[r] # "creating"
    BY <1>2, <1>3, <1>7
  <2>3. QED
    BY <1>3, <2>1, <2>2, Zenon DEF ImageShown
<1>22. \A q \in Runs : Local(q)'
  BY <1>7, <1>9, <1>10, LocalOthers, Zenon
<1>23. QED
  BY <1>11, <1>18, <1>19, <1>20, <1>21, <1>22, Zenon DEF Inv

LEMMA PhaseAnswersKeeps ==
  ASSUME Inv, NEW r \in Runs, PhaseAnswers(r) PROVE Inv'
<1>1. /\ CreatorAnswers(r) /\ End(r, "append1") /\ UNCHANGED draft
      /\ upserts' \in {upserts, upserts \union {draft[r].cid}}
      /\ UNCHANGED <<lore, ledger, commits, worldVars, buyVars, kind, crashed>>
  BY DEF PhaseAnswers, storeVars
<1>2. shown' \subseteq shown \union {ImageArtifact, LoreArtifact(r)} \union TokenArtifacts
  BY DEF PhaseAnswers, PhaseArtifacts
<1>3. QED
  BY <1>1, <1>2, CreatorShows, Zenon

LEMMA ToolAnswersKeeps ==
  ASSUME Inv, NEW r \in Runs, ToolAnswers(r) PROVE Inv'
<1>1. /\ CreatorAnswers(r) /\ End(r, "append1") /\ UNCHANGED draft
      /\ upserts' \in {upserts, upserts \union {draft[r].cid}}
      /\ UNCHANGED <<lore, ledger, commits, worldVars, buyVars, kind, crashed>>
  BY DEF ToolAnswers, PersonaUpserts
<1>2. shown' \subseteq shown \union {ImageArtifact, LoreArtifact(r)} \union TokenArtifacts
  BY DEF ToolAnswers, PersonaArtifacts
<1>3. QED
  BY <1>1, <1>2, CreatorShows, Zenon

\* The late upsert of the creator's chapter, which may overwrite a narrator's.
LEMMA UpsertLandsKeeps ==
  ASSUME Inv, NEW t \in Cids, UpsertLands(t) PROVE Inv'
<1>1. Typed /\ HasText(1, t) /\ t # 0 /\ 1 \in Chapters
  BY TextTyped, Zenon DEF Inv, Stores, UpsertLands
<1>2. /\ ledger' = ledger /\ commits' = commits /\ texts' = texts /\ chain' = chain
      /\ deployed' = deployed /\ image' = image /\ kind' = kind /\ served' = served
      /\ paid' = paid /\ draft' = draft /\ crashed' = crashed /\ shown' = shown
      /\ pc' = pc /\ stage' = stage /\ turns' = turns /\ upserts' = upserts \ {t}
  BY Zenon DEF UpsertLands, worldVars, runVars, buyVars
<1>3. /\ lore' \in [Chapters -> Cids \union {0}]
      /\ lore' = lore \/ (lore'[1] = t /\ \A d \in Chapters \ {1} : lore'[d] = lore[d])
  BY <1>1, Zenon DEF UpsertLands, UpsertLore, Typed, StoresTyped
<1>4. \A d, u : HasText(d, u)' <=> HasText(d, u)
  BY <1>2, Zenon DEF HasText
<1>5. Typed'
  <2>1. upserts' \subseteq Cids
    BY <1>1, <1>2 DEF Typed, StoresTyped
  <2>2. QED
    BY <1>1, <1>2, <1>3, <2>1, Zenon DEF Typed, StoresTyped, TextsTyped, WorldTyped, ChainTyped,
       RunsTyped, BuysTyped, KindTyped, ShownTyped
<1>6. \A d \in Chapters : lore[d] # 0 => lore'[d] # 0
  BY <1>1, <1>3, Zenon
<1>7. Grows
  <2>1. (deployed => deployed') /\ paid \subseteq paid' /\ commits \subseteq commits'
        /\ chain \subseteq chain'
    BY <1>2
  <2>2. QED
    BY <1>4, <1>6, <2>1, Zenon DEF Grows
<1>8. \A q \in Runs : Local(q)'
  BY <1>2, <1>7, LocalKept, Zenon DEF Inv
<1>9. Stores'
  <2>1. \A d \in Chapters : lore'[d] # 0 => HasText(d, lore'[d])
    BY <1>1, <1>3, Zenon DEF Inv, Stores
  <2>2. \A u \in upserts' : u \in upserts
    BY <1>2
  <2>3. QED
    BY <1>2, <1>4, <2>1, <2>2, Zenon DEF Inv, Stores
<1>10. Gapless'
  <2>1. ASSUME NEW d \in Chapters, NEW e \in Chapters, lore'[d] # 0, e < d
        PROVE  lore'[e] # 0
    <3>1. d # 1
      BY <2>1, LaunchAssumption DEF Chapters
    <3>2. QED
      BY <1>3, <1>6, <2>1, <3>1 DEF Inv, Gapless
  <2>2. QED
    BY <2>1 DEF Gapless
<1>11. ShownHolds'
  BY <1>2, <1>4, Zenon DEF Inv, ShownHolds, Holds, Forged
<1>12. OneCreator' /\ ImageShown'
  BY <1>2, Zenon DEF Inv, OneCreator, ImageShown
<1>13. QED
  BY <1>5, <1>8, <1>9, <1>10, <1>11, <1>12, Zenon DEF Inv

\* A crash leaves the stores, the chain and what was shown; an upsert may still land.
LEMMA CrashKeeps ==
  ASSUME Inv, Crash PROVE Inv'
<1>1. /\ ledger' = ledger /\ commits' = commits /\ texts' = texts /\ chain' = chain
      /\ deployed' = deployed /\ image' = image /\ kind' = kind /\ served' = served
      /\ paid' = paid /\ draft' = draft /\ shown' = shown /\ crashed' = TRUE
      /\ upserts' = {} /\ turns' = [q \in Runs |-> 0] /\ stage' = [q \in Runs |-> 0]
      /\ pc' = [q \in Runs |-> IF pc[q] \in Ended THEN pc[q] ELSE "crashed"]
  BY Zenon DEF Crash, worldVars, buyVars
<1>2. \A q \in Runs : pc'[q] = IF pc[q] \in Ended THEN pc[q] ELSE "crashed"
  BY <1>1, Zenon
<1>3. \A d, u : HasText(d, u)' <=> HasText(d, u)
  BY <1>1, Zenon DEF HasText
<1>4. /\ lore' \in [Chapters -> Cids \union {0}]
      /\ \A d \in Chapters : lore[d] # 0 => lore'[d] # 0
      /\ \A d \in Chapters : lore'[d] # 0 => HasText(d, lore'[d])
      /\ \A d \in Chapters : lore'[d] = lore[d] \/ d = 1
  <2>1. Typed
    BY DEF Inv
  <2>2. CASE lore' = lore
    BY <2>1, <2>2, Zenon DEF Inv, Stores, Typed, StoresTyped
  <2>3. ASSUME NEW t \in upserts, UpsertLore(1, t)
        PROVE  /\ lore' \in [Chapters -> Cids \union {0}]
               /\ \A d \in Chapters : lore[d] # 0 => lore'[d] # 0
               /\ \A d \in Chapters : lore'[d] # 0 => HasText(d, lore'[d])
               /\ \A d \in Chapters : lore'[d] = lore[d] \/ d = 1
    <3>1. HasText(1, t) /\ 1 \in Chapters /\ t \in Cids /\ t # 0
      BY <2>1, <2>3, TextTyped, Zenon DEF Inv, Stores
    <3>2. /\ lore' \in [Chapters -> Cids \union {0}] /\ lore'[1] = t
          /\ \A d \in Chapters \ {1} : lore'[d] = lore[d]
      BY <2>1, <2>3, <3>1, Zenon DEF UpsertLore, Typed, StoresTyped
    <3>3. QED
      BY <3>1, <3>2, Zenon DEF Inv, Stores
  <2>4. QED
    BY <2>2, <2>3, Zenon DEF Crash
<1>5. Typed'
  <2>1. Typed /\ "crashed" \in Ended \union Loops \union Steps /\ {} \subseteq Cids
    BY DEF Inv, Ended
  <2>2. 0 \in 0 .. MaxTurns /\ 0 \in 0 .. 4
    BY LaunchAssumption
  <2>3. /\ pc' \in [Runs -> Ended \union Loops \union Steps]
        /\ turns' \in [Runs -> 0 .. MaxTurns] /\ stage' \in [Runs -> 0 .. 4]
    BY <1>1, <2>1, <2>2, Zenon DEF Typed, RunsTyped
  <2>4. crashed' \in BOOLEAN
    BY <1>1
  <2>5. QED
    BY <1>1, <1>4, <2>1, <2>3, <2>4, Zenon DEF Typed, StoresTyped, TextsTyped, WorldTyped,
       ChainTyped, RunsTyped, BuysTyped, KindTyped, ShownTyped
<1>6. ASSUME NEW q \in Runs PROVE Local(q)'
  <2>1. Local(q)
    BY DEF Inv
  <2>2. CASE pc[q] \in {"idle", "error", "crashed"}
    BY <1>1, <1>2, <2>1, <2>2 DEF Local, AtCreator, AtNarrator, AtTrader, Ended
  <2>3. CASE pc[q] = "done"
    <3>1. pc'[q] = "done" /\ kind'[q] = kind[q]
      BY <1>1, <1>2, <2>3 DEF Ended
    <3>2. Readable(q) => Readable(q)'
      BY <1>1, <1>4, Zenon DEF Readable
    <3>3. Held(q) => Held(q)'
      BY <1>1, Zenon DEF Held
    <3>4. kind'[q] # "creator" => Readable(q)' /\ Held(q)'
      BY <2>1, <2>3, <3>1, <3>2, <3>3 DEF Local, AtTrader
    <3>5. QED
      BY <3>1, <3>4 DEF Local, AtCreator, AtNarrator, AtTrader
  <2>4. CASE pc[q] \notin {"idle", "error", "crashed", "done"}
    <3>1. pc'[q] = "crashed"
      BY <1>2, <2>4 DEF Ended
    <3>2. QED
      BY <3>1 DEF Local, AtCreator, AtNarrator, AtTrader
  <2>5. QED
    BY <2>2, <2>3, <2>4
<1>7. Stores'
  <2>1. \A u \in upserts' : FALSE
    BY <1>1
  <2>2. QED
    BY <1>1, <1>3, <1>4, <2>1, Zenon DEF Inv, Stores
<1>8. Gapless'
  <2>1. ASSUME NEW d \in Chapters, NEW e \in Chapters, lore'[d] # 0, e < d
        PROVE  lore'[e] # 0
    <3>1. d # 1
      BY <2>1, LaunchAssumption DEF Chapters
    <3>2. QED
      BY <1>4, <2>1, <3>1 DEF Inv, Gapless
  <2>2. QED
    BY <2>1 DEF Gapless
<1>9. ShownHolds'
  <2>1. \A q \in paid : pc[q] = "done" => pc'[q] = "done"
    BY <1>2 DEF Ended, Inv, Typed, BuysTyped
  <2>2. QED
    BY <1>1, <1>3, <2>1, Zenon DEF Inv, ShownHolds, Holds, Forged
<1>10. OneCreator' /\ ImageShown'
  <2>1. \A q \in Runs : pc[q] # "creating" => pc'[q] # "creating"
    BY <1>2
  <2>2. QED
    BY <1>1, <2>1, Zenon DEF Inv, OneCreator, ImageShown
<1>11. QED
  BY <1>5, <1>6, <1>7, <1>8, <1>9, <1>10, Zenon DEF Inv

(***************************************************************************)
(* The invariant, initially and by steps.                                  *)
(***************************************************************************)
LEMMA InitInv == Init => Inv
<1> SUFFICES ASSUME Init PROVE Inv
  OBVIOUS
<1>1. Typed
  <2>1. StoresTyped
    <3>1. [cid |-> 0, memo |-> 0] \in Rows
      BY DEF Rows
    <3>2. QED
      BY <3>1, Zenon DEF Init, StoresTyped
  <2>2. TextsTyped
    BY LaunchAssumption DEF Init, TextsTyped
  <2>3. WorldTyped /\ ChainTyped /\ ShownTyped
    BY DEF Init, WorldTyped, ChainTyped, ShownTyped
  <2>4. RunsTyped
    <3>1. Nothing \in Drafts /\ 0 \in 0 .. MaxTurns /\ 0 \in 0 .. 4
      BY LaunchAssumption DEF Nothing, Drafts
    <3>2. "idle" \in Ended \union Loops \union Steps
      BY DEF Ended
    <3>3. QED
      BY <3>1, <3>2, Zenon DEF Init, RunsTyped
  <2>5. BuysTyped
    BY DEF Init, BuysTyped
  <2>6. KindTyped
    BY DEF Init, KindTyped, Kinds
  <2>7. QED
    BY <2>1, <2>2, <2>3, <2>4, <2>5, <2>6 DEF Typed
<1>2. \A r \in Runs : pc[r] = "idle" /\ kind[r] = "none"
  BY Zenon DEF Init
<1>3. \A r \in Runs : Local(r)
  BY <1>2 DEF Local, AtCreator, AtNarrator, AtTrader
<1>4. Stores /\ Gapless
  <2>1. \A c \in Chapters : lore[c] = 0 /\ ledger[c].cid = 0 /\ ledger[c].memo = 0
    BY Zenon DEF Init
  <2>2. \A u \in upserts : FALSE
    BY DEF Init
  <2>3. \A m \in commits : FALSE
    BY DEF Init
  <2>4. chain \subseteq commits
    BY DEF Init
  <2>5. QED
    BY <2>1, <2>2, <2>3, <2>4, Zenon DEF Stores, Gapless
<1>5. OneCreator
  BY <1>2 DEF OneCreator, Creators
<1>6. ImageShown /\ ShownHolds
  BY DEF Init, ImageShown, ShownHolds
<1>7. QED
  BY <1>1, <1>3, <1>4, <1>5, <1>6, Zenon DEF Inv

LEMMA StepInv == Inv /\ [Next]_vars => Inv'
<1> SUFFICES ASSUME Inv, [Next]_vars PROVE Inv'
  OBVIOUS
<1>1. ASSUME NEW r \in Runs, CreatorStep(r) PROVE Inv'
  <2>1. CASE NarrativeTool(r) \/ ImageTool(r) \/ OnchainDeployer(r) \/ LoreWriter(r)
    BY <2>1, NarrativeToolKeeps, ImageToolKeeps, OnchainDeployerKeeps, LoreWriterKeeps, Zenon
  <2>2. CASE PhaseAnswers(r) \/ ToolAnswers(r) \/ AppendFirst(r)
    BY <2>2, PhaseAnswersKeeps, ToolAnswersKeeps, AppendFirstKeeps, Zenon
  <2>3. CASE SendMemo(r, TRUE, "send1", "mark1")
    BY <2>3, SendMemoKeeps
  <2>4. CASE Mark(r, TRUE, "mark1")
    BY <2>4, MarkKeeps
  <2>5. QED
    BY <1>1, <2>1, <2>2, <2>3, <2>4, Zenon DEF CreatorStep
<1>2. ASSUME NEW r \in Runs, NarratorStep(r) PROVE Inv'
  <2>1. CASE GetTokenInfo(r) \/ ExtendLore(r) \/ PickExtendLore(r)
    BY <2>1, GetTokenInfoKeeps, ExtendLoreKeeps, PickExtendLoreKeeps, Zenon
  <2>2. CASE Publish(r) \/ ReadBack(r) \/ AppendNext(r)
    BY <2>2, PublishKeeps, ReadBackKeeps, AppendNextKeeps, Zenon
  <2>3. CASE SendMemo(r, FALSE, "send", "mark")
    BY <2>3, SendMemoKeeps
  <2>4. CASE Mark(r, FALSE, "mark")
    BY <2>4, MarkKeeps
  <2>5. QED
    BY <1>2, <2>1, <2>2, <2>3, <2>4, Zenon DEF NarratorStep
<1>3. ASSUME NEW r \in Runs, TraderStep(r) PROVE Inv'
  BY <1>3, ReadTokenInfoKeeps, CheckTokenStatusKeeps, XFetchLoreKeeps, DecideKeeps, Zenon
     DEF TraderStep
<1>4. ASSUME NEW r \in Runs, StartLaunch(r) \/ StartDryRun(r) \/ InvokeNarrator(r) PROVE Inv'
  BY <1>4, StartLaunchKeeps, StartDryRunKeeps, InvokeNarratorKeeps, Zenon
<1>5. ASSUME NEW r \in Runs, ToolError(r) \/ GiveUp(r) PROVE Inv'
  BY <1>5, ToolErrorKeeps, GiveUpKeeps, Zenon
<1>6. CASE UNCHANGED vars
  <2>1. /\ QuietStores /\ UNCHANGED <<deployed, image, pc, turns, stage, draft, served, paid>>
        /\ UNCHANGED <<shown, kind, crashed>>
    BY <1>6, Zenon DEF vars, storeVars, worldVars, runVars, buyVars, QuietStores
  <2>2. Typed'
    BY <2>1, Zenon DEF Inv, Typed, StoresTyped, TextsTyped, WorldTyped, ChainTyped, RunsTyped,
       BuysTyped, KindTyped, ShownTyped, QuietStores
  <2>3. Grows
    BY <2>1, QuietGrows
  <2>4. \A q \in Runs : Local(q)'
    BY <2>1, <2>3, LocalKept, Zenon DEF Inv
  <2>5. Stores' /\ Gapless'
    BY <2>1, StoresKept
  <2>6. OneCreator' /\ ImageShown'
    BY <2>1, Zenon DEF Inv, OneCreator, ImageShown
  <2>7. ShownHolds'
    BY <2>1, <2>3, Zenon DEF Inv, ShownHolds, Holds, Forged, QuietStores, HasText
  <2>8. QED
    BY <2>2, <2>4, <2>5, <2>6, <2>7, Zenon DEF Inv
<1>7. QED
  BY <1>1, <1>2, <1>3, <1>4, <1>5, <1>6, UpsertLandsKeeps, CrashKeeps, Zenon DEF Next, RunStep

LEMMA Invariant == Spec => []Inv
<1>1. Init => Inv
  BY InitInv
<1>2. Inv /\ [Next]_vars => Inv'
  BY StepInv
<1>3. QED
  BY <1>1, <1>2, PTL DEF Spec

(***************************************************************************)
(* The theorems.                                                           *)
(***************************************************************************)
\* The stores, the chain, the artifacts and every run stay within their types.
THEOREM LaunchTypeCorrect == Spec => []TypeOK
<1>1. Inv => TypeOK
  BY InvImplies
<1>2. QED
  BY <1>1, Invariant, PTL

\* A text is never stored, committed to, stamped or sent as a chapter it was not
\* written as, although the upsert of creator.ts:282 is not awaited, narrators
\* count chapters long before they write one, and narrator.ts:409 anchors
\* whatever chapter is the latest by then.
THEOREM OwnTexts == Spec => []SlotsHoldOwnTexts
<1>1. Inv => SlotsHoldOwnTexts
  BY InvImplies
<1>2. QED
  BY <1>1, Invariant, PTL

\* A stamp that markOnChain leaves (anchor-ledger.ts) is of a memo that was sent,
\* and the memo of something the ledger held, whoever rewrote the row meanwhile.
THEOREM StampsAreProven == Spec => []StampsProven
<1>1. Inv => StampsProven
  BY InvImplies
<1>2. QED
  BY <1>1, Invariant, PTL

\* The chapters of LoreStore have no gap, whoever writes them and in what order.
THEOREM NoGaps == Spec => []ChaptersGapless
<1>1. Inv => ChaptersGapless
  BY InvImplies
<1>2. QED
  BY <1>1, Invariant, PTL

\* What the runs emit as artifacts (a2a.ts, creator-phase.ts, invoke-persona.ts)
\* has happened, and keeps having happened after any other step or a crash.
THEOREM ArtifactsAreTrue == Spec => []EvidenceTrue
<1>1. Inv => EvidenceTrue
  BY InvImplies
<1>2. QED
  BY <1>1, Invariant, PTL

\* A run that reports success has published: its failures in between, a2a.ts and
\* narrator.ts let through or turn into its own.
THEOREM DoneIsPublished == Spec => []DoneMeansPublished
<1>1. Inv => DoneMeansPublished
  BY InvImplies
<1>2. QED
  BY <1>1, Invariant, PTL

(***************************************************************************)
(* The launch implements Evidence: pinning writes, the ledger commits, the *)
(* memo proves, and everything else leaves all three alone.                *)
(***************************************************************************)
Pinned == {<<texts[cid], cid>> : cid \in DOMAIN texts}

LEMMA PinnedHasText == \A c, cid : <<c, cid>> \in Pinned <=> HasText(c, cid)
BY DEF Pinned, HasText

LEMMA PinWrites ==
  ASSUME Inv, NEW r \in Runs, NEW c \in Chapters, Pin(r, c), commits' = commits, chain' = chain
  PROVE  Timeline!Next
<1>1. texts \in Seq(Chapters) /\ Len(texts) \in Nat /\ Len(texts) < MaxTexts
  BY DEF Inv, Typed, TextsTyped, Pin
<1>0. PICK t : t = Len(texts) + 1
  OBVIOUS
<1>2. t \in Cids
  BY <1>0, <1>1, LaunchAssumption DEF Cids
<1>3. /\ DOMAIN texts = 1 .. Len(texts) /\ DOMAIN texts' = 1 .. Len(texts) + 1
      /\ texts'[t] = c /\ \A i \in 1 .. Len(texts) : texts'[i] = texts[i]
  BY <1>0, <1>1 DEF Pin
<1>4. \A d : <<d, t>> \notin Pinned
  BY <1>0, <1>1, <1>3, PinnedHasText DEF HasText
<1>5. Pinned' = Pinned \union {<<c, t>>}
  <2>1. Pinned' = {<<texts'[i], i>> : i \in 1 .. Len(texts) + 1}
    BY <1>3 DEF Pinned
  <2>2. 1 .. Len(texts) + 1 = (1 .. Len(texts)) \union {t}
    BY <1>0, <1>1
  <2>3. Pinned = {<<texts[i], i>> : i \in 1 .. Len(texts)}
    BY <1>3 DEF Pinned
  <2>4. QED
    BY <1>3, <2>1, <2>2, <2>3
<1>6. Timeline!Write(c, t)
  BY <1>4, <1>5 DEF Timeline!Write, Pinned
<1>7. QED
  BY <1>2, <1>6 DEF Timeline!Next

LEMMA AppendCommits ==
  ASSUME NEW c \in Chapters, NEW cid \in Cids, HasText(c, cid), AppendAnchor(c, cid),
         texts' = texts, chain' = chain
  PROVE  Timeline!Next
<1>1. <<c, cid>> \in Pinned /\ Pinned' = Pinned
  BY PinnedHasText DEF Pinned
<1>2. commits' = commits \union {<<c, cid>>}
  BY DEF AppendAnchor
<1>3. Timeline!Commit(c, cid)
  BY <1>1, <1>2 DEF Timeline!Commit, Pinned
<1>4. QED
  BY <1>3 DEF Timeline!Next

LEMMA MemoProves ==
  ASSUME NEW c \in Chapters, NEW cid \in Cids, <<c, cid>> \in commits,
         chain' = chain \union {<<c, cid>>}, texts' = texts, commits' = commits
  PROVE  Timeline!Next
<1>1. Pinned' = Pinned
  BY DEF Pinned
<1>2. Timeline!Prove(c, cid)
  BY <1>1 DEF Timeline!Prove, Pinned
<1>3. QED
  BY <1>2 DEF Timeline!Next

LEMMA StepRefines == Inv /\ [Next]_vars => [Timeline!Next]_(Timeline!vars)
<1> SUFFICES ASSUME Inv, [Next]_vars PROVE Timeline!Next \/ UNCHANGED Timeline!vars
  OBVIOUS
<1> DEFINE Still == texts' = texts /\ commits' = commits /\ chain' = chain
<1>1. Still => UNCHANGED Timeline!vars
  BY DEF Timeline!vars
<1>2. ASSUME NEW r \in Runs, LoreWriter(r) \/ ExtendLore(r) PROVE Timeline!Next
  <2>1. commits' = commits /\ chain' = chain
    BY <1>2, Zenon DEF LoreWriter, ExtendLore, storeVars
  <2>2. CASE LoreWriter(r)
    <3>1. 1 \in Chapters
      <4>1. Len(texts) \in Nat /\ Len(texts) < MaxTexts
        BY <2>2 DEF Inv, Typed, TextsTyped, LoreWriter, Pin
      <4>2. QED
        BY <4>1, LaunchAssumption DEF Chapters
    <3>2. QED
      BY <2>1, <2>2, <3>1, PinWrites, Zenon DEF LoreWriter
  <2>3. CASE ExtendLore(r)
    <3>1. Local(r) /\ pc[r] = "narrating" /\ stage[r] = 1
      BY <2>3, Zenon DEF Inv, ExtendLore, Calls, Turn
    <3>2. draft[r].chapter \in Chapters
      BY <3>1 DEF Local, AtNarrator, Next1
    <3>3. QED
      BY <2>1, <2>3, <3>2, PinWrites, Zenon DEF ExtendLore
  <2>4. QED
    BY <1>2, <2>2, <2>3
<1>3. ASSUME NEW r \in Runs, AppendFirst(r) \/ AppendNext(r) PROVE Timeline!Next \/ Still
  <2>1. Local(r) /\ Typed
    BY DEF Inv
  <2>2. texts' = texts /\ chain' = chain
    BY <1>3, Zenon DEF AppendFirst, AppendNext, worldVars
  <2>3. CASE AppendFirst(r)
    <3>1. pc[r] = "append1"
      BY <2>3, Zenon DEF AppendFirst
    <3>2. HasText(1, draft[r].cid)
      BY <2>1, <3>1 DEF Local, AtCreator, Written
    <3>3. 1 \in Chapters /\ draft[r].cid \in Cids
      BY <2>1, <3>2, TextTyped
    <3>4. AppendAnchor(1, draft[r].cid) \/ commits' = commits
      BY <2>3, Zenon DEF AppendFirst
    <3>5. QED
      BY <2>2, <3>2, <3>3, <3>4, AppendCommits
  <2>4. CASE AppendNext(r)
    <3>1. pc[r] = "append"
      BY <2>4, Zenon DEF AppendNext
    <3>2. HasText(draft[r].chapter, draft[r].cid)
      BY <2>1, <3>1 DEF Local, AtNarrator, Written
    <3>3. draft[r].chapter \in Chapters /\ draft[r].cid \in Cids
      BY <2>1, <3>2, TextTyped
    <3>4. AppendAnchor(draft[r].chapter, draft[r].cid) \/ commits' = commits
      BY <2>4, Zenon DEF AppendNext
    <3>5. QED
      BY <2>2, <3>2, <3>3, <3>4, AppendCommits
  <2>5. QED
    BY <1>3, <2>3, <2>4
<1>4. ASSUME NEW r \in Runs,
             SendMemo(r, TRUE, "send1", "mark1") \/ SendMemo(r, FALSE, "send", "mark")
      PROVE  Timeline!Next \/ Still
  <2>1. Local(r) /\ Typed
    BY DEF Inv
  <2>2. /\ texts' = texts /\ commits' = commits /\ pc[r] \in {"send1", "send"}
        /\ chain' = chain \/ chain' = chain \union {<<draft[r].chapter, draft[r].cid>>}
    BY <1>4 DEF SendMemo, storeVars
  <2>3. Held(r)
    BY <2>1, <2>2 DEF Local, AtCreator, AtNarrator
  <2>4. draft[r].chapter \in Chapters /\ draft[r].cid \in Cids
    BY <2>1, <2>3 DEF Held, Typed, StoresTyped
  <2>5. QED
    BY <2>2, <2>3, <2>4, MemoProves DEF Held
<1>5. ASSUME NEW r \in Runs, StartLaunch(r) \/ StartDryRun(r) \/ InvokeNarrator(r) PROVE Still
  BY <1>5, Zenon DEF StartLaunch, StartDryRun, InvokeNarrator, storeVars, worldVars
<1>6. ASSUME NEW r \in Runs, ToolError(r) \/ GiveUp(r) \/ TraderStep(r) PROVE Still
  BY <1>6, Zenon DEF ToolError, GiveUp, TraderStep, ReadTokenInfo, CheckTokenStatus, XFetchLore,
     Decide, storeVars, worldVars
<1>7. ASSUME NEW r \in Runs,
             \/ NarrativeTool(r) \/ ImageTool(r) \/ OnchainDeployer(r)
             \/ PhaseAnswers(r) \/ ToolAnswers(r) \/ Mark(r, TRUE, "mark1")
      PROVE  Still
  BY <1>7, Zenon DEF NarrativeTool, ImageTool, OnchainDeployer, PhaseAnswers, ToolAnswers, Mark,
     storeVars, worldVars
<1>8. ASSUME NEW r \in Runs,
             \/ GetTokenInfo(r) \/ PickExtendLore(r) \/ Publish(r)
             \/ ReadBack(r) \/ Mark(r, FALSE, "mark")
      PROVE  Still
  BY <1>8, Zenon DEF GetTokenInfo, PickExtendLore, Publish, ReadBack, Mark, storeVars, worldVars
<1>9. ASSUME NEW t \in Cids, UpsertLands(t) PROVE Still
  BY <1>9, Zenon DEF UpsertLands, worldVars
<1>10. Crash => Still
  BY Zenon DEF Crash, worldVars
<1>11. UNCHANGED vars => Still
  BY Zenon DEF vars, storeVars, worldVars
<1> HIDE DEF Still
<1>12. ASSUME NEW r \in Runs, RunStep(r) PROVE Timeline!Next \/ Still
  <2>1. CreatorStep(r) => Timeline!Next \/ Still
    BY <1>2, <1>3, <1>4, <1>7, Zenon DEF CreatorStep
  <2>2. NarratorStep(r) => Timeline!Next \/ Still
    BY <1>2, <1>3, <1>4, <1>8, Zenon DEF NarratorStep
  <2>3. QED
    BY <1>6, <1>12, <2>1, <2>2, Zenon DEF RunStep
<1>13. Timeline!Next \/ Still
  BY <1>5, <1>9, <1>10, <1>11, <1>12, Zenon DEF Next
<1>14. QED
  BY <1>1, <1>13

\* Whatever narrators, creators, crashes and lost answers do: the ledger commits only
\* to texts that are pinned, and a memo proves only what the ledger held before.
THEOREM LaunchImplementsEvidence == Spec => EvidenceKept
<1>1. Init => Timeline!Init
  BY DEF Init, Timeline!Init
<1>2. Inv /\ [Next]_vars => [Timeline!Next]_(Timeline!vars)
  BY StepRefines
<1>3. QED
  BY <1>1, <1>2, Invariant, PTL DEF Spec, EvidenceKept, Timeline!Spec
=============================================================================
