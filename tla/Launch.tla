------------------------------- MODULE Launch -------------------------------
(***************************************************************************)
(* The launch of a token and what is written about it: the a2a pipeline    *)
(* Creator -> Narrator -> Market-maker (apps/server/src/runs/a2a.ts,       *)
(* runs/creator-phase.ts), the Brain's tools invoke_creator and            *)
(* invoke_narrator (tools/invoke-persona.ts), the personas behind both     *)
(* (agents/creator.ts, narrator.ts, market-maker.ts) with the tools they   *)
(* call, and the stores they share: LoreStore, AnchorLedger and the memo   *)
(* transactions on the chain (state/lore-store.ts, state/anchor-ledger.ts, *)
(* chain/anchor-tx.ts).                                                    *)
(*                                                                         *)
(* One token is modelled, since every key of the stores begins with its    *)
(* address.  A run is an orchestration or a tool call of the Brain; an     *)
(* action is the code between two awaits, or one turn of an agent loop.    *)
(* The model answers what the tools returned, in the order its prompt      *)
(* asks for, but may give up at any turn.  A text is named by its CID, a   *)
(* number drawn when it is pinned; 0 stands for none.                      *)
(***************************************************************************)
EXTENDS Naturals, Sequences, FiniteSets

CONSTANTS
  Runs,      \* orchestrations and tool calls
  OnChain,   \* ANCHOR_ON_CHAIN is set and a deployer key is configured
  MaxTurns,  \* turns of one agent loop
  DemoEnv,   \* what the environment sets for a dry run, besides its token
  MaxTexts   \* bound: texts pinned for the token

ASSUME LaunchAssumption ==
  /\ OnChain \in BOOLEAN /\ MaxTurns \in Nat /\ MaxTexts \in Nat
  /\ DemoEnv \subseteq {"DEMO_TOKEN_DEPLOY_TX", "DEMO_CREATOR_LORE_CID"}

Chapters == 1 .. MaxTexts
Cids     == 1 .. MaxTexts
Kinds    == {"a2a", "dry", "creator", "narrator"}

VARIABLES
  deployed,   \* the token is on BSC
  image,      \* what meme_image_creator returned last
  texts,      \* chapter number each pinned text was written for
  lore,       \* CID the LoreStore holds for a chapter
  upserts,    \* CIDs whose fire-and-forget upsert as chapter 1 is under way
  ledger,     \* anchor_ledger: CID committed to, CID in the stamped memo
  chain,      \* <<chapter, CID>> of the memos on BSC mainnet
  commits,    \* history: <<chapter, CID>> the ledger has ever held
  shown,      \* artifacts the runs have emitted
  kind, pc,   \* what a run is and the await it is suspended at
  turns,      \* turns of its current agent loop
  stage,      \* progress of that loop
  draft,      \* chapter and CID in hand
  served,     \* CID of the chapter it bought, 0 for the mock
  paid,       \* runs whose payment settled
  crashed

storeVars == <<lore, upserts, ledger, commits>>
worldVars == <<deployed, image, texts, chain>>
runVars   == <<pc, turns, stage, draft>>
buyVars   == <<served, paid>>
vars == <<storeVars, worldVars, runVars, buyVars, shown, kind, crashed>>

Ended == {"idle", "done", "error", "crashed"}
Loops == {"creating", "narrating", "trading"}
Steps == {"append1", "send1", "mark1", "upsert", "latest", "append", "send", "mark"}

\* Artifacts by the facts they assert (the natural key and what it is about).
Artifact(what, chapter, cid, memo) ==
  [what |-> what, chapter |-> chapter, cid |-> cid, memo |-> memo]
Artifacts ==
  [what : {"token", "deploy-tx", "image", "image-failed", "lore", "anchor", "payment"},
   chapter : Chapters \union {0}, cid : Cids \union {0}, memo : Cids \union {0}]

Nothing == [chapter |-> 0, cid |-> 0]

TypeOK ==
  /\ deployed \in BOOLEAN /\ crashed \in BOOLEAN
  /\ image \in {"none", "ok", "upload-failed"}
  /\ texts \in Seq(Chapters) /\ Len(texts) <= MaxTexts
  /\ lore \in [Chapters -> Cids \union {0}]
  /\ upserts \subseteq Cids
  /\ ledger \in [Chapters -> [cid : Cids \union {0}, memo : Cids \union {0}]]
  /\ chain \subseteq Chapters \X Cids
  /\ commits \subseteq Chapters \X Cids
  /\ shown \subseteq Artifacts
  /\ kind \in [Runs -> Kinds \union {"none"}]
  /\ pc \in [Runs -> Ended \union Loops \union Steps]
  /\ turns \in [Runs -> 0 .. MaxTurns]
  /\ stage \in [Runs -> 0 .. 4]
  /\ draft \in [Runs -> [chapter : Chapters \union {0}, cid : Cids \union {0}]]
  /\ served \in [Runs -> Cids \union {0}]
  /\ paid \subseteq Runs

Init ==
  /\ deployed \in BOOLEAN /\ image = "none" /\ crashed = FALSE
  /\ texts = <<>> /\ chain = {} /\ commits = {} /\ shown = {} /\ upserts = {}
  /\ lore = [c \in Chapters |-> 0]
  /\ ledger = [c \in Chapters |-> [cid |-> 0, memo |-> 0]]
  /\ kind = [r \in Runs |-> "none"] /\ pc = [r \in Runs |-> "idle"]
  /\ turns = [r \in Runs |-> 0] /\ stage = [r \in Runs |-> 0]
  /\ draft = [r \in Runs |-> Nothing]
  /\ served = [r \in Runs |-> 0] /\ paid = {}

(***************************************************************************)
(* The stores.                                                             *)
(***************************************************************************)
\* LoreStore.upsert: one row per chapter number, the last writer wins.
UpsertLore(c, cid) == lore' = [lore EXCEPT ![c] = cid]

\* LoreStore.getAllChapters.
AllChapters == {c \in Chapters : lore[c] # 0}

\* LoreStore.getLatest returns chapter c.
IsLatest(c) == c \in AllChapters /\ \A d \in AllChapters : d <= c

\* AnchorLedger.append: replaces the whole payload of the anchorId, stamp included.
AppendAnchor(c, cid) ==
  /\ ledger' = [ledger EXCEPT ![c] = [cid |-> cid, memo |-> 0]]
  /\ commits' = commits \union {<<c, cid>>}

\* AnchorLedger.markOnChain: sets the stamp of whatever row has the anchorId.
MarkOnChain(c, cid) ==
  ledger' = IF ledger[c].cid = 0 THEN ledger ELSE [ledger EXCEPT ![c].memo = cid]

(***************************************************************************)
(* Agent loops: every turn asks the model, which calls a tool or answers.  *)
(***************************************************************************)
Enter(r, loop) ==
  /\ pc' = [pc EXCEPT ![r] = loop]
  /\ turns' = [turns EXCEPT ![r] = 0]
  /\ stage' = [stage EXCEPT ![r] = 0]

\* Slip: one turn too many.
Turn_Inclusive(r, loop) ==
  /\ pc[r] = loop /\ turns[r] <= MaxTurns
  /\ turns' = [turns EXCEPT ![r] = @ + 1]

Turn(r, loop) ==
  /\ pc[r] = loop /\ turns[r] < MaxTurns
  /\ turns' = [turns EXCEPT ![r] = @ + 1]

Advance(r) == stage' = [stage EXCEPT ![r] = @ + 1]

\* The tools of a loop, by who builds its registry: the creator's and, for the
\* Brain, the narrator's ...
CreatorSubRegistry  == {"narrative_generator", "meme_image_creator", "onchain_deployer", "lore_writer"}
NarratorSubRegistry == {"extend_lore", "get_token_info"}

\* ... and those of the orchestration.
NarratorRegistry    == {"extend_lore", "get_token_info"}
MarketMakerRegistry == {"check_token_status", "x402_fetch_lore", "get_token_info"}

Registry(r) ==
  CASE pc[r] = "creating"  -> CreatorSubRegistry
    [] pc[r] = "narrating" -> IF kind[r] = "narrator" THEN NarratorSubRegistry ELSE NarratorRegistry
    [] OTHER               -> MarketMakerRegistry

\* A turn that calls a tool: only one of the loop's registry is found.
Calls(r, loop, tool) == Turn(r, loop) /\ tool \in Registry(r)

\* A failed call is fed back to the model as an error.
ToolError(r) ==
  /\ \E loop \in Loops : Turn(r, loop)
  /\ draft' = IF pc[r] = "narrating" /\ stage[r] = 1
              THEN [draft EXCEPT ![r].cid = 0] ELSE draft
  /\ UNCHANGED <<storeVars, worldVars, buyVars, shown, kind, crashed, pc, stage>>

\* The next await is not one of a loop: what the loop counted is gone.
End(r, how) ==
  /\ pc' = [pc EXCEPT ![r] = how]
  /\ turns' = [turns EXCEPT ![r] = 0]
  /\ stage' = [stage EXCEPT ![r] = 0]

\* The turns run out, or the answer is not what the persona can use: it throws.
GiveUp(r) ==
  /\ pc[r] \in Loops
  /\ End(r, "error")
  /\ UNCHANGED <<storeVars, worldVars, buyVars, draft, shown, kind, crashed>>

Pin(r, c) ==
  /\ Len(texts) < MaxTexts
  /\ texts' = Append(texts, c)
  /\ draft' = [draft EXCEPT ![r] = [chapter |-> c, cid |-> Len(texts) + 1]]

(***************************************************************************)
(* Creator.  Its tools run in the order of the prompt, each fed by the one *)
(* before: 0 narrative, 1 image, 2 deployer, 3 lore.                       *)
(***************************************************************************)
\* a2a: the run starts; without the dry-run flag it deploys a token of its own,
\* whose address no other run can have named.
StartLaunch(r) ==
  /\ pc[r] = "idle" /\ ~deployed
  /\ \A q \in Runs : kind[q] = "none"
  /\ \E k \in {"a2a", "creator"} : kind' = [kind EXCEPT ![r] = k]
  /\ Enter(r, "creating")
  /\ UNCHANGED <<storeVars, worldVars, buyVars, draft, shown, crashed>>

\* The address of the token and the transaction that deployed it.
TokenArtifact  == Artifact("token", 0, 0, 0)
DeployArtifact == Artifact("deploy-tx", 0, 0, 0)
TokenArtifacts == {TokenArtifact, DeployArtifact}

\* Nobody checks that a token named in a request is deployed; but that of a launch
\* cannot be named before.
Nameable == deployed \/ \A q \in Runs : kind[q] \notin {"a2a", "creator"}

\* The narrator of an orchestration is told of no chapters: it looks them up.
NarratorPhase(r) ==
  Enter(r, "narrating") /\ draft' = [draft EXCEPT ![r] = Nothing]

\* The narrator of the Brain, too.
NarratorPersona(r) ==
  Enter(r, "narrating") /\ draft' = [draft EXCEPT ![r] = Nothing]

\* emitDryRunFallbackArtifacts: the token of the request, whether it is deployed or
\* not, and a deploy transaction and the CID of a chapter from the environment.
FallbackArtifacts ==
  {TokenArtifact}
    \union {a \in {DeployArtifact} : "DEMO_TOKEN_DEPLOY_TX" \in DemoEnv}
    \union {a \in {Artifact("lore", 0, 0, 0)} : "DEMO_CREATOR_LORE_CID" \in DemoEnv}

\* a2a with CREATOR_DRY_RUN: nothing is deployed, and the narrator goes on.
StartDryRun(r) ==
  /\ pc[r] = "idle" /\ Nameable
  /\ kind' = [kind EXCEPT ![r] = "dry"]
  /\ shown' = shown \union FallbackArtifacts
  /\ NarratorPhase(r)
  /\ UNCHANGED <<storeVars, worldVars, buyVars, crashed>>

NarrativeTool(r) ==
  /\ stage[r] = 0 /\ Calls(r, "creating", "narrative_generator") /\ Advance(r)
  /\ UNCHANGED <<storeVars, worldVars, buyVars, draft, shown, kind, crashed, pc>>

\* A failed or late upload is not an error: the tool answers upload-failed.
ImageTool(r) ==
  /\ stage[r] = 1 /\ Calls(r, "creating", "meme_image_creator") /\ Advance(r)
  /\ image' \in {"ok", "upload-failed"}
  /\ UNCHANGED <<storeVars, deployed, texts, chain, buyVars, draft, shown, kind, crashed, pc>>

\* The CLI prints a hash and its receipt holds the token.
OnchainDeployer(r) ==
  /\ stage[r] = 2 /\ Calls(r, "creating", "onchain_deployer") /\ Advance(r)
  /\ deployed' = TRUE
  /\ UNCHANGED <<storeVars, image, texts, chain, buyVars, draft, shown, kind, crashed, pc>>

\* lore_writer pins the first chapter.
LoreWriter(r) ==
  /\ stage[r] = 3 /\ Calls(r, "creating", "lore_writer") /\ Advance(r)
  /\ Pin(r, 1)
  /\ UNCHANGED <<storeVars, deployed, image, chain, buyVars, shown, kind, crashed, pc>>

\* The final JSON of a creator that called all its tools.
CreatorAnswers(r) == pc[r] = "creating" /\ stage[r] = 4 /\ turns[r] < MaxTurns

\* An upload that failed is shown as such, without a CID.
ImageArtifact ==
  Artifact(IF image = "ok" THEN "image" ELSE "image-failed", 0, 0, 0)
LoreArtifact(r) == Artifact("lore", draft'[r].chapter, draft'[r].cid, 0)

\* Both are read off the trace of the loop, by the phase ...
PhaseArtifacts(r) == {ImageArtifact, LoreArtifact(r)}

\* ... or the image by the persona, and the rest by its tool.
PersonaArtifacts == {ImageArtifact}

\* runCreatorPhase shows image and lore; the token is shown after the anchor.
PhaseAnswers(r) ==
  /\ kind[r] = "a2a" /\ CreatorAnswers(r)
  /\ UNCHANGED draft
  /\ shown' = shown \union PhaseArtifacts(r)
  /\ End(r, "append1")
  /\ UNCHANGED <<storeVars, worldVars, buyVars, kind, crashed>>

\* creatorPersona starts the upsert of chapter 1 and does not wait for it.
PersonaUpserts(r) == upserts' = upserts \union {draft[r].cid}

\* invoke_creator shows what the persona returned.
ToolAnswers(r) ==
  /\ kind[r] = "creator" /\ CreatorAnswers(r)
  /\ UNCHANGED draft
  /\ PersonaUpserts(r)
  /\ shown' = shown \union PersonaArtifacts \union TokenArtifacts \union {LoreArtifact(r)}
  /\ End(r, "append1")
  /\ UNCHANGED <<lore, ledger, commits, worldVars, buyVars, kind, crashed>>

\* The upsert lands, or fails and is logged.
UpsertLands(cid) ==
  /\ cid \in upserts
  /\ upserts' = upserts \ {cid}
  /\ UpsertLore(1, cid) \/ UNCHANGED lore
  /\ UNCHANGED <<ledger, commits, worldVars, runVars, buyVars, shown, kind, crashed>>

(***************************************************************************)
(* Anchoring.  append1 .. mark1 belong to the creator's chapter, append ..  *)
(* mark to the narrator's; what follows either is the rest of its caller.  *)
(***************************************************************************)
\* runA2ADemo shows the token and starts the narrator; invoke_creator returns.
AfterCreator(r) ==
  \/ kind[r] = "a2a" /\ NarratorPhase(r)
  \/ /\ kind[r] = "creator"
     /\ End(r, "done") /\ UNCHANGED draft

\* The market-maker is started against the lore endpoint.
MarketMakerPhase(r) == Enter(r, "trading")

\* The narrator phase is followed by the market-maker; invoke_narrator returns.
AfterNarrator(r) ==
  /\ UNCHANGED draft
  /\ \/ kind[r] \in {"a2a", "dry"} /\ MarketMakerPhase(r)
     \/ kind[r] = "narrator" /\ End(r, "done")

Continue(r, first) == IF first THEN AfterCreator(r) ELSE AfterNarrator(r)

\* What a run shows when it leaves the creator: invoke_creator has shown it before.
OnLeaving(r, first) == IF first THEN TokenArtifacts ELSE {}

AnchorArtifact(r, memo) == Artifact("anchor", draft[r].chapter, draft[r].cid, memo)

\* maybeAnchorContent returns at once unless layer 2 is enabled.
MaybeAnchor(r, first, step, artifacts) ==
  IF OnChain
  THEN /\ End(r, step) /\ UNCHANGED draft
       /\ shown' = shown \union artifacts
  ELSE /\ Continue(r, first)
       /\ shown' = shown \union artifacts \union OnLeaving(r, first)

\* Slip: the artifact is emitted although the append has failed.
AppendFirst_Shown(r) ==
  /\ pc[r] = "append1"
  /\ \/ /\ AppendAnchor(1, draft[r].cid)
        /\ MaybeAnchor(r, TRUE, "send1", {AnchorArtifact(r, 0)})
     \/ /\ Continue(r, TRUE)
        /\ shown' = shown \union {AnchorArtifact(r, 0)} \union OnLeaving(r, TRUE)
        /\ UNCHANGED <<ledger, commits>>
  /\ UNCHANGED <<lore, upserts, worldVars, buyVars, kind, crashed>>

\* Slip: the memo is sent although the append has failed.
AppendFirst_Uncommitted(r) ==
  /\ pc[r] = "append1"
  /\ \/ /\ AppendAnchor(1, draft[r].cid)
        /\ MaybeAnchor(r, TRUE, "send1", {AnchorArtifact(r, 0)})
     \/ /\ MaybeAnchor(r, TRUE, "send1", {})
        /\ UNCHANGED <<ledger, commits>>
  /\ UNCHANGED <<lore, upserts, worldVars, buyVars, kind, crashed>>

\* anchorChapterOne: a failed append is logged, and layer 2 is skipped.
AppendFirst(r) ==
  /\ pc[r] = "append1"
  /\ \/ /\ AppendAnchor(1, draft[r].cid)
        /\ MaybeAnchor(r, TRUE, "send1", {AnchorArtifact(r, 0)})
     \/ /\ Continue(r, TRUE)
        /\ shown' = shown \union OnLeaving(r, TRUE)
        /\ UNCHANGED <<ledger, commits>>
  /\ UNCHANGED <<lore, upserts, worldVars, buyVars, kind, crashed>>

\* Slip: a timeout is taken for a settlement.
SendMemo_Hopeful(r, first, here, next) ==
  /\ pc[r] = here
  /\ chain' \in {chain, chain \union {<<draft[r].chapter, draft[r].cid>>}}
  /\ End(r, next)
  /\ UNCHANGED <<storeVars, deployed, image, texts, buyVars, draft, shown, kind, crashed>>

\* sendAnchorMemoTx: the transaction is sent, fails, or is sent but not heard of in time.
SendMemo(r, first, here, next) ==
  /\ pc[r] = here
  /\ \/ /\ chain' = chain \union {<<draft[r].chapter, draft[r].cid>>}
        /\ End(r, next) /\ UNCHANGED <<draft, shown>>
     \/ /\ chain' \in {chain, chain \union {<<draft[r].chapter, draft[r].cid>>}}
        /\ Continue(r, first)
        /\ shown' = shown \union OnLeaving(r, first)
  /\ UNCHANGED <<storeVars, deployed, image, texts, buyVars, kind, crashed>>

\* The stamp and the upgraded artifact; a failed update is logged.
Mark(r, first, here) ==
  /\ pc[r] = here
  /\ Continue(r, first)
  /\ \/ /\ MarkOnChain(draft[r].chapter, draft[r].cid)
        /\ shown' = shown \union {AnchorArtifact(r, draft[r].cid)} \union OnLeaving(r, first)
     \/ /\ shown' = shown \union OnLeaving(r, first)
        /\ UNCHANGED ledger
  /\ UNCHANGED <<lore, upserts, commits, worldVars, buyVars, kind, crashed>>

(***************************************************************************)
(* Narrator.  stage 0: it has read nothing, 1: it has read the chapters.   *)
(***************************************************************************)
\* invoke_narrator for the token.
InvokeNarrator(r) ==
  /\ pc[r] = "idle" /\ Nameable
  /\ kind' = [kind EXCEPT ![r] = "narrator"]
  /\ NarratorPersona(r)
  /\ UNCHANGED <<storeVars, worldVars, buyVars, shown, crashed>>

\* Slip: it counts the texts that were pinned.
GetTokenInfo_Pinned(r) ==
  /\ stage[r] = 0 /\ Calls(r, "narrating", "get_token_info") /\ Advance(r)
  /\ Len(texts) < MaxTexts
  /\ draft' = [draft EXCEPT ![r] = [chapter |-> Len(texts) + 1, cid |-> 0]]
  /\ UNCHANGED <<storeVars, worldVars, buyVars, shown, kind, crashed, pc>>

\* get_token_info: the model targets the chapter after those it was told of.
GetTokenInfo(r) ==
  /\ stage[r] = 0 /\ Calls(r, "narrating", "get_token_info") /\ Advance(r)
  /\ Cardinality(AllChapters) < MaxTexts
  /\ draft' = [draft EXCEPT ![r] = [chapter |-> Cardinality(AllChapters) + 1, cid |-> 0]]
  /\ UNCHANGED <<storeVars, worldVars, buyVars, shown, kind, crashed, pc>>

\* extend_lore writes the chapter and pins it; nothing keeps the model from a second call.
ExtendLore(r) ==
  /\ stage[r] = 1 /\ Calls(r, "narrating", "extend_lore")
  /\ Pin(r, draft[r].chapter)
  /\ UNCHANGED <<storeVars, deployed, image, chain, buyVars, shown, kind, crashed, pc, stage>>

\* The loop has ended and its last extend_lore has not failed.
PickExtendLore(r) ==
  /\ pc[r] = "narrating" /\ draft[r].cid # 0 /\ turns[r] < MaxTurns
  /\ End(r, "upsert")
  /\ UNCHANGED <<storeVars, worldVars, buyVars, draft, shown, kind, crashed>>

Publish(r) ==
  /\ pc[r] = "upsert"
  /\ \/ UpsertLore(draft[r].chapter, draft[r].cid) /\ End(r, "latest")
     \/ UNCHANGED lore /\ End(r, "error")
  /\ UNCHANGED <<upserts, ledger, commits, worldVars, buyVars, draft, shown, kind, crashed>>

\* Slip: the latest text is anchored under the narrator's own number.
ReadBack_OwnNumber(r) ==
  /\ pc[r] = "latest"
  /\ \/ /\ \E c \in Chapters :
             IsLatest(c) /\ draft' = [draft EXCEPT ![r].cid = lore[c]]
        /\ End(r, "append")
     \/ UNCHANGED draft /\ End(r, "error")
  /\ UNCHANGED <<storeVars, worldVars, buyVars, shown, kind, crashed>>

\* What is anchored is the latest chapter of the store, whoever wrote it.
ReadBack(r) ==
  /\ pc[r] = "latest"
  /\ \/ /\ \E c \in Chapters :
             /\ IsLatest(c)
             /\ draft' = [draft EXCEPT ![r] = [chapter |-> c, cid |-> lore[c]]]
        /\ End(r, "append")
     \/ UNCHANGED draft /\ End(r, "error")
  /\ UNCHANGED <<storeVars, worldVars, buyVars, shown, kind, crashed>>

\* Slip: a failed append is logged and the narrator goes on.
AppendNext_Logged(r) ==
  /\ pc[r] = "append"
  /\ \/ /\ AppendAnchor(draft[r].chapter, draft[r].cid)
        /\ MaybeAnchor(r, FALSE, "send",
             {AnchorArtifact(r, 0), Artifact("lore", draft[r].chapter, draft[r].cid, 0)})
     \/ /\ MaybeAnchor(r, FALSE, "send", {})
        /\ UNCHANGED <<ledger, commits>>
  /\ UNCHANGED <<lore, upserts, worldVars, buyVars, kind, crashed>>

\* Not in a try: a failed append fails the narrator.
AppendNext(r) ==
  /\ pc[r] = "append"
  /\ \/ /\ AppendAnchor(draft[r].chapter, draft[r].cid)
        /\ MaybeAnchor(r, FALSE, "send",
             {AnchorArtifact(r, 0), Artifact("lore", draft[r].chapter, draft[r].cid, 0)})
     \/ /\ End(r, "error")
        /\ UNCHANGED <<ledger, commits, draft, shown>>
  /\ UNCHANGED <<lore, upserts, worldVars, buyVars, kind, crashed>>

(***************************************************************************)
(* Market-maker.  stage 0: token not inspected, 1: inspected, 2: bought.   *)
(***************************************************************************)
\* get_token_info tells it nothing the decision is checked against.
ReadTokenInfo(r) ==
  /\ Calls(r, "trading", "get_token_info")
  /\ UNCHANGED <<storeVars, worldVars, buyVars, draft, shown, kind, crashed, pc, stage>>

CheckTokenStatus(r) ==
  /\ stage[r] = 0 /\ Calls(r, "trading", "check_token_status") /\ Advance(r)
  /\ UNCHANGED <<storeVars, worldVars, buyVars, draft, shown, kind, crashed, pc>>

\* GET /lore/:tokenAddr answers the latest chapter, or a mock without one.
ServesLore(r, cid) ==
  IF AllChapters = {} THEN cid = 0 ELSE \E c \in Chapters : IsLatest(c) /\ cid = lore[c]

\* x402_fetch_lore: paid and answered, or paid without an answer it can use.
XFetchLore(r) ==
  /\ stage[r] >= 1 /\ Calls(r, "trading", "x402_fetch_lore")
  /\ paid' = paid \union {r}
  /\ \/ /\ stage' = [stage EXCEPT ![r] = 2]
        /\ IF stage[r] = 2 THEN UNCHANGED served
           ELSE \E cid \in Cids \union {0} :
                  ServesLore(r, cid) /\ served' = [served EXCEPT ![r] = cid]
     \/ UNCHANGED <<stage, served>>
  /\ UNCHANGED <<storeVars, worldVars, draft, shown, kind, crashed, pc>>

\* The settlement, when the market-maker reports a purchase.
PaymentArtifact(r) == Artifact("payment", 0, served[r], 0)

\* "buy-lore" needs a purchase that succeeded, "skip" only the inspection.
Decide(r) ==
  /\ pc[r] = "trading" /\ turns[r] < MaxTurns /\ stage[r] >= 1
  /\ \/ stage[r] = 2 /\ shown' = shown \union {PaymentArtifact(r)}
     \/ UNCHANGED shown
  /\ End(r, "done")
  /\ UNCHANGED <<storeVars, worldVars, buyVars, draft, kind, crashed>>

\* The process ends: stores and chain stay, an upsert under way lands or not.
Crash ==
  /\ ~crashed /\ crashed' = TRUE
  /\ pc' = [r \in Runs |-> IF pc[r] \in Ended THEN pc[r] ELSE "crashed"]
  /\ upserts' = {}
  /\ UNCHANGED lore \/ \E cid \in upserts : UpsertLore(1, cid)
  /\ turns' = [r \in Runs |-> 0] /\ stage' = [r \in Runs |-> 0]
  /\ UNCHANGED <<ledger, commits, worldVars, draft, buyVars, shown, kind>>

CreatorStep(r) ==
  \/ NarrativeTool(r) \/ ImageTool(r) \/ OnchainDeployer(r) \/ LoreWriter(r)
  \/ PhaseAnswers(r) \/ ToolAnswers(r) \/ AppendFirst(r)
  \/ SendMemo(r, TRUE, "send1", "mark1") \/ Mark(r, TRUE, "mark1")

NarratorStep(r) ==
  \/ GetTokenInfo(r) \/ ExtendLore(r) \/ PickExtendLore(r)
  \/ Publish(r) \/ ReadBack(r) \/ AppendNext(r)
  \/ SendMemo(r, FALSE, "send", "mark") \/ Mark(r, FALSE, "mark")

TraderStep(r) == ReadTokenInfo(r) \/ CheckTokenStatus(r) \/ XFetchLore(r) \/ Decide(r)

RunStep(r) ==
  CreatorStep(r) \/ NarratorStep(r) \/ TraderStep(r) \/ ToolError(r) \/ GiveUp(r)

Next ==
  \/ \E r \in Runs : StartLaunch(r) \/ StartDryRun(r) \/ InvokeNarrator(r) \/ RunStep(r)
  \/ \E cid \in Cids : UpsertLands(cid)
  \/ Crash

Spec == Init /\ [][Next]_vars

(***************************************************************************)
(* What must hold.                                                         *)
(***************************************************************************)
\* Whatever is stored, committed to, stamped or sent as chapter c was written
\* as chapter c: concurrent narrators, late upserts and rewrites never make a
\* store claim a text for a number it does not have.
SlotsHoldOwnTexts ==
  /\ \A c \in Chapters : \A cid \in {lore[c], ledger[c].cid, ledger[c].memo} \ {0} :
       cid \in DOMAIN texts /\ texts[cid] = c
  /\ \A m \in chain : m[2] \in DOMAIN texts /\ texts[m[2]] = m[1]

\* A stamp in the ledger is never ahead of the chain, and its memo proves
\* something the ledger has held for that chapter.
StampsProven ==
  \A c \in Chapters :
    ledger[c].memo # 0 => <<c, ledger[c].memo>> \in chain \intersect commits

\* Chapters are numbered 1 .. n, although a narrator counts them long before it writes.
ChaptersGapless ==
  \A c \in AllChapters : \A d \in 1 .. c : d \in AllChapters

\* A dry run shows a token, a deploy transaction and a first chapter that it was
\* given and has not made.
Forged == \E r \in Runs : kind[r] = "dry"

\* Artifacts are evidence: each asserts something that has happened, and a payment
\* stands for a chapter, never for the mock the endpoint falls back to.  Where there
\* was a dry run this is not so of the token, its deploy transaction and the chapter
\* CID from the environment, which has no chapter number; of all others it is.
EvidenceTrue ==
  \A a \in shown :
    /\ a.what \in {"token", "deploy-tx"} => deployed \/ Forged
    /\ a.what = "image" => image = "ok"
    /\ a.what = "lore" => \/ a.cid \in DOMAIN texts /\ texts[a.cid] = a.chapter
                          \/ a.cid = 0 /\ a.chapter = 0 /\ Forged
    /\ a.what = "anchor" => <<a.chapter, a.cid>> \in commits
    /\ a.what = "anchor" /\ a.memo # 0 => a.memo = a.cid /\ <<a.chapter, a.cid>> \in chain
    /\ a.what = "payment" => a.cid # 0 /\ \E r \in paid : served[r] = a.cid

\* A launch or a narration that ended well has published: its chapter can be
\* read, and the ledger has committed to it.
DoneMeansPublished ==
  \A r \in Runs : pc[r] = "done" /\ kind[r] # "creator" =>
    /\ draft[r].chapter \in AllChapters
    /\ <<draft[r].chapter, draft[r].cid>> \in commits

\* The refinement: commitments and memos are what Evidence allows.
Timeline == INSTANCE Evidence WITH
  Texts <- Cids,
  written <- {<<texts[cid], cid>> : cid \in DOMAIN texts},
  committed <- commits,
  proven <- chain
EvidenceKept == Timeline!Spec
=============================================================================
