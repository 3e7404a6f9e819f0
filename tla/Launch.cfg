\* Two runs of any kind over three texts, with layer 2 enabled.
SPECIFICATION Spec
CONSTANTS
  r1 = r1
  r2 = r2
  Runs = {r1, r2}
  OnChain = TRUE
  MaxTurns = 5
  MaxTexts = 3
  DemoEnv = {"DEMO_TOKEN_DEPLOY_TX", "DEMO_CREATOR_LORE_CID"}
INVARIANTS
  TypeOK
  SlotsHoldOwnTexts
  StampsProven
  ChaptersGapless
  EvidenceTrue
  DoneMeansPublished
PROPERTY
  EvidenceKept
SYMMETRY Symmetry
CHECK_DEADLOCK FALSE
