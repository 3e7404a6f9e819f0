------------------------------ MODULE Evidence ------------------------------
(***************************************************************************)
(* What the lore of a token promises, whatever persona writes it: a text   *)
(* is written as one chapter and pinned, the ledger commits to texts only  *)
(* as the chapters they were written as, and a memo on the chain proves a  *)
(* commitment that was made before.  A text is its CID, a memo carries the *)
(* hash of a chapter number and a CID.                                     *)
(***************************************************************************)
EXTENDS Naturals

CONSTANT Texts, Chapters

VARIABLES
  written,    \* <<chapter, text>> pinned
  committed,  \* <<chapter, text>> the ledger has ever held
  proven      \* <<chapter, text>> whose hash is in a transaction

vars == <<written, committed, proven>>

Init == written = {} /\ committed = {} /\ proven = {}

Write(c, t) ==
  /\ \A d \in Chapters : <<d, t>> \notin written
  /\ written' = written \union {<<c, t>>}
  /\ UNCHANGED <<committed, proven>>

Commit(c, t) ==
  /\ <<c, t>> \in written
  /\ committed' = committed \union {<<c, t>>}
  /\ UNCHANGED <<written, proven>>

Prove(c, t) ==
  /\ <<c, t>> \in committed
  /\ proven' = proven \union {<<c, t>>}
  /\ UNCHANGED <<written, committed>>

Next ==
  \E c \in Chapters, t \in Texts : Write(c, t) \/ Commit(c, t) \/ Prove(c, t)

Spec == Init /\ [][Next]_vars
=============================================================================
