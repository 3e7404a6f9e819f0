--------------------------- MODULE MCShillMarket ---------------------------
(* ShillMarket with concrete sets for TLC. *)
EXTENDS ShillMarket

CONSTANTS run1, stub1, buyer1
=============================================================================
