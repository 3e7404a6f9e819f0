------------------------------- MODULE MCLaunch -------------------------------
\* Values for TLC: runs have no order.
EXTENDS Launch, TLC

CONSTANTS r1, r2
MCRuns == {r1, r2}
Symmetry == Permutations(MCRuns)
=============================================================================
