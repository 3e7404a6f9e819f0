---------------------------- MODULE MCBrainChat ----------------------------
(* BrainChat with concrete sets for TLC: one tab, and two runs that other   *)
(* clients start for one token.                                             *)
EXTENDS BrainChat

CONSTANTS j1, j2, t1

MCJobs    == {j1, j2}
MCRuns    == Chats \union Jobs
MCConns   == {1, 2}
MCTokenOf == [r \in MCRuns |-> IF r \in Jobs THEN t1 ELSE NoToken]

\* The tab's chat produces two events; the jobs only hold their token.
ChatEvents == [r \in MCRuns |-> IF r \in Jobs THEN 0 ELSE 2]
=============================================================================
