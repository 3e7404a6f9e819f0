-------------------------------- MODULE Sale --------------------------------
(***************************************************************************)
(* What the shill market promises about one paid promotion, whatever the   *)
(* queue, the HTTP exchange and the retries behind it do: it is posted     *)
(* only once it is paid for, it is judged at most once, it is judged a     *)
(* success only if it was posted, and a judged order is never posted       *)
(* again.                                                                  *)
(***************************************************************************)
EXTENDS Naturals

CONSTANTS
  Orders,   \* orders ever placed
  Free      \* orders of a dry run, which nobody pays for; a subset of Orders

VARIABLES
  paid,     \* orders whose payment is on the chain
  posts,    \* tweets posted for each order
  verdict   \* "open", "done" or "failed"

saleVars == <<paid, posts, verdict>>

Init ==
  /\ paid = {}
  /\ posts = [o \in Orders |-> 0]
  /\ verdict = [o \in Orders |-> "open"]

Pay(o) ==
  /\ o \notin paid \union Free
  /\ paid' = paid \union {o}
  /\ UNCHANGED <<posts, verdict>>

Post(o) ==
  /\ o \in paid \union Free
  /\ verdict[o] = "open"
  /\ posts' = [posts EXCEPT ![o] = @ + 1]
  /\ UNCHANGED <<paid, verdict>>

Judge(o, v) ==
  /\ verdict[o] = "open"
  /\ v = "done" => posts[o] > 0
  /\ verdict' = [verdict EXCEPT ![o] = v]
  /\ UNCHANGED <<paid, posts>>

Next == \E o \in Orders : Pay(o) \/ Post(o) \/ Judge(o, "done") \/ Judge(o, "failed")

Spec == Init /\ [][Next]_saleVars

=============================================================================
