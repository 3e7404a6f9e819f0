-------------------------------- MODULE Tweet --------------------------------
(***************************************************************************)
(* What reaches X: post_shill_for drafts a tweet for an order, asks the    *)
(* model again until its guard is content, and hands the draft to          *)
(* post_to_x, which has a guard of its own (apps/server/src/tools:         *)
(* post-shill-for.ts, x-post.ts, tweet-guard.ts); the heartbeat persona    *)
(* calls post_to_x with a draft nobody has looked at.                      *)
(*                                                                         *)
(* A draft is the set of features the guards look for.  How the request to *)
(* X is retried, and what becomes of the order, is ShillMarket's subject.  *)
(***************************************************************************)
EXTENDS Naturals

CONSTANT MaxAttempts  \* drafts asked for

ASSUME TweetAssumption == MaxAttempts \in Nat \ {0}

VARIABLES
  author,   \* order or heartbeat
  url,      \* the order's includeFourMemeUrl
  step,     \* drafting, failed, handed over, posted, refused, dry run
  attempt,  \* drafts the guard has refused
  draft,    \* features of the draft
  told      \* violations the model is asked to remove

tweetVars == <<author, url, step, attempt, draft, told>>

\* A word of paid intent or an explorer, a link, a raw address, one that begins
\* with 0X, the site's name, more than 280 characters, cut off by max_tokens, or
\* nothing at all.
Features == {"leak", "link", "address", "0X address", "four.meme", "long", "cut", "blank"}

\* What the model writes; of nothing, nothing is seen but that it was cut off.
Candidates == {text \in SUBSET Features : "blank" \in text => text \subseteq {"blank", "cut"}}

TweetTypeOK ==
  /\ author \in {"order", "heartbeat"} /\ url \in BOOLEAN
  /\ step \in {"drafting", "handed over", "posted", "failed", "refused", "dry run"}
  /\ attempt \in 0 .. MaxAttempts
  /\ draft \subseteq Features /\ told \subseteq Features

TweetInit ==
  /\ author \in {"order", "heartbeat"} /\ url \in BOOLEAN
  /\ author = "heartbeat" => ~url
  /\ step = "drafting" /\ attempt = 0 /\ draft = {} /\ told = {}

BaseGuards  == {"leak"}
NoUrlGuards == {"link", "four.meme", "address", "0X address"}

\* checkTweetGuard: the violations, those of safe mode unless a link is asked for.
CheckTweetGuard(text, includeFourMemeUrl) ==
  text \intersect (BaseGuards \union {"long"} \union
                   IF includeFourMemeUrl THEN {} ELSE NoUrlGuards)

\* sanitizeTweetAddresses shortens addresses, in links too, but unlike the guard it
\* minds the case of the x.
SanitizeTweetAddresses(text) == text \ {"address"}

\* One answer of the model, told what was wrong with the last one.
DraftShill ==
  /\ author = "order" /\ step = "drafting"
  /\ \E text \in Candidates :
       LET violations == CheckTweetGuard(text, url) \union (text \intersect {"cut"}) IN
       /\ draft' = text /\ told' = violations
       /\ IF violations = {} THEN step' = "handed over" /\ UNCHANGED attempt
          ELSE /\ attempt' = attempt + 1
               /\ step' = IF attempt + 1 < MaxAttempts THEN "drafting" ELSE "failed"
  /\ UNCHANGED <<author, url>>

\* The model cannot be reached.
DraftFails ==
  /\ author = "order" /\ step = "drafting" /\ step' = "failed"
  /\ UNCHANGED <<author, url, attempt, draft, told>>

\* The heartbeat's model calls post_to_x.
DraftTick ==
  /\ author = "heartbeat" /\ step = "drafting" /\ step' = "handed over"
  /\ \E text \in Candidates : draft' = text
  /\ UNCHANGED <<author, url, attempt, told>>

\* Slip: post_to_x honours the mode of the order.
PostGuarded_UrlMode ==
  /\ step = "handed over"
  /\ LET text == SanitizeTweetAddresses(draft) IN
       IF draft \intersect {"long", "blank"} # {} \/ CheckTweetGuard(text, url) # {}
       THEN step' = "refused" /\ UNCHANGED draft
       ELSE step' = "posted" /\ draft' = text
  /\ UNCHANGED <<author, url, attempt, told>>

\* post_to_x: the schema, the sanitiser, and the guard, in safe mode for all.
PostGuarded ==
  /\ step = "handed over"
  /\ LET text == SanitizeTweetAddresses(draft) IN
       IF draft \intersect {"long", "blank"} # {} \/ CheckTweetGuard(text, FALSE) # {}
       THEN step' = "refused" /\ UNCHANGED draft
       ELSE step' = "posted" /\ draft' = text
  /\ UNCHANGED <<author, url, attempt, told>>

\* Without credentials for X the heartbeat's post_to_x is a stub that answers a fixed id.
PostDryRun ==
  /\ step = "handed over" /\ author = "heartbeat" /\ step' = "dry run"
  /\ UNCHANGED <<author, url, draft, attempt, told>>

TweetNext == DraftShill \/ DraftFails \/ DraftTick \/ PostGuarded \/ PostDryRun

TweetSpec == TweetInit /\ [][TweetNext]_tweetVars

(***************************************************************************)
(* What must hold.                                                         *)
(***************************************************************************)
\* x-post.ts:250-258: "the 7-day cooldown overrides any URL-mode preference".
\* Whoever wrote it and whatever the order asked for, nothing reaches X with a
\* link, an address in full, a word of paid intent or too many characters, and no
\* order is answered with half a sentence.  Of what satisfied the guard of an order,
\* the second one refuses a blank draft, for which the first does not ask again, and
\* in URL mode, where it always refuses it, a draft that has the link or the address
\* the mode is for, unless the sanitiser has shortened all of it; nothing else.
TweetsSafe ==
  /\ step = "posted" =>
       CheckTweetGuard(draft, FALSE) = {} /\ (author = "order" => "cut" \notin draft)
  /\ author = "order" /\ step \in {"posted", "refused"} =>
       (step = "refused" <=>
          \/ draft = {"blank"}
          \/ url /\ draft \intersect {"link", "four.meme", "0X address"} # {})
=============================================================================
