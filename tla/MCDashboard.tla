----------------------------- MODULE MCDashboard -----------------------------
(* The chat and the page around it for TLC, the log, whose table and pool    *)
(* the page cannot tell from the ring, the timer of a heartbeat agent and    *)
(* the guards of a tweet.  They share no state, so a behaviour explores one  *)
(* of them while the others rest.                                            *)
EXTENDS Conversation, Dashboard, HeartbeatAgent, Tweet

VARIABLE part

allVars == <<chatVars, logVars, pageVars, agentVars, tweetVars, part>>

Init ==
  /\ ChatInit /\ DashboardInit /\ AgentInit /\ TweetInit
  /\ part \in {"chat", "feed", "log", "page", "agent", "tweet"}
  /\ pooled => part = "log"
  /\ reduced => part = "page"
  /\ part # "log" => config.keyed /\ (config.wallet <=> ~reduced)
  /\ part # "agent" => client = "demo"
  /\ part # "tweet" => author = "order" /\ ~url

PersonaTexts(events) == {i \in DOMAIN events : events[i].what = "text"}

\* Bounds of the parts of the chat: two messages without a loop, or more calls in
\* one whose stream stays up, and a persona that says something once in a turn; and
\* one message whose stream stays up, with personas that say nothing, a loop and its
\* feed.
MCOnlyChat ==
  /\ ~loop'.known /\ Sent' + Len(calls') <= 4
  /\ Len(calls') = 3 => drops' = 0
  /\ Cardinality(PersonaTexts(seen')) <= 1
MCOnlyFeed ==
  /\ PersonaTexts(seen') = {}
  /\ Sent' <= 1 /\ Len(calls') <= 2 /\ (joined => joined' \/ pc' = "idle")

\* The log takes two orders, or one and the ticks.
MCOnlyLog ==
  order'[3] = "none" /\ (order'[2] = "none" \/ tick'.begun = 0)

\* The page is told of three orders, of which one is judged, or of one and the ticks,
\* while the stream stays up; or of two; with reduced motion, of at most two, the
\* payments of which have the hash of the stub.
MCOnlyPage ==
  /\ Len(emitted') <= IF reduced THEN 5 ELSE IF order'[3] = "none" THEN 6 ELSE 7
  /\ tick'.begun = 0 \/ (~reduced /\ order'[2] = "none")
  /\ (tick'.begun = 0 /\ order'[3] = "none") \/ losses' = 0

Next ==
  /\ UNCHANGED part
  /\ \/ /\ \/ part = "chat" /\ ChatNext /\ MCOnlyChat
           \/ part = "feed" /\ ChatNext /\ MCOnlyFeed
        /\ UNCHANGED <<logVars, pageVars, agentVars, tweetVars>>
     \/ /\ \/ part = "log"  /\ LogNext /\ MCOnlyLog /\ UNCHANGED pageVars
           \/ part = "page" /\ DashboardNext /\ MCOnlyPage
        /\ UNCHANGED <<chatVars, agentVars, tweetVars>>
     \/ part = "agent" /\ AgentNext /\ UNCHANGED <<chatVars, logVars, pageVars, tweetVars>>
     \/ part = "tweet" /\ TweetNext /\ UNCHANGED <<chatVars, logVars, pageVars, agentVars>>

Spec == Init /\ [][Next]_allVars /\ ChatFairness

TypeOK == ChatTypeOK /\ DashboardTypeOK /\ AgentTypeOK /\ TweetTypeOK

\* Scroll positions besides those jumped to: the top, and the evidence coming in.
MCStops == {0, 115}
=============================================================================
