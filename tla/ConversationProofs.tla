-------------------------- MODULE ConversationProofs --------------------------
(* Theorems about a chat with the Brain, for every number of messages, calls, *)
(* turns, ticks and dropped connections.                                      *)
EXTENDS Conversation, FoldFacts

\* What is put into the sequences of the chat.
LEMMA RecordsTyped ==
  /\ \A r \in {"user", "assistant"}, u \in SUBSET Ids, v \in SUBSET Ids :
       Message(r, u, v) \in Messages
  /\ \A r \in {"user", "assistant", "heartbeat"}, s \in BOOLEAN, u \in SUBSET Ids,
        b \in Beats \union {0} : TurnOf(r, s, u, b) \in Turns
  /\ \A w \in {"text", "start", "end"}, a \in {"brain", "persona"}, i \in Ids \union {0},
        b \in BOOLEAN : Event(w, a, i, b) \in SeenEvents
  /\ \A a \in {"brain", "persona"}, u \in Ids \union {0},
        s \in {"streamed", "running", "persona", "looping", "over"} : Call(a, u, s) \in ToolCalls
BY DEF Message, Messages, TurnOf, Turns, Event, SeenEvents, Call, ToolCalls

LEMMA FieldsOf ==
  /\ \A r, u, v : /\ Message(r, u, v).role = r /\ Message(r, u, v).uses = u
                  /\ Message(r, u, v).results = v
  /\ \A r, s, u, b : /\ TurnOf(r, s, u, b).role = r /\ TurnOf(r, s, u, b).said = s
                     /\ TurnOf(r, s, u, b).uses = u /\ TurnOf(r, s, u, b).beat = b
  /\ \A w, a, i, b : /\ Event(w, a, i, b).what = w /\ Event(w, a, i, b).agent = a
                     /\ Event(w, a, i, b).id = i /\ Event(w, a, i, b).background = b
  /\ \A a, u, s : Call(a, u, s).agent = a /\ Call(a, u, s).under = u /\ Call(a, u, s).state = s
BY DEF Message, TurnOf, Event, Call

-----------------------------------------------------------------------------
\* FoldLeft goes through the values of the loop, one per element.
LEMMA FoldOfSpoken ==
  ASSUME NEW q \in Seq(Turns)
  PROVE  \E h : /\ h[0] = <<>>
                /\ \A i \in 1..Len(q) : h[i] = PushSpoken(h[i - 1], q[i])
                /\ History(q) = h[Len(q)]
<1> DEFINE st == [p \in Seq(Messages) \X Turns |-> PushSpoken(p[1], p[2])]
<1>1. st \in [Seq(Messages) \X Turns -> Seq(Messages)] /\ <<>> \in Seq(Messages)
  <2>1. ASSUME NEW m \in Seq(Messages), NEW t \in Turns PROVE PushSpoken(m, t) \in Seq(Messages)
    <3>1. TurnToApiMessage(t) \in Messages
      BY RecordsTyped DEF TurnToApiMessage, Turns
    <3>2. QED
      BY <3>1 DEF PushSpoken
  <2>2. QED
    BY <2>1
<1>2. PICK n \in Nat : n = Len(q) /\ DOMAIN q = 1..n /\ q \in [1..n -> Turns]
  BY LenProperties
<1> HIDE DEF st
<1>3. PICK g : Iterates(g, Seq(Messages), <<>>, st, n, q)
  BY <1>1, <1>2, FoldIter
<1> DEFINE Unfolds(f) ==
             f = [s \in SUBSET (1..n) |->
                    IF s = {} THEN <<>> ELSE PushSpoken(f[s \ {Top(s)}], q[Top(s)])]
<1>4. Unfolds(g)
  <2>1. ASSUME NEW s \in SUBSET (1..n), s # {}
        PROVE  g[s] = PushSpoken(g[s \ {Top(s)}], q[Top(s)])
    <3>1. Top(s) \in 1..n
      BY <2>1, TopIn
    <3>2. g[s \ {Top(s)}] \in Seq(Messages) /\ q[Top(s)] \in Turns
      BY <1>2, <1>3, <3>1 DEF Iterates
    <3>3. QED
      BY <1>3, <2>1, <3>2 DEF st, Iterates
  <2>2. QED
    BY <1>3, <2>1 DEF Iterates
<1> DEFINE f == CHOOSE f : Unfolds(f)
           h == [i \in 0..n |-> f[1..i]]
<1>5. Unfolds(f)
  BY <1>4, Zenon
<1>6. History(q) = f[1..n]
  BY <1>2, Zenon DEF History, FoldLeft, MapThenFoldSet, Top, Max
<1> HIDE DEF f
<1>7. f[1..0] = <<>> /\ h[0] = f[1..0] /\ h[n] = f[1..n]
  BY <1>2, <1>5
<1>8. ASSUME NEW i \in 1..n PROVE h[i] = PushSpoken(h[i - 1], q[i])
  <2>1. Top(1..i) = i /\ 1..i # {} /\ (1..i) \ {i} = 1..(i - 1)
    BY TopOfInterval, SMTT(30)
  <2>2. f[1..i] = PushSpoken(f[1..(i - 1)], q[i])
    <3>1. 1..i \in SUBSET (1..n)
      BY <1>2
    <3>2. QED
      BY <1>5, <2>1, <3>1
  <2>3. h[i] = f[1..i] /\ h[i - 1] = f[1..(i - 1)]
    BY <1>2
  <2>4. QED
    BY <2>2, <2>3
<1> HIDE DEF h
<1>9. QED
  BY <1>2, <1>6, <1>7, <1>8

LEMMA FoldOfMessages ==
  ASSUME NEW q \in Seq(Messages)
  PROVE  \E h : /\ h[0] = <<>>
                /\ \A i \in 1..Len(q) : h[i] = PushMessage(h[i - 1], q[i])
                /\ ToAnthropicMessages(q) = h[Len(q)]
<1> DEFINE st == [p \in Seq(Messages) \X Messages |-> PushMessage(p[1], p[2])]
<1>1. st \in [Seq(Messages) \X Messages -> Seq(Messages)] /\ <<>> \in Seq(Messages)
  <2>1. ASSUME NEW o \in Seq(Messages), NEW m \in Messages PROVE PushMessage(o, m) \in Seq(Messages)
    <3>1. Message("user", {}, m.uses) \in Messages
      BY RecordsTyped DEF Messages
    <3>2. QED
      BY <3>1 DEF PushMessage, ExpandAssistantTurn
  <2>2. QED
    BY <2>1
<1>2. PICK n \in Nat : n = Len(q) /\ DOMAIN q = 1..n /\ q \in [1..n -> Messages]
  BY LenProperties
<1> HIDE DEF st
<1>3. PICK g : Iterates(g, Seq(Messages), <<>>, st, n, q)
  BY <1>1, <1>2, FoldIter
<1> DEFINE Unfolds(f) ==
             f = [s \in SUBSET (1..n) |->
                    IF s = {} THEN <<>> ELSE PushMessage(f[s \ {Top(s)}], q[Top(s)])]
<1>4. Unfolds(g)
  <2>1. ASSUME NEW s \in SUBSET (1..n), s # {}
        PROVE  g[s] = PushMessage(g[s \ {Top(s)}], q[Top(s)])
    <3>1. Top(s) \in 1..n
      BY <2>1, TopIn
    <3>2. g[s \ {Top(s)}] \in Seq(Messages) /\ q[Top(s)] \in Messages
      BY <1>2, <1>3, <3>1 DEF Iterates
    <3>3. QED
      BY <1>3, <2>1, <3>2 DEF st, Iterates
  <2>2. QED
    BY <1>3, <2>1 DEF Iterates
<1> DEFINE f == CHOOSE f : Unfolds(f)
           h == [i \in 0..n |-> f[1..i]]
<1>5. Unfolds(f)
  BY <1>4, Zenon
<1>6. ToAnthropicMessages(q) = f[1..n]
  BY <1>2, Zenon DEF ToAnthropicMessages, FoldLeft, MapThenFoldSet, Top, Max
<1> HIDE DEF f
<1>7. f[1..0] = <<>> /\ h[0] = f[1..0] /\ h[n] = f[1..n]
  BY <1>2, <1>5
<1>8. ASSUME NEW i \in 1..n PROVE h[i] = PushMessage(h[i - 1], q[i])
  <2>1. Top(1..i) = i /\ 1..i # {} /\ (1..i) \ {i} = 1..(i - 1) /\ 1..i \in SUBSET (1..n)
    BY TopOfInterval, SMTT(30)
  <2>2. f[1..i] = PushMessage(f[1..(i - 1)], q[i])
    BY <1>5, <2>1
  <2>3. h[i] = f[1..i] /\ h[i - 1] = f[1..(i - 1)]
    BY <1>2
  <2>4. QED
    BY <2>2, <2>3
<1> HIDE DEF h
<1>9. QED
  BY <1>2, <1>6, <1>7, <1>8

-----------------------------------------------------------------------------
LEMMA HistoryTyped ==
  ASSUME NEW q \in Seq(Turns)
  PROVE  History(q) \in Seq(Messages)
<1>1. PICK h : /\ h[0] = <<>> /\ \A i \in 1..Len(q) : h[i] = PushSpoken(h[i - 1], q[i])
               /\ History(q) = h[Len(q)]
  BY FoldOfSpoken
<1> DEFINE P == {i \in 0..Len(q) : h[i] \in Seq(Messages)}
<1>2. Len(q) \in Nat /\ 0 \in P
  <2>1. 0 \in 0..Len(q) /\ h[0] \in Seq(Messages)
    BY <1>1
  <2>2. QED
    BY <2>1
<1>3. ASSUME NEW i \in 0..(Len(q) - 1), i \in P PROVE i + 1 \in P
  <2>1. i + 1 \in 0..Len(q) /\ i + 1 \in 1..Len(q) /\ (i + 1) - 1 = i /\ q[i + 1] \in Turns
    OBVIOUS
  <2>2. TurnToApiMessage(q[i + 1]) \in Messages
    BY <2>1, RecordsTyped DEF TurnToApiMessage, Turns
  <2>3. h[i + 1] = PushSpoken(h[i], q[i + 1])
    BY <1>1, <2>1
  <2>4. h[i + 1] \in Seq(Messages)
    BY <1>3, <2>2, <2>3 DEF PushSpoken
  <2>5. QED
    BY <2>1, <2>4
<1> HIDE DEF P
<1>4. 0..Len(q) \subseteq P
  BY <1>2, <1>3, BoundedInduction
<1>5. QED
  BY <1>1, <1>4 DEF P

LEMMA ConversationTyped ==
  ASSUME NEW q \in Seq(Messages)
  PROVE  ToAnthropicMessages(q) \in Seq(Messages)
<1>1. PICK h : /\ h[0] = <<>> /\ \A i \in 1..Len(q) : h[i] = PushMessage(h[i - 1], q[i])
               /\ ToAnthropicMessages(q) = h[Len(q)]
  BY FoldOfMessages
<1> DEFINE P == {i \in 0..Len(q) : h[i] \in Seq(Messages)}
<1>2. Len(q) \in Nat /\ 0 \in P
  <2>1. 0 \in 0..Len(q) /\ h[0] \in Seq(Messages)
    BY <1>1
  <2>2. QED
    BY <2>1
<1>3. ASSUME NEW i \in 0..(Len(q) - 1), i \in P PROVE i + 1 \in P
  <2>1. i + 1 \in 0..Len(q) /\ i + 1 \in 1..Len(q) /\ (i + 1) - 1 = i /\ q[i + 1] \in Messages
    OBVIOUS
  <2>2. Message("user", {}, q[i + 1].uses) \in Messages
    BY <2>1, RecordsTyped DEF Messages
  <2>3. h[i + 1] = PushMessage(h[i], q[i + 1])
    BY <1>1, <2>1
  <2>4. h[i + 1] \in Seq(Messages)
    BY <1>3, <2>2, <2>3 DEF PushMessage, ExpandAssistantTurn
  <2>5. QED
    BY <2>1, <2>4
<1> HIDE DEF P
<1>4. 0..Len(q) \subseteq P
  BY <1>2, <1>3, BoundedInduction
<1>5. QED
  BY <1>1, <1>4 DEF P

-----------------------------------------------------------------------------
\* The type invariant, in the parts that the actions change; a loop that runs is
\* below its cap.
RunOK ==
  /\ pc \in {"idle", "asking", "tools", "done", "error"}
  /\ turn \in 0 .. MaxTurns
  /\ forced \in {"auto", "persona", "lookup", "tick", "stop"}
  /\ request \in Seq(Messages)
  /\ calls \in Seq(ToolCalls) /\ Len(calls) <= MaxCalls
TabOK ==
  /\ transcript \in Seq(Turns) /\ seen \in Seq(SeenEvents)
  /\ joined \in BOOLEAN /\ drops \in 0 .. MaxDrops
LoopOK ==
  /\ loop \in [known : BOOLEAN, running : BOOLEAN, ticks : 0 .. MaxTicks, stopped : BOOLEAN]
  /\ loop.running => loop.ticks < MaxTicks
  /\ beats \in 0 .. MaxBeats /\ lost \subseteq Beats
  /\ feed \in {"idle", "opening", "hooked", "ended"} /\ ended \in BOOLEAN

LEMMA TypeParts == RunOK /\ TabOK /\ LoopOK => ChatTypeOK
BY Zenon DEF ChatTypeOK, RunOK, TabOK, LoopOK

LEMMA PartsKept ==
  /\ RunOK /\ UNCHANGED runVars => RunOK'
  /\ TabOK /\ UNCHANGED tabVars => TabOK'
  /\ LoopOK /\ UNCHANGED beatVars => LoopOK'
BY DEF RunOK, TabOK, LoopOK, runVars, tabVars, beatVars

LEMMA IdsOfCalls ==
  ASSUME RunOK
  PROVE  /\ DOMAIN calls = 1..Len(calls) /\ DOMAIN calls \subseteq Ids
         /\ \A id \in DOMAIN calls : calls[id] \in ToolCalls
         /\ Len(calls) < MaxCalls => Len(calls) + 1 \in Ids
BY ConversationAssumption DEF RunOK, Ids

LEMMA SeqFromFcn ==
  ASSUME NEW S, NEW n \in Nat, NEW f \in [1..n -> S]
  PROVE  f \in Seq(S) /\ Len(f) = n
OBVIOUS

LEMMA SetCallTyped ==
  ASSUME RunOK, NEW id, NEW s \in {"streamed", "running", "persona", "looping", "over"},
         calls' = [calls EXCEPT ![id].state = s], UNCHANGED <<pc, turn, forced, request>>
  PROVE  RunOK' /\ Len(calls') = Len(calls)
<1>1. ASSUME NEW i \in 1..Len(calls) PROVE calls'[i] \in ToolCalls
  <2>1. calls[i] \in ToolCalls
    BY IdsOfCalls
  <2>2. [calls[i] EXCEPT !.state = s] \in ToolCalls
    BY <2>1 DEF ToolCalls
  <2>3. calls'[i] \in {calls[i], [calls[i] EXCEPT !.state = s]}
    BY IdsOfCalls
  <2>4. QED
    BY <2>1, <2>2, <2>3
<1>2. calls' \in [1..Len(calls) -> ToolCalls]
  BY <1>1, IdsOfCalls
<1>3. calls' \in Seq(ToolCalls) /\ Len(calls') = Len(calls)
  <2>1. PICK n \in Nat : n = Len(calls)
    BY DEF RunOK
  <2>2. calls' \in [1..n -> ToolCalls]
    BY <1>2, <2>1
  <2>3. calls' \in Seq(ToolCalls) /\ Len(calls') = n
    BY <2>2, SeqFromFcn
  <2>4. QED
    BY <2>1, <2>3
<1>4. QED
  BY <1>3 DEF RunOK

\* The calls of the open response change their state all at once.
LEMMA StreamedTyped ==
  ASSUME RunOK, NEW s \in {"running", "over"},
         calls' = [id \in DOMAIN calls |->
                     IF id \in Streamed THEN [calls[id] EXCEPT !.state = s] ELSE calls[id]]
  PROVE  calls' \in Seq(ToolCalls) /\ Len(calls') = Len(calls)
<1>1. ASSUME NEW i \in 1..Len(calls) PROVE calls'[i] \in ToolCalls
  <2>1. calls[i] \in ToolCalls
    BY IdsOfCalls
  <2>2. [calls[i] EXCEPT !.state = s] \in ToolCalls
    BY <2>1 DEF ToolCalls
  <2>3. calls'[i] \in {calls[i], [calls[i] EXCEPT !.state = s]}
    BY IdsOfCalls
  <2>4. QED
    BY <2>1, <2>2, <2>3
<1>2. calls' \in [1..Len(calls) -> ToolCalls]
  BY <1>1, IdsOfCalls
<1>3. Len(calls) \in Nat
  BY DEF RunOK
<1>4. QED
  BY <1>2, <1>3, SeqFromFcn

LEMMA EmitTyped ==
  ASSUME seen \in Seq(SeenEvents), NEW ev \in SeenEvents, Emit(ev)
  PROVE  seen' \in Seq(SeenEvents)
BY DEF Emit

\* One turn of the transcript is changed.
LEMMA TurnFields ==
  \A t \in Turns, u \in SUBSET Ids :
    /\ t.uses \in SUBSET Ids
    /\ [t EXCEPT !.said = TRUE] \in Turns
    /\ [t EXCEPT !.said = TRUE].uses = t.uses /\ [t EXCEPT !.said = TRUE].beat = t.beat
    /\ [t EXCEPT !.said = TRUE].role = t.role
    /\ [t EXCEPT !.uses = u] \in Turns
    /\ [t EXCEPT !.uses = u].uses = u /\ [t EXCEPT !.uses = u].beat = t.beat
    /\ [t EXCEPT !.uses = u].role = t.role
BY DEF Turns

LEMMA TurnChanged ==
  ASSUME TabOK, NEW k, NEW t, k \in DOMAIN transcript => t \in Turns,
         transcript' = [transcript EXCEPT ![k] = t]
  PROVE  /\ transcript' \in Seq(Turns) /\ DOMAIN transcript' = DOMAIN transcript
         /\ \A i \in DOMAIN transcript : transcript'[i] = IF i = k THEN t ELSE transcript[i]
<1>1. Len(transcript) \in Nat /\ transcript \in [1..Len(transcript) -> Turns]
  BY DEF TabOK
<1>2. \A i \in DOMAIN transcript : transcript'[i] = IF i = k THEN t ELSE transcript[i]
  OBVIOUS
<1>3. transcript' \in [1..Len(transcript) -> Turns]
  BY <1>1, Zenon
<1>4. transcript' \in Seq(Turns)
  BY <1>1, <1>3, SeqFromFcn
<1>5. QED
  BY <1>1, <1>2, <1>3, <1>4

LEMMA SpokenTurn ==
  ASSUME TabOK, AssistantDelta
  PROVE  /\ transcript' \in Seq(Turns) /\ DOMAIN transcript' = DOMAIN transcript
         /\ \A i \in DOMAIN transcript :
              /\ transcript'[i].uses = transcript[i].uses /\ transcript'[i].beat = transcript[i].beat
              /\ transcript'[i].role = transcript[i].role
<1>1. transcript \in Seq(Turns) /\ \A i \in DOMAIN transcript : transcript[i] \in Turns
  BY DEF TabOK
<1>2. CASE transcript' = transcript
  BY <1>1, <1>2
<1>3. CASE joined
  <2> DEFINE k == LastAssistant  t == [transcript[k] EXCEPT !.said = TRUE]
  <2>1. transcript' = [transcript EXCEPT ![k] = t]
    BY <1>3, Zenon DEF AssistantDelta
  <2>2. k \in DOMAIN transcript =>
          /\ t \in Turns /\ t.uses = transcript[k].uses /\ t.beat = transcript[k].beat
          /\ t.role = transcript[k].role
    BY <1>1, TurnFields
  <2> HIDE DEF k, t
  <2>3. /\ transcript' \in Seq(Turns) /\ DOMAIN transcript' = DOMAIN transcript
        /\ \A i \in DOMAIN transcript : transcript'[i] = IF i = k THEN t ELSE transcript[i]
    BY <2>1, <2>2, TurnChanged
  <2>4. QED
    BY <2>2, <2>3
<1>4. QED
  BY <1>2, <1>3 DEF AssistantDelta

LEMMA TurnClosed ==
  ASSUME TabOK, TurnOver
  PROVE  /\ transcript' \in Seq(Turns) /\ DOMAIN transcript' = DOMAIN transcript
         /\ \A i \in DOMAIN transcript :
              /\ i # LastAssistant => transcript'[i] = transcript[i]
              /\ transcript'[i].beat = transcript[i].beat /\ transcript'[i].role = transcript[i].role
         /\ LastAssistant \in DOMAIN transcript => transcript'[LastAssistant].uses = Invocations(seen)
<1> DEFINE k == LastAssistant  t == [transcript[k] EXCEPT !.uses = Invocations(seen)]
<1>1. \A i \in DOMAIN transcript : transcript[i] \in Turns
  BY DEF TabOK
<1>2. transcript' = [transcript EXCEPT ![k] = t]
  BY Zenon DEF TurnOver
<1>3. Invocations(seen) \in SUBSET Ids
  BY DEF Invocations
<1>4. k \in DOMAIN transcript =>
        /\ t \in Turns /\ t.uses = Invocations(seen) /\ t.beat = transcript[k].beat
        /\ t.role = transcript[k].role
  BY <1>1, <1>3, TurnFields
<1> HIDE DEF t
<1>5. /\ transcript' \in Seq(Turns) /\ DOMAIN transcript' = DOMAIN transcript
      /\ \A i \in DOMAIN transcript : transcript'[i] = IF i = k THEN t ELSE transcript[i]
  BY <1>2, <1>4, TurnChanged
<1>6. QED
  BY <1>4, <1>5

LEMMA LastTyped ==
  ASSUME request # <<>>, request \in Seq(Messages)
  PROVE  Last(request) \in Messages /\ Last(request).uses \in SUBSET Ids
<1>1. Len(request) \in 1..Len(request)
  OBVIOUS
<1>2. request[Len(request)] \in Messages
  BY <1>1
<1>3. QED
  BY <1>2 DEF Last, Messages

LEMMA ForcedTyped ==
  ASSUME NEW d
  PROVE  ForcedTool(d) \in {"auto", "persona", "lookup", "tick", "stop"}
BY DEF ForcedTool

-----------------------------------------------------------------------------
\* Each operation keeps the parts it changes.
LEMMA SendTyped ==
  ASSUME RunOK, TabOK, LoopOK, Send
  PROVE  RunOK' /\ TabOK' /\ LoopOK'
<1> DEFINE u == TurnOf("user", TRUE, {}, 0)  a == TurnOf("assistant", FALSE, {}, 0)
<1>1. u \in Turns /\ a \in Turns
  BY RecordsTyped
<1>2. /\ request' = ToAnthropicMessages(History(Append(transcript, u)))
      /\ pc' \in {"asking", "error"}
      /\ transcript' = transcript \o <<u, a>> /\ seen' = <<>>
      /\ UNCHANGED <<turn, calls, joined, drops, beatVars>>
      /\ \E d \in Drafts : forced' = ForcedTool(d)
  BY DEF Send, RunBrainAgent
<1> HIDE DEF u, a
<1>3. Append(transcript, u) \in Seq(Turns) /\ transcript' \in Seq(Turns)
  BY <1>1, <1>2 DEF TabOK
<1>4. request' \in Seq(Messages)
  BY <1>2, <1>3, HistoryTyped, ConversationTyped
<1>5. forced' \in {"auto", "persona", "lookup", "tick", "stop"}
  BY <1>2, ForcedTyped
<1>6. RunOK' /\ TabOK'
  BY <1>2, <1>3, <1>4, <1>5 DEF RunOK, TabOK
<1>7. QED
  BY <1>2, <1>6, PartsKept

LEMMA TurnsTyped ==
  ASSUME TabOK, NEW i \in DOMAIN transcript
  PROVE  /\ transcript[i] \in Turns /\ transcript[i].uses \in SUBSET Ids
         /\ transcript[i].beat \in Beats \union {0} /\ i \in 1..Len(transcript)
<1>1. transcript \in Seq(Turns)
  BY DEF TabOK
<1>2. transcript[i] \in Turns /\ i \in 1..Len(transcript)
  BY <1>1
<1>3. QED
  BY <1>2 DEF Turns

LEMMA ShownBeats == TabOK => BeatsShown \subseteq Beats
BY TurnsTyped DEF BeatsShown

LEMMA ComposerTyped ==
  ASSUME RunOK, TabOK, LoopOK, AppendLocalAssistant \/ Reset
  PROVE  RunOK' /\ TabOK' /\ LoopOK'
<1>1. CASE AppendLocalAssistant
  <2>1. TurnOf("assistant", TRUE, {}, 0) \in Turns
    BY RecordsTyped
  <2>2. /\ transcript' = Append(transcript, TurnOf("assistant", TRUE, {}, 0))
        /\ UNCHANGED <<runVars, seen, joined, drops, beatVars>>
    BY <1>1 DEF AppendLocalAssistant
  <2>3. TabOK'
    <3>1. transcript' \in Seq(Turns)
      BY <2>1, <2>2, AppendProperties DEF TabOK
    <3>2. QED
      BY <2>2, <3>1 DEF TabOK
  <2>4. QED
    BY <2>2, <2>3, PartsKept
<1>2. CASE Reset
  <2>1. BeatsShown \subseteq Beats
    BY ShownBeats
  <2>2. TabOK'
    BY <1>2 DEF Reset, TabOK
  <2>3. LoopOK'
    BY <1>2, <2>1 DEF Reset, LoopOK
  <2>4. QED
    BY <1>2, <2>2, <2>3, PartsKept DEF Reset
<1>3. QED
  BY <1>1, <1>2

LEMMA ResponseTyped ==
  ASSUME RunOK, TabOK, LoopOK, pc = "tools" => request # <<>>,
         AssistantDelta \/ ToolUseStart \/ StreamFails \/ LoopEnds \/ ExecuteTools \/ NextTurn
  PROVE  RunOK' /\ TabOK' /\ LoopOK'
<1>1. CASE AssistantDelta
  <2>1. transcript' \in Seq(Turns)
    BY <1>1, SpokenTurn
  <2>2. TabOK'
    BY <1>1, <2>1 DEF AssistantDelta, TabOK
  <2>3. QED
    BY <1>1, <2>2, PartsKept DEF AssistantDelta
<1>2. CASE ToolUseStart
  <2>1. Len(calls) + 1 \in Ids
    BY <1>2, IdsOfCalls DEF ToolUseStart
  <2>2. /\ Event("start", "brain", Len(calls) + 1, FALSE) \in SeenEvents
        /\ Call("brain", 0, "streamed") \in ToolCalls
    BY <2>1, RecordsTyped
  <2>3. TabOK'
    BY <1>2, <2>2, EmitTyped DEF ToolUseStart, TabOK
  <2>4. calls' \in Seq(ToolCalls) /\ Len(calls') = Len(calls) + 1
    BY <1>2, <2>2 DEF ToolUseStart, RunOK
  <2>5. RunOK'
    BY <1>2, <2>4, ConversationAssumption DEF ToolUseStart, RunOK
  <2>6. QED
    BY <1>2, <2>3, <2>5, PartsKept DEF ToolUseStart
<1>3. CASE StreamFails \/ LoopEnds
  <2>1. calls' \in Seq(ToolCalls) /\ Len(calls') = Len(calls)
    BY <1>3, StreamedTyped DEF StreamFails, LoopEnds, Abandon
  <2>2. RunOK'
    BY <1>3, <2>1 DEF StreamFails, LoopEnds, RunOK
  <2>3. QED
    BY <1>3, <2>2, PartsKept DEF StreamFails, LoopEnds
<1>4. CASE ExecuteTools
  <2>1. calls' \in Seq(ToolCalls) /\ Len(calls') = Len(calls)
    BY <1>4, StreamedTyped DEF ExecuteTools
  <2>2. Streamed \in SUBSET Ids
    BY IdsOfCalls DEF Streamed
  <2>3. Message("assistant", Streamed, {}) \in Messages
    BY <2>2, RecordsTyped
  <2>4. RunOK'
    BY <1>4, <2>1, <2>3 DEF ExecuteTools, RunOK
  <2>5. QED
    BY <1>4, <2>4, PartsKept DEF ExecuteTools
<1>5. CASE NextTurn
  <2>1. Last(request).uses \in SUBSET Ids
    BY <1>5, LastTyped DEF NextTurn, RunOK
  <2>2. Message("user", {}, Last(request).uses) \in Messages
    BY <2>1, RecordsTyped
  <2>3. /\ request' = Append(request, Message("user", {}, Last(request).uses))
        /\ pc' \in {"asking", "error"} /\ forced' = "auto" /\ calls' = calls
        /\ turn' \in 0..MaxTurns
    BY <1>5, ConversationAssumption DEF NextTurn, RunOK
  <2>4. RunOK'
    BY <2>2, <2>3 DEF RunOK
  <2>5. QED
    BY <1>5, <2>4, PartsKept DEF NextTurn
<1>6. QED
  BY <1>1, <1>2, <1>3, <1>4, <1>5

LEMMA CallTyped ==
  ASSUME RunOK, TabOK, LoopOK, NEW id \in DOMAIN calls,
         \/ PersonaDelta(id) \/ PersonaToolStart(id) \/ PersonaToolEnd(id) \/ PersonaReturns(id)
         \/ ListHeartbeats(id) \/ ToolThrows(id) \/ OneShotReturns(id)
         \/ StartHeartbeat(id) \/ HeartbeatReturns(id) \/ StopHeartbeat(id)
  PROVE  RunOK' /\ TabOK' /\ LoopOK'
<1>1. /\ id \in Ids
      /\ Event("end", "persona", id, FALSE) \in SeenEvents
      /\ \A b \in BOOLEAN : Event("end", "brain", id, b) \in SeenEvents
  BY IdsOfCalls, RecordsTyped
<1>2. CASE PersonaToolStart(id)
  <2>1. Len(calls) + 1 \in Ids
    BY <1>2, IdsOfCalls DEF PersonaToolStart
  <2>2. /\ Event("start", "persona", Len(calls) + 1, FALSE) \in SeenEvents
        /\ Call("persona", id, "running") \in ToolCalls
    BY <1>1, <2>1, RecordsTyped
  <2>3. TabOK'
    BY <1>2, <2>2, EmitTyped DEF PersonaToolStart, TabOK
  <2> DEFINE d == [calls EXCEPT ![id].state = "persona"]
  <2>4. d \in Seq(ToolCalls) /\ Len(d) = Len(calls)
    <3>1. calls[id] \in ToolCalls /\ DOMAIN calls = 1..Len(calls)
      BY IdsOfCalls
    <3>2. [calls[id] EXCEPT !.state = "persona"] \in ToolCalls
      BY <3>1 DEF ToolCalls
    <3>3. d = [calls EXCEPT ![id] = [calls[id] EXCEPT !.state = "persona"]]
      BY Zenon
    <3> HIDE DEF d
    <3>4. Len(calls) \in Nat /\ calls \in Seq(ToolCalls)
      BY DEF RunOK
    <3>5. d \in [1..Len(calls) -> ToolCalls]
      BY <3>1, <3>2, <3>3, <3>4
    <3>6. QED
      BY <3>4, <3>5, SeqFromFcn
  <2>5. calls' = Append(d, Call("persona", id, "running"))
    BY <1>2 DEF PersonaToolStart
  <2> HIDE DEF d
  <2>6. calls' \in Seq(ToolCalls) /\ Len(calls') = Len(calls) + 1
    BY <2>2, <2>4, <2>5
  <2>7. RunOK'
    BY <1>2, <2>6, ConversationAssumption DEF PersonaToolStart, RunOK
  <2>8. QED
    BY <1>2, <2>3, <2>7, PartsKept DEF PersonaToolStart
<1>3. CASE PersonaToolEnd(id)
  <2>1. TabOK'
    BY <1>1, <1>3, EmitTyped DEF PersonaToolEnd, TabOK
  <2>2. RunOK'
    BY <1>3, SetCallTyped DEF PersonaToolEnd, SetCall
  <2>3. QED
    BY <1>3, <2>1, <2>2, PartsKept DEF PersonaToolEnd
<1>4. ASSUME NEW b \in BOOLEAN, ToolUseEnd(id, b) PROVE RunOK' /\ TabOK'
  <2>1. TabOK'
    BY <1>1, <1>4, EmitTyped DEF ToolUseEnd, TabOK
  <2>2. RunOK'
    BY <1>4, SetCallTyped DEF ToolUseEnd, SetCall
  <2>3. QED
    BY <2>1, <2>2
<1>5. CASE PersonaReturns(id) \/ ListHeartbeats(id) \/ ToolThrows(id) \/ OneShotReturns(id)
             \/ HeartbeatReturns(id)
  BY <1>4, <1>5, PartsKept
     DEF PersonaReturns, ListHeartbeats, ToolThrows, OneShotReturns, HeartbeatReturns
<1>6. CASE StartHeartbeat(id)
  <2>1. RunOK'
    BY <1>6, SetCallTyped DEF StartHeartbeat, SetCall
  <2>2. LoopOK'
    BY <1>6, ConversationAssumption DEF StartHeartbeat, LoopOK
  <2>3. QED
    BY <1>6, <2>1, <2>2, PartsKept DEF StartHeartbeat
<1>7. CASE StopHeartbeat(id)
  <2>1. LoopOK'
    BY <1>7 DEF StopHeartbeat, LoopOK
  <2>2. QED
    BY <1>4, <1>7, <2>1 DEF StopHeartbeat
<1>8. CASE PersonaDelta(id)
  <2>1. Event("text", "persona", 0, FALSE) \in SeenEvents
    BY RecordsTyped
  <2>2. TabOK'
    BY <1>8, <2>1, EmitTyped DEF PersonaDelta, TabOK
  <2>3. RunOK'
    BY <1>8, SetCallTyped DEF PersonaDelta, SetCall
  <2>4. QED
    BY <1>8, <2>2, <2>3, PartsKept DEF PersonaDelta
<1>9. QED
  BY <1>2, <1>3, <1>5, <1>6, <1>7, <1>8

LEMMA StreamTyped ==
  ASSUME RunOK, TabOK, LoopOK, Join \/ Drop \/ TurnOver
  PROVE  RunOK' /\ TabOK' /\ LoopOK'
<1>1. CASE Join
  BY <1>1, PartsKept DEF Join, TabOK
<1>2. CASE Drop
  <2>1. drops' \in 0..MaxDrops
    BY <1>2, ConversationAssumption DEF Drop, TabOK
  <2>2. QED
    BY <1>2, <2>1, PartsKept DEF Drop, TabOK
<1>3. CASE TurnOver
  <2>3. transcript' \in Seq(Turns)
    BY <1>3, TurnClosed
  <2>4. TabOK'
    BY <1>3, <2>3 DEF TurnOver, TabOK
  <2>5. RunOK'
    BY <1>3, ConversationAssumption DEF TurnOver, RunOK
  <2>6. QED
    BY <1>3, <2>4, <2>5, PartsKept DEF TurnOver
<1>4. QED
  BY <1>1, <1>2, <1>3

LEMMA FeedTyped ==
  ASSUME RunOK, TabOK, LoopOK, OpenFeed \/ Subscribe \/ FeedDrops \/ Tick
  PROVE  RunOK' /\ TabOK' /\ LoopOK'
<1>1. CASE OpenFeed \/ Subscribe
  BY <1>1, PartsKept DEF OpenFeed, Subscribe, LoopOK
<1>2. CASE FeedDrops
  <2>1. TabOK'
    BY <1>2, ConversationAssumption DEF FeedDrops, TabOK
  <2>2. LoopOK'
    BY <1>2 DEF FeedDrops, LoopOK
  <2>3. QED
    BY <1>2, <2>1, <2>2, PartsKept DEF FeedDrops
<1>3. CASE Tick
  <2>1. beats < MaxBeats /\ beats' = beats + 1 /\ beats + 1 \in Beats /\ beats' \in 0..MaxBeats
    BY <1>3, ConversationAssumption DEF Tick, EmitTick, LoopOK, Beats
  <2>2. /\ loop' \in [known : BOOLEAN, running : BOOLEAN, ticks : 0..MaxTicks, stopped : BOOLEAN]
        /\ loop'.running => loop'.ticks < MaxTicks
    <3>1. PICK n \in {loop.ticks, RunOneTick(loop.ticks)} :
            loop' = [loop EXCEPT !.ticks = n, !.running = n < MaxTicks]
      BY <1>3 DEF Tick
    <3>2. loop.ticks \in 0..MaxTicks /\ loop.ticks < MaxTicks
      BY <1>3 DEF Tick, LoopOK
    <3>3. n \in 0..MaxTicks /\ (n < MaxTicks) \in BOOLEAN
      BY <3>1, <3>2, ConversationAssumption DEF RunOneTick
    <3>4. /\ loop' \in [known : BOOLEAN, running : BOOLEAN, ticks : 0..MaxTicks, stopped : BOOLEAN]
          /\ loop'.running = (n < MaxTicks) /\ loop'.ticks = n
      BY <3>1, <3>3, Zenon DEF LoopOK
    <3>5. QED
      BY <3>4
  <2>3. transcript' \in Seq(Turns)
    <3>1. TurnOf("heartbeat", TRUE, {}, beats + 1) \in Turns
      BY <2>1, RecordsTyped
    <3>2. \/ transcript' = transcript
          \/ transcript' = Append(transcript, TurnOf("heartbeat", TRUE, {}, beats + 1))
      BY <1>3 DEF Tick, EmitTick, HeartbeatTurn
    <3>3. transcript \in Seq(Turns)
      BY DEF TabOK
    <3>4. Append(transcript, TurnOf("heartbeat", TRUE, {}, beats + 1)) \in Seq(Turns)
      BY <3>1, <3>3, AppendProperties
    <3>5. QED
      BY <3>2, <3>3, <3>4
  <2>4. TabOK'
    BY <1>3, <2>3 DEF Tick, TabOK
  <2>5. lost' \subseteq Beats /\ feed' \in {feed, "ended"} /\ ended' \in {ended, TRUE}
    BY <1>3, <2>1 DEF Tick, EmitTick, SessionEnded, LoopOK
  <2>6. LoopOK'
    BY <2>1, <2>2, <2>5 DEF LoopOK
  <2>7. QED
    BY <1>3, <2>4, <2>6, PartsKept DEF Tick
<1>4. QED
  BY <1>1, <1>2, <1>3

\* Calls are executed only when a message asked for them.
ChatTypeInv == RunOK /\ TabOK /\ LoopOK /\ (pc = "tools" => request # <<>>)

LEMMA ChatTypeInit == ChatInit => ChatTypeInv
<1> SUFFICES ASSUME ChatInit PROVE ChatTypeInv
  OBVIOUS
<1>1. RunOK
  BY ConversationAssumption DEF ChatInit, RunOK
<1>2. TabOK
  <2>1. transcript \in Seq(Turns) /\ seen \in Seq(SeenEvents) /\ drops \in 0..MaxDrops
    BY ConversationAssumption DEF ChatInit
  <2>2. joined \in BOOLEAN
    BY Zenon DEF ChatInit
  <2>3. QED
    BY <2>1, <2>2 DEF TabOK
<1>3. LoopOK
  <2>1. 0 \in 0..MaxTicks /\ beats \in 0..MaxBeats /\ lost \subseteq Beats
    BY ConversationAssumption DEF ChatInit
  <2>2. loop \in [known : BOOLEAN, running : BOOLEAN, ticks : 0..MaxTicks, stopped : BOOLEAN]
    BY <2>1, Zenon DEF ChatInit
  <2>3. ~loop.running /\ feed = "idle"
    BY DEF ChatInit
  <2>4. ended \in BOOLEAN
    BY Zenon DEF ChatInit
  <2>5. QED
    BY <2>1, <2>2, <2>3, <2>4 DEF LoopOK
<1>4. QED
  BY <1>1, <1>2, <1>3 DEF ChatInit, ChatTypeInv

LEMMA ChatTypeStep == ChatTypeInv /\ [ChatNext]_chatVars => ChatTypeInv'
<1> SUFFICES ASSUME ChatTypeInv, [ChatNext]_chatVars PROVE ChatTypeInv'
  OBVIOUS
<1>1. RunOK /\ TabOK /\ LoopOK /\ (pc = "tools" => request # <<>>)
  BY DEF ChatTypeInv
<1>2. RunOK' /\ TabOK' /\ LoopOK'
  <2>1. CASE UNCHANGED chatVars
    BY <1>1, <2>1, PartsKept DEF chatVars
  <2>2. CASE ChatNext
    BY <1>1, <2>2, SendTyped, ComposerTyped, ResponseTyped, CallTyped, StreamTyped, FeedTyped
       DEF ChatNext
  <2>3. QED
    BY <2>1, <2>2
<1>3. pc' = "tools" => request' # <<>>
  <2>1. CASE UNCHANGED <<pc, request>>
    BY <1>1, <2>1
  <2>2. CASE ExecuteTools
    <3>1. request' = Append(request, Message("assistant", Streamed, {})) /\ request \in Seq(Messages)
      BY <1>1, <2>2 DEF ExecuteTools, RunOK
    <3>2. QED
      BY <3>1
  <2>3. CASE pc' # "tools"
    BY <2>3
  <2>4. QED
    BY <2>1, <2>2, <2>3
       DEF ChatNext, Send, RunBrainAgent, AppendLocalAssistant, Reset, AssistantDelta, ToolUseStart,
           StreamFails, LoopEnds, NextTurn, PersonaDelta, PersonaToolStart, PersonaToolEnd, PersonaReturns,
           ListHeartbeats, ToolThrows, OneShotReturns, StartHeartbeat, HeartbeatReturns,
           StopHeartbeat, ToolUseEnd, Join, Drop, TurnOver, OpenFeed, Subscribe, FeedDrops, Tick,
           chatVars, runVars
<1>4. QED
  BY <1>2, <1>3 DEF ChatTypeInv

\* Every variable of the chat, its run and its feed keeps its type.
THEOREM ChatTypeCorrect == ChatSpec => []ChatTypeOK
<1>1. ChatTypeInv => ChatTypeOK
  BY TypeParts DEF ChatTypeInv
<1>2. QED
  BY <1>1, ChatTypeInit, ChatTypeStep, PTL DEF ChatSpec

-----------------------------------------------------------------------------
\* What a step that is not the feed's or the heartbeat's leaves of them; and
\* where events that report a loop in the background come from.
LoopStarts == \E id \in DOMAIN calls : StartHeartbeat(id)
LoopStops  == \E id \in DOMAIN calls : StopHeartbeat(id)

LEMMA LoopKept ==
  ASSUME [ChatNext]_chatVars
  PROVE  \/ LoopStarts \/ LoopStops \/ Reset \/ OpenFeed \/ Subscribe \/ FeedDrops \/ Tick
         \/ UNCHANGED beatVars
BY DEF ChatNext, Send, RunBrainAgent, AppendLocalAssistant, AssistantDelta, ToolUseStart,
       StreamFails, LoopEnds, ExecuteTools, NextTurn, PersonaDelta, PersonaToolStart, PersonaToolEnd,
       PersonaReturns, ListHeartbeats, ToolThrows, OneShotReturns, HeartbeatReturns,
       Join, Drop, TurnOver, chatVars, LoopStarts, LoopStops

\* A feed that is open, and an event that reports a loop, come after its start;
\* a loop that ended without being stopped has told the feed or nobody.
FeedInv ==
  /\ ended => feed \in {"idle", "ended"}
  /\ feed \in {"opening", "hooked"} => loop.known
  /\ loop.known /\ ~loop.running /\ ~loop.stopped => beats \in lost \/ ended
  /\ \A i \in DOMAIN seen : seen[i].background => loop.known
  /\ \A id \in DOMAIN calls : calls[id].state = "looping" => loop.known

LEMMA EmittedEvent ==
  ASSUME TabOK, NEW ev \in SeenEvents, Emit(ev), NEW i \in DOMAIN seen'
  PROVE  (i \in DOMAIN seen /\ seen'[i] = seen[i]) \/ seen'[i] = ev
<1>1. seen \in Seq(SeenEvents)
  BY DEF TabOK
<1>2. CASE seen' = Append(seen, ev)
  BY <1>1, <1>2, AppendProperties
<1>3. CASE seen' = seen
  BY <1>3
<1>4. QED
  BY <1>2, <1>3 DEF Emit

\* Loops are started by calls that are executed, and stay in the session store.
LEMMA LoopingKept ==
  ASSUME RunOK, LoopOK, [ChatNext]_chatVars, NEW i \in DOMAIN calls', calls'[i].state = "looping"
  PROVE  (i \in DOMAIN calls /\ calls[i].state = "looping") \/ loop'.known
<1>1. calls \in Seq(ToolCalls) /\ Len(calls) \in Nat /\ DOMAIN calls = 1..Len(calls)
      /\ \A k \in DOMAIN calls : calls[k] \in ToolCalls
  BY IdsOfCalls DEF RunOK
<1>2. ASSUME NEW id, NEW s, s # "looping", SetCall(id, s)
      PROVE  i \in DOMAIN calls /\ calls[i].state = "looping"
  BY <1>1, <1>2 DEF SetCall, ToolCalls
<1>3. CASE calls' = calls
  BY <1>3
<1>4. CASE ToolUseStart
  <2>1. calls' = Append(calls, Call("brain", 0, "streamed"))
    BY <1>4 DEF ToolUseStart
  <2>2. QED
    BY <1>1, <2>1, FieldsOf
<1>5. CASE StreamFails \/ LoopEnds \/ ExecuteTools
  BY <1>1, <1>5 DEF StreamFails, LoopEnds, ExecuteTools, Abandon, ToolCalls
<1>6. CASE \E id \in DOMAIN calls : PersonaToolStart(id)
  <2>1. PICK id \in DOMAIN calls :
          calls' = Append([calls EXCEPT ![id].state = "persona"], Call("persona", id, "running"))
    BY <1>6 DEF PersonaToolStart
  <2> DEFINE d == [calls EXCEPT ![id].state = "persona"]
  <2>2. d \in [1..Len(calls) -> ToolCalls] /\ d[id].state = "persona"
        /\ \A k \in DOMAIN calls : k # id => d[k] = calls[k]
    <3>1. [calls[id] EXCEPT !.state = "persona"] \in ToolCalls
      BY <1>1 DEF ToolCalls
    <3>2. d = [calls EXCEPT ![id] = [calls[id] EXCEPT !.state = "persona"]]
      BY Zenon
    <3>3. d[id] = [calls[id] EXCEPT !.state = "persona"]
      BY <3>2, <1>1
    <3>4. d[id].state = "persona"
      BY <1>1, <3>3 DEF ToolCalls
    <3> HIDE DEF d
    <3>5. QED
      BY <1>1, <3>1, <3>2, <3>4
  <2> HIDE DEF d
  <2>3. d \in Seq(ToolCalls) /\ Len(d) = Len(calls)
    BY <1>1, <2>2, SeqFromFcn
  <2>4. calls' = Append(d, Call("persona", id, "running"))
    BY <2>1 DEF d
  <2>5. QED
    BY <1>1, <2>2, <2>3, <2>4, FieldsOf
<1>7. CASE LoopStarts
  BY <1>7 DEF LoopStarts, StartHeartbeat
<1>8. QED
  BY <1>2, <1>3, <1>4, <1>5, <1>6, <1>7
     DEF ChatNext, Send, AppendLocalAssistant, Reset, AssistantDelta, NextTurn, PersonaDelta, PersonaToolEnd,
         PersonaReturns, ListHeartbeats, ToolThrows, OneShotReturns, HeartbeatReturns,
         StopHeartbeat, ToolUseEnd, Join, Drop, TurnOver, OpenFeed, Subscribe, FeedDrops, Tick,
         chatVars, runVars, LoopStarts

\* Only a loop that is in the session store is reported as one.
LEMMA ReportsKept ==
  ASSUME ChatTypeInv, FeedInv, [ChatNext]_chatVars, NEW i \in DOMAIN seen', seen'[i].background
  PROVE  loop.known
<1>1. RunOK /\ TabOK /\ LoopOK
  BY DEF ChatTypeInv
<1>2. CASE i \in DOMAIN seen /\ seen'[i] = seen[i]
  BY <1>2 DEF FeedInv
<1>3. ASSUME NEW w \in {"text", "start", "end"}, NEW a \in {"brain", "persona"},
             NEW k \in Ids \union {0}, Emit(Event(w, a, k, FALSE))
      PROVE  loop.known
  <2>1. ~Event(w, a, k, FALSE).background /\ Event(w, a, k, FALSE) \in SeenEvents
    <3>1. ~Event(w, a, k, FALSE).background
      BY SMT DEF Event
    <3>2. Event(w, a, k, FALSE) \in SeenEvents
      BY RecordsTyped
    <3>3. QED
      BY <3>1, <3>2
  <2>2. i \in DOMAIN seen /\ seen'[i] = seen[i]
    BY <1>1, <1>3, <2>1, EmittedEvent
  <2>3. QED
    BY <1>2, <2>2
<1>4. CASE seen' = <<>> \/ seen' = seen
  BY <1>2, <1>4
<1>5. CASE \E id \in DOMAIN calls : HeartbeatReturns(id)
  BY <1>5 DEF HeartbeatReturns, FeedInv
<1>6. CASE ToolUseStart
  BY <1>1, <1>3, <1>6, IdsOfCalls DEF ToolUseStart
<1>7. CASE \E id \in DOMAIN calls : PersonaToolStart(id)
  BY <1>1, <1>3, <1>7, IdsOfCalls DEF PersonaToolStart
<1>8. ASSUME NEW id \in DOMAIN calls,
             PersonaToolEnd(id) \/ ToolUseEnd(id, FALSE)
      PROVE  loop.known
  BY <1>1, <1>3, <1>8, IdsOfCalls DEF PersonaToolEnd, ToolUseEnd
<1>9. CASE \E id \in DOMAIN calls : PersonaDelta(id)
  BY <1>3, <1>9 DEF PersonaDelta
<1>10. CASE \E id \in DOMAIN calls : ToolUseEnd(id, FALSE) \/ PersonaToolEnd(id)
  BY <1>8, <1>10
<1>11. QED
  BY <1>4, <1>5, <1>6, <1>7, <1>9, <1>10
     DEF ChatNext, Send, AppendLocalAssistant, Reset, AssistantDelta, StreamFails, LoopEnds,
         ExecuteTools, NextTurn, PersonaReturns, ListHeartbeats, ToolThrows, OneShotReturns, StartHeartbeat,
         StopHeartbeat, Join, Drop, TurnOver, OpenFeed, Subscribe, FeedDrops, Tick,
         chatVars, tabVars

LEMMA KnownStays ==
  ASSUME LoopOK, [ChatNext]_chatVars
  PROVE  loop.known => loop'.known
<1>1. CASE loop' = loop
  BY <1>1
<1>2. CASE LoopStarts
  BY <1>2 DEF LoopStarts, StartHeartbeat
<1>3. CASE LoopStops \/ Tick
  BY <1>3 DEF LoopStops, StopHeartbeat, Tick, LoopOK
<1>4. QED
  BY <1>1, <1>2, <1>3, LoopKept DEF beatVars, Reset, OpenFeed, Subscribe, FeedDrops

\* The last tick of a loop is heard by the feed, or is lost.
LEMMA LastTickHeard ==
  ASSUME ChatTypeInv, FeedInv, [ChatNext]_chatVars
  PROVE  /\ ended' => feed' \in {"idle", "ended"}
         /\ feed' \in {"opening", "hooked"} => loop'.known
         /\ loop'.known /\ ~loop'.running /\ ~loop'.stopped => beats' \in lost' \/ ended'
<1>1. LoopOK /\ (loop.known => loop'.known)
  BY KnownStays DEF ChatTypeInv
<1>2. CASE UNCHANGED beatVars
  BY <1>2 DEF FeedInv, beatVars
<1>3. CASE LoopStarts
  BY <1>3 DEF FeedInv, LoopStarts, StartHeartbeat
<1>4. CASE LoopStops
  <2>1. loop' = [loop EXCEPT !.running = FALSE, !.stopped = TRUE] /\ UNCHANGED <<beats, lost, feed, ended>>
    BY <1>4 DEF LoopStops, StopHeartbeat
  <2>2. loop'.stopped
    BY <1>1, <2>1 DEF LoopOK
  <2>3. QED
    BY <1>1, <2>1, <2>2 DEF FeedInv
<1>5. CASE Reset
  BY <1>5 DEF Reset, FeedInv
<1>6. CASE OpenFeed
  BY <1>6 DEF OpenFeed, ActiveHeartbeatToken, FeedInv
<1>7. CASE Subscribe \/ FeedDrops
  BY <1>7 DEF Subscribe, FeedDrops, FeedInv
<1>8. CASE Tick
  <2>1. CASE feed = "hooked"
    <3>1. SessionEnded(loop'.running)
      BY <1>8, <2>1 DEF Tick, EmitTick
    <3>2. CASE loop'.running
      BY <1>1, <2>1, <3>1, <3>2 DEF SessionEnded, FeedInv
    <3>3. CASE ~loop'.running
      BY <3>1, <3>3 DEF SessionEnded
    <3>4. QED
      BY <3>2, <3>3
  <2>2. CASE feed # "hooked"
    <3>1. feed' = feed /\ ended' = ended /\ beats' = beats + 1 /\ lost' = lost \union {beats + 1}
      BY <1>8, <2>2 DEF Tick, EmitTick
    <3>2. QED
      BY <1>1, <3>1 DEF FeedInv
  <2>3. QED
    BY <2>1, <2>2
<1>9. QED
  BY <1>2, <1>3, <1>4, <1>5, <1>6, <1>7, <1>8, LoopKept

LEMMA FeedStep == ChatTypeInv /\ FeedInv /\ [ChatNext]_chatVars => FeedInv'
<1> SUFFICES ASSUME ChatTypeInv, FeedInv, [ChatNext]_chatVars PROVE FeedInv'
  OBVIOUS
<1>1. RunOK /\ LoopOK /\ (loop.known => loop'.known)
  BY KnownStays DEF ChatTypeInv
<1>2. ASSUME NEW i \in DOMAIN seen', seen'[i].background PROVE loop'.known
  BY <1>1, <1>2, ReportsKept
<1>3. ASSUME NEW i \in DOMAIN calls', calls'[i].state = "looping" PROVE loop'.known
  BY <1>1, <1>3, LoopingKept DEF FeedInv
<1>4. QED
  BY <1>2, <1>3, LastTickHeard DEF FeedInv

\* A feed that listens behind a loop that has ended has a reason to: the loop was
\* stopped, which the bus never learns of, or the last tick was not heard.
THEOREM FeedClosesBehindTheLoop == ChatSpec => []OpenFeedHasReason
<1>1. ChatInit => FeedInv
  BY DEF ChatInit, FeedInv
<1>2. ChatTypeInv /\ FeedInv => OpenFeedHasReason
  <2>1. CASE feed = "hooked" /\ ~loop.running
    BY <2>1 DEF FeedInv, OpenFeedHasReason
  <2>2. QED
    BY <2>1 DEF OpenFeedHasReason
<1>3. QED
  BY <1>1, <1>2, ChatTypeInit, ChatTypeStep, FeedStep, PTL DEF ChatSpec

-----------------------------------------------------------------------------
\* Tick cards are put behind what is shown, and only cards of ticks carry one; the
\* turn that a terminal status fills in exists, and is not a card.
CardsInv ==
  /\ FeedComplete
  /\ lost \subseteq 1..beats
  /\ \A i \in DOMAIN transcript : transcript[i].role = "assistant" => transcript[i].beat = 0
  /\ pc # "idle" => \E i \in DOMAIN transcript : transcript[i].role = "assistant"

LEMMA AssistantExists ==
  ASSUME TabOK, \E i \in DOMAIN transcript : transcript[i].role = "assistant"
  PROVE  /\ LastAssistant \in DOMAIN transcript
         /\ transcript[LastAssistant].role = "assistant"
         /\ \A j \in DOMAIN transcript : transcript[j].role = "assistant" => j <= LastAssistant
<1> DEFINE s == {i \in DOMAIN transcript : transcript[i].role = "assistant"}
<1>1. Len(transcript) \in Nat /\ DOMAIN transcript = 1..Len(transcript)
  BY LenProperties DEF TabOK
<1>2. s \in SUBSET (1..Len(transcript)) /\ s # {}
  BY <1>1
<1> HIDE DEF s
<1>3. Top(s) \in s /\ \A y \in s : Top(s) >= y
  BY <1>1, <1>2, TopIn
<1>4. /\ Top(s) \in DOMAIN transcript /\ transcript[Top(s)].role = "assistant"
      /\ \A j \in DOMAIN transcript : transcript[j].role = "assistant" => j <= Top(s)
  BY <1>1, <1>3 DEF s
<1>5. QED
  BY <1>4, Zenon DEF LastAssistant

\* A turn without a card changes nothing of what the feed has shown.
LEMMA CardsSame ==
  ASSUME CardsInv, UNCHANGED <<beats, lost>>,
         NEW n \in Nat, NEW k \in Nat, n <= k,
         DOMAIN transcript = 1..n, DOMAIN transcript' = 1..k,
         \A i \in 1..n : transcript'[i].beat = transcript[i].beat,
         \A i \in 1..k : i > n => transcript'[i].beat = 0,
         \A i \in 1..n : transcript'[i].role = "assistant" => transcript[i].role = "assistant",
         pc' # "idle" => \E i \in DOMAIN transcript' : transcript'[i].role = "assistant"
  PROVE  CardsInv'
<1>1. BeatsShown' = BeatsShown
  BY DEF BeatsShown
<1>2. \A i, j \in 1..k : i < j /\ transcript'[i].beat # 0 /\ transcript'[j].beat # 0 =>
        i \in 1..n /\ j \in 1..n
  OBVIOUS
<1>3. FeedComplete'
  BY <1>1, <1>2 DEF CardsInv, FeedComplete
<1>4. \A i \in 1..k : transcript'[i].role = "assistant" => transcript'[i].beat = 0
  BY DEF CardsInv
<1>5. QED
  BY <1>3, <1>4 DEF CardsInv

LEMMA TurnsAppended ==
  ASSUME NEW q \in Seq(Turns), NEW t \in Turns
  PROVE  /\ Append(q, t) \in Seq(Turns) /\ DOMAIN Append(q, t) = 1..(Len(q) + 1)
         /\ DOMAIN q = 1..Len(q) /\ Len(q) \in Nat
         /\ Append(q, t)[Len(q) + 1] = t /\ \A i \in 1..Len(q) : Append(q, t)[i] = q[i]
OBVIOUS

LEMMA CardsStep == ChatTypeInv /\ CardsInv /\ [ChatNext]_chatVars => CardsInv'
<1> SUFFICES ASSUME ChatTypeInv, CardsInv, [ChatNext]_chatVars PROVE CardsInv'
  OBVIOUS
<1>1. RunOK /\ TabOK /\ LoopOK
  BY DEF ChatTypeInv
<1>2. PICK n \in Nat : n = Len(transcript) /\ DOMAIN transcript = 1..n
  BY <1>1, LenProperties DEF TabOK
<1>3. CASE UNCHANGED <<transcript, beats, lost>> /\ (pc' # "idle" => pc # "idle")
  BY <1>3 DEF CardsInv, FeedComplete, BeatsShown
<1>4. CASE Send
  <2> DEFINE u == TurnOf("user", TRUE, {}, 0)  a == TurnOf("assistant", FALSE, {}, 0)
  <2>1. u \in Turns /\ a \in Turns /\ u.beat = 0 /\ a.beat = 0 /\ a.role = "assistant"
    BY RecordsTyped DEF TurnOf
  <2>2. transcript' = transcript \o <<u, a>> /\ UNCHANGED <<beats, lost>>
    BY <1>4 DEF Send, beatVars
  <2> HIDE DEF u, a
  <2>3. /\ DOMAIN transcript' = 1..(n + 2) /\ transcript'[n + 1] = u /\ transcript'[n + 2] = a
        /\ \A i \in 1..n : transcript'[i] = transcript[i]
    <3>1. transcript \in Seq(Turns) /\ <<u, a>> \in Seq(Turns)
      BY <1>1, <2>1 DEF TabOK
    <3>2. QED
      BY <1>2, <2>2, <3>1
  <2>4. \A i \in 1..(n + 2) : i > n => transcript'[i].beat = 0
    BY <2>1, <2>3
  <2>5. \E i \in DOMAIN transcript' : transcript'[i].role = "assistant"
    BY <2>1, <2>3
  <2>6. /\ n + 2 \in Nat /\ n <= n + 2
        /\ \A i \in 1..n : transcript'[i].beat = transcript[i].beat
        /\ \A i \in 1..n : transcript'[i].role = "assistant" => transcript[i].role = "assistant"
    BY <2>3
  <2>7. QED
    BY <1>2, <2>2, <2>3, <2>4, <2>5, <2>6, CardsSame
<1>5. CASE AppendLocalAssistant
  <2>1. TurnOf("assistant", TRUE, {}, 0) \in Turns /\ TurnOf("assistant", TRUE, {}, 0).beat = 0
    BY RecordsTyped DEF TurnOf
  <2>2. /\ transcript' = Append(transcript, TurnOf("assistant", TRUE, {}, 0)) /\ pc' = "idle"
        /\ UNCHANGED <<beats, lost>>
    BY <1>5 DEF AppendLocalAssistant, CanSubmit, runVars, beatVars
  <2>3. /\ DOMAIN transcript' = 1..(n + 1) /\ transcript'[n + 1].beat = 0
        /\ \A i \in 1..n : transcript'[i] = transcript[i]
    BY <1>1, <1>2, <2>1, <2>2, TurnsAppended DEF TabOK
  <2>4. \A i \in 1..(n + 1) : i > n => transcript'[i].beat = 0
    BY <2>3
  <2>5. /\ n + 1 \in Nat /\ n <= n + 1
        /\ \A i \in 1..n : transcript'[i].beat = transcript[i].beat
        /\ \A i \in 1..n : transcript'[i].role = "assistant" => transcript[i].role = "assistant"
    BY <2>3
  <2>6. QED
    BY <1>2, <2>2, <2>3, <2>4, <2>5, CardsSame
<1>6. CASE Reset
  <2>1. transcript' = <<>> /\ pc' = "idle" /\ beats' = beats /\ lost' = lost \union BeatsShown
    BY <1>6 DEF Reset, CanSubmit, runVars
  <2>2. lost' = 1..beats
    BY <2>1 DEF CardsInv, FeedComplete
  <2>3. DOMAIN transcript' = {} /\ BeatsShown' = {}
    BY <2>1 DEF BeatsShown
  <2>4. QED
    BY <2>1, <2>2, <2>3 DEF CardsInv, FeedComplete
<1>7. CASE TurnOver \/ AssistantDelta
  <2>1. UNCHANGED <<beats, lost>> /\ (pc' # "idle" => pc # "idle")
    BY <1>7 DEF TurnOver, AssistantDelta, runVars, beatVars
  <2>2. /\ DOMAIN transcript' = 1..n
        /\ \A i \in 1..n : /\ transcript'[i].beat = transcript[i].beat
                           /\ transcript'[i].role = transcript[i].role
    BY <1>1, <1>2, <1>7, TurnClosed, SpokenTurn
  <2>3. pc' # "idle" => \E i \in DOMAIN transcript' : transcript'[i].role = "assistant"
    BY <1>2, <2>1, <2>2 DEF CardsInv
  <2>4. n <= n /\ DOMAIN transcript = 1..n /\ \A i \in 1..n : i > n => transcript'[i].beat = 0
    BY <1>2
  <2>5. QED
    BY <1>2, <2>1, <2>2, <2>3, <2>4, CardsSame
<1>8. CASE Tick
  <2>1. beats' = beats + 1 /\ beats + 1 \in Beats /\ pc' = pc /\ beats \in Nat
    BY <1>1, <1>8, ConversationAssumption DEF Tick, EmitTick, LoopOK, Beats, runVars
  <2>2. beats + 1 \notin lost /\ BeatsShown = (1..beats) \ lost
    BY <2>1 DEF CardsInv, FeedComplete
  <2>3. CASE feed = "hooked"
    <3> DEFINE c == TurnOf("heartbeat", TRUE, {}, beats + 1)
    <3>1. c \in Turns /\ c.beat = beats + 1 /\ c.role = "heartbeat"
      BY <2>1, RecordsTyped DEF TurnOf
    <3>2. transcript' = Append(transcript, c) /\ lost' = lost
      BY <1>8, <2>3 DEF Tick, EmitTick, HeartbeatTurn
    <3> HIDE DEF c
    <3>3. /\ DOMAIN transcript' = 1..(n + 1) /\ transcript'[n + 1] = c
          /\ \A i \in 1..n : transcript'[i] = transcript[i]
      BY <1>1, <1>2, <3>1, <3>2, TurnsAppended DEF TabOK
    <3>4. BeatsShown' = BeatsShown \union {beats + 1}
      <4>1. {transcript'[i].beat : i \in 1..(n + 1)} =
              {transcript[i].beat : i \in 1..n} \union {c.beat}
        BY <3>3
      <4>2. BeatsShown' = {transcript'[i].beat : i \in 1..(n + 1)} \ {0}
            /\ BeatsShown = {transcript[i].beat : i \in 1..n} \ {0}
        BY <1>2, <3>3 DEF BeatsShown
      <4>3. QED
        <5>1. ({transcript[i].beat : i \in 1..n} \union {c.beat}) \ {0} =
                ({transcript[i].beat : i \in 1..n} \ {0}) \union {beats + 1}
          BY <2>1, <3>1
        <5>2. QED
          BY <4>1, <4>2, <5>1, Zenon
    <3>5. BeatsShown' = (1..beats') \ lost' /\ lost' \subseteq 1..beats'
      BY <2>1, <2>2, <3>2, <3>4 DEF CardsInv
    <3>6. ASSUME NEW i \in 1..(n + 1), NEW j \in 1..(n + 1), i < j,
                 transcript'[i].beat # 0, transcript'[j].beat # 0
          PROVE  transcript'[i].beat < transcript'[j].beat
      <4>1. i \in 1..n /\ transcript'[i] = transcript[i]
        BY <3>3, <3>6
      <4>2. CASE j \in 1..n
        BY <1>2, <3>3, <3>6, <4>1, <4>2 DEF CardsInv, FeedComplete
      <4>3. CASE j = n + 1
        <5>1. transcript[i].beat \in BeatsShown
          BY <1>2, <3>6, <4>1 DEF BeatsShown
        <5>2. QED
          BY <2>1, <2>2, <3>1, <3>3, <4>1, <4>3, <5>1
      <4>4. QED
        BY <4>2, <4>3
    <3>7. \A i \in 1..(n + 1) : transcript'[i].role = "assistant" => transcript'[i].beat = 0
      BY <1>2, <3>1, <3>3 DEF CardsInv
    <3>8. pc' # "idle" => \E i \in DOMAIN transcript' : transcript'[i].role = "assistant"
      BY <1>2, <2>1, <3>3 DEF CardsInv
    <3>9. QED
      BY <3>3, <3>5, <3>6, <3>7, <3>8 DEF CardsInv, FeedComplete
  <2>4. CASE feed # "hooked"
    <3>1. transcript' = transcript /\ lost' = lost \union {beats + 1}
      BY <1>8, <2>4 DEF Tick, EmitTick
    <3>2. BeatsShown' = (1..beats') \ lost' /\ lost' \subseteq 1..beats'
      BY <2>1, <2>2, <3>1 DEF CardsInv, BeatsShown
    <3>3. QED
      BY <2>1, <3>1, <3>2 DEF CardsInv, FeedComplete
  <2>5. QED
    BY <2>3, <2>4
<1>9. QED
  BY <1>3, <1>4, <1>5, <1>6, <1>7, <1>8
     DEF ChatNext, ToolUseStart, StreamFails, LoopEnds, ExecuteTools, NextTurn,
         PersonaDelta, PersonaToolStart, PersonaToolEnd, PersonaReturns, ListHeartbeats, ToolThrows,
         OneShotReturns, StartHeartbeat, HeartbeatReturns, StopHeartbeat, ToolUseEnd, Executes,
         Join, Drop, OpenFeed, Subscribe, FeedDrops, chatVars, runVars, tabVars, beatVars

\* The chat shows every tick that was emitted while its feed listened and that was
\* not reset, once and in the order of the ticks.
THEOREM ChatShowsEveryTick == ChatSpec => []FeedComplete
<1>1. ChatInit => CardsInv
  BY DEF ChatInit, CardsInv, FeedComplete, BeatsShown
<1>2. CardsInv => FeedComplete
  BY DEF CardsInv
<1>3. QED
  BY <1>1, <1>2, ChatTypeInit, ChatTypeStep, CardsStep, PTL DEF ChatSpec

-----------------------------------------------------------------------------
\* What a step does to the calls: they keep whose they are, and their states go on.
Kept(i) ==
  /\ i \in DOMAIN calls'
  /\ calls'[i].agent = calls[i].agent /\ calls'[i].under = calls[i].under
  /\ calls[i].state = "over" => calls'[i].state = "over"
  /\ calls[i].state # "streamed" => calls'[i].state # "streamed"

LEMMA SetCallEffect ==
  ASSUME RunOK, NEW id \in DOMAIN calls, NEW s, SetCall(id, s)
  PROVE  /\ DOMAIN calls' = DOMAIN calls
         /\ calls'[id].state = s /\ calls'[id].agent = calls[id].agent
         /\ calls'[id].under = calls[id].under
         /\ \A k \in DOMAIN calls : k # id => calls'[k] = calls[k]
<1>1. calls[id] \in ToolCalls
  BY IdsOfCalls
<1>2. calls' = [calls EXCEPT ![id] = [calls[id] EXCEPT !.state = s]]
  BY DEF SetCall
<1>3. calls'[id] = [calls[id] EXCEPT !.state = s] /\ DOMAIN calls' = DOMAIN calls
      /\ \A k \in DOMAIN calls : k # id => calls'[k] = calls[k]
  BY <1>2
<1>4. QED
  BY <1>1, <1>3 DEF ToolCalls

LEMMA StreamedEffect ==
  ASSUME RunOK, NEW s,
         calls' = [id \in DOMAIN calls |->
                     IF id \in Streamed THEN [calls[id] EXCEPT !.state = s] ELSE calls[id]]
  PROVE  /\ DOMAIN calls' = DOMAIN calls
         /\ \A id \in DOMAIN calls :
              /\ calls'[id].agent = calls[id].agent /\ calls'[id].under = calls[id].under
              /\ id \in Streamed => calls'[id].state = s
              /\ id \notin Streamed => calls'[id] = calls[id]
<1>1. ASSUME NEW id \in DOMAIN calls
      PROVE  /\ calls'[id].agent = calls[id].agent /\ calls'[id].under = calls[id].under
             /\ id \in Streamed => calls'[id].state = s
             /\ id \notin Streamed => calls'[id] = calls[id]
  <2>1. calls[id] \in ToolCalls
    BY IdsOfCalls
  <2>2. calls'[id] = IF id \in Streamed THEN [calls[id] EXCEPT !.state = s] ELSE calls[id]
    OBVIOUS
  <2>3. [calls[id] EXCEPT !.state = s].state = s
        /\ [calls[id] EXCEPT !.state = s].agent = calls[id].agent
        /\ [calls[id] EXCEPT !.state = s].under = calls[id].under
    BY <2>1 DEF ToolCalls
  <2>4. QED
    BY <2>2, <2>3
<1>2. QED
  BY <1>1

LEMMA PersonaStartEffect ==
  ASSUME RunOK, NEW id \in DOMAIN calls, PersonaToolStart(id)
  PROVE  /\ DOMAIN calls' = 1..(Len(calls) + 1)
         /\ calls'[Len(calls) + 1] = Call("persona", id, "running")
         /\ calls'[id].state = "persona" /\ calls'[id].agent = calls[id].agent
         /\ calls'[id].under = calls[id].under
         /\ \A k \in DOMAIN calls : k # id => calls'[k] = calls[k]
<1>1. calls[id] \in ToolCalls /\ DOMAIN calls = 1..Len(calls) /\ Len(calls) \in Nat
      /\ calls \in [1..Len(calls) -> ToolCalls]
  BY IdsOfCalls DEF RunOK
<1> DEFINE c == [calls[id] EXCEPT !.state = "persona"]
           d == [calls EXCEPT ![id] = c]
<1>2. c \in ToolCalls /\ c.state = "persona" /\ c.agent = calls[id].agent /\ c.under = calls[id].under
  BY <1>1 DEF ToolCalls
<1>3. calls' = Append(d, Call("persona", id, "running"))
  BY Zenon DEF PersonaToolStart
<1> HIDE DEF c
<1>4. d \in [1..Len(calls) -> ToolCalls] /\ d[id] = c /\ \A k \in DOMAIN calls : k # id => d[k] = calls[k]
  BY <1>1, <1>2
<1> HIDE DEF d
<1>5. d \in Seq(ToolCalls) /\ Len(d) = Len(calls)
  BY <1>1, <1>4, SeqFromFcn
<1> DEFINE e == Call("persona", id, "running")
<1> HIDE DEF e
<1>6. /\ DOMAIN Append(d, e) = 1..(Len(calls) + 1) /\ Append(d, e)[Len(calls) + 1] = e
      /\ \A k \in 1..Len(calls) : Append(d, e)[k] = d[k]
  BY <1>1, <1>5
<1>7. QED
  BY <1>1, <1>2, <1>3, <1>4, <1>6 DEF e

LEMMA StartEffect ==
  ASSUME RunOK, ToolUseStart
  PROVE  /\ DOMAIN calls' = 1..(Len(calls) + 1)
         /\ calls'[Len(calls) + 1] = Call("brain", 0, "streamed")
         /\ \A k \in DOMAIN calls : calls'[k] = calls[k]
<1>1. calls \in Seq(ToolCalls) /\ calls' = Append(calls, Call("brain", 0, "streamed"))
  BY DEF RunOK, ToolUseStart
<1>2. QED
  BY <1>1

LEMMA CallsKept ==
  ASSUME RunOK, [ChatNext]_chatVars
  PROVE  /\ \A i \in DOMAIN calls : Kept(i)
         /\ \A i \in DOMAIN calls' : i \in DOMAIN calls \/ i = Len(calls) + 1
<1>1. DOMAIN calls = 1..Len(calls)
  BY IdsOfCalls
<1>2. CASE calls' = calls
  BY <1>2 DEF Kept
<1>3. ASSUME NEW id \in DOMAIN calls, NEW s \in {"persona", "looping", "over"}, SetCall(id, s),
             calls[id].state = "over" => s = "over"
      PROVE  DOMAIN calls' = DOMAIN calls /\ \A i \in DOMAIN calls : Kept(i)
  <2>1. /\ DOMAIN calls' = DOMAIN calls
        /\ calls'[id].state = s /\ calls'[id].agent = calls[id].agent
        /\ calls'[id].under = calls[id].under
        /\ \A k \in DOMAIN calls : k # id => calls'[k] = calls[k]
    BY <1>3, SetCallEffect
  <2>2. s # "streamed"
    OBVIOUS
  <2>3. QED
    BY <1>3, <2>1, <2>2 DEF Kept
<1>4. CASE StreamFails \/ LoopEnds \/ ExecuteTools
  <2>1. PICK s \in {"over", "running"} :
          calls' = [id \in DOMAIN calls |->
                      IF id \in Streamed THEN [calls[id] EXCEPT !.state = s] ELSE calls[id]]
    BY <1>4 DEF StreamFails, LoopEnds, ExecuteTools, Abandon
  <2>2. /\ DOMAIN calls' = DOMAIN calls
        /\ \A id \in DOMAIN calls :
             /\ calls'[id].agent = calls[id].agent /\ calls'[id].under = calls[id].under
             /\ id \in Streamed => calls'[id].state = s
             /\ id \notin Streamed => calls'[id] = calls[id]
    BY <2>1, StreamedEffect
  <2>3. \A id \in Streamed : calls[id].state = "streamed"
    BY DEF Streamed
  <2>4. QED
    BY <2>2, <2>3 DEF Kept
<1>5. CASE ToolUseStart
  BY <1>1, <1>5, StartEffect DEF Kept, RunOK
<1>6. CASE \E id \in DOMAIN calls : PersonaToolStart(id)
  <2>1. PICK id \in DOMAIN calls : PersonaToolStart(id)
    BY <1>6
  <2>2. calls[id].state \in {"running", "persona"} /\ Len(calls) \in Nat
    BY <2>1 DEF PersonaToolStart, RunOK
  <2>3. QED
    BY <1>1, <2>1, <2>2, PersonaStartEffect DEF Kept
<1>7. CASE \E id \in DOMAIN calls : StartHeartbeat(id)
  <2>1. PICK id \in DOMAIN calls : SetCall(id, "looping") /\ calls[id].state = "running"
    BY <1>7 DEF StartHeartbeat
  <2>2. QED
    BY <1>3, <2>1
<1>8. CASE \E id \in DOMAIN calls : SetCall(id, "over")
  BY <1>3, <1>8
<1>9. CASE \E id \in DOMAIN calls : PersonaDelta(id)
  <2>1. PICK id \in DOMAIN calls : SetCall(id, "persona") /\ calls[id].state \in {"running", "persona"}
    BY <1>9 DEF PersonaDelta
  <2>2. QED
    BY <1>3, <2>1
<1>10. QED
  BY <1>2, <1>4, <1>5, <1>6, <1>7, <1>8, <1>9
     DEF ChatNext, Send, AppendLocalAssistant, Reset, AssistantDelta, NextTurn, PersonaDelta, PersonaToolEnd,
         PersonaReturns, ListHeartbeats, ToolThrows, OneShotReturns, HeartbeatReturns,
         StopHeartbeat, ToolUseEnd, Join, Drop, TurnOver, OpenFeed, Subscribe, FeedDrops, Tick,
         chatVars, runVars

-----------------------------------------------------------------------------
\* Every message answers the calls of the one before it, and no call is made twice.
Paired(q) ==
  /\ q # <<>> => q[1].results = {}
  /\ \A i \in 1..(Len(q) - 1) : q[i + 1].results = q[i].uses
  /\ \A i, j \in 1..Len(q) : i # j => q[i].uses \intersect q[j].uses = {}

LEMMA PairedAppend ==
  ASSUME NEW q \in Seq(Messages), Paired(q), NEW m \in Messages,
         q = <<>> => m.results = {},
         q # <<>> => m.results = q[Len(q)].uses,
         \A i \in 1..Len(q) : q[i].uses \intersect m.uses = {}
  PROVE  /\ Append(q, m) \in Seq(Messages) /\ Len(Append(q, m)) = Len(q) + 1
         /\ Append(q, m)[Len(q) + 1] = m /\ \A i \in 1..Len(q) : Append(q, m)[i] = q[i]
         /\ Paired(Append(q, m))
<1> DEFINE r == Append(q, m)
           n == Len(q)
<1>1. n \in Nat /\ r \in Seq(Messages) /\ Len(r) = n + 1 /\ r[n + 1] = m /\ \A i \in 1..n : r[i] = q[i]
  OBVIOUS
<1>2. q = <<>> <=> n = 0
  OBVIOUS
<1> HIDE DEF r, n
<1>3. r[1].results = {}
  BY <1>1, <1>2 DEF Paired, n
<1>4. ASSUME NEW i \in 1..((n + 1) - 1) PROVE r[i + 1].results = r[i].uses
  <2>1. CASE i = n
    BY <1>1, <1>2, <2>1 DEF n
  <2>2. CASE i # n
    BY <1>1, <2>2 DEF Paired, n
  <2>3. QED
    BY <2>1, <2>2
<1>5. ASSUME NEW i \in 1..(n + 1), NEW j \in 1..(n + 1), i # j
      PROVE  r[i].uses \intersect r[j].uses = {}
  BY <1>1, <1>5 DEF Paired, n
<1>6. Paired(r)
  BY <1>1, <1>3, <1>4, <1>5 DEF Paired
<1>7. QED
  BY <1>1, <1>6 DEF r, n

\* Expanding a conversation pairs it.
LEMMA ConversationPaired ==
  ASSUME NEW q \in Seq(Messages),
         \A i \in 1..Len(q) : q[i].results = {},
         \A i, j \in 1..Len(q) : i # j => q[i].uses \intersect q[j].uses = {}
  PROVE  LET r == ToAnthropicMessages(q) IN
         /\ r \in Seq(Messages) /\ Paired(r)
         /\ r # <<>> => r[Len(r)].uses = {}
         /\ \A k \in 1..Len(r) : r[k].uses = {} \/ \E j \in 1..Len(q) : r[k].uses = q[j].uses
<1>1. PICK h : /\ h[0] = <<>> /\ \A i \in 1..Len(q) : h[i] = PushMessage(h[i - 1], q[i])
               /\ ToAnthropicMessages(q) = h[Len(q)]
  BY FoldOfMessages
<1> DEFINE Good(r, i) ==
             /\ r \in Seq(Messages) /\ Paired(r)
             /\ r # <<>> => r[Len(r)].uses = {}
             /\ \A k \in 1..Len(r) : r[k].uses = {} \/ \E j \in 1..i : r[k].uses = q[j].uses
           P == {i \in 0..Len(q) : Good(h[i], i)}
<1>2. Len(q) \in Nat /\ 0 \in P
  <2>1. 0 \in 0..Len(q) /\ Good(h[0], 0)
    BY <1>1 DEF Paired
  <2>2. QED
    BY <2>1
<1>3. ASSUME NEW i \in 0..(Len(q) - 1), i \in P PROVE i + 1 \in P
  <2> DEFINE r == h[i]  m == q[i + 1]  s == PushMessage(r, m)
  <2>1. /\ i + 1 \in 0..Len(q) /\ i + 1 \in 1..Len(q) /\ (i + 1) - 1 = i /\ m \in Messages
        /\ i \in Nat
    BY <1>2
  <2>2. h[i + 1] = s /\ Good(r, i) /\ m.results = {} /\ m.uses \in SUBSET Ids
    BY <1>1, <1>3, <2>1 DEF Messages
  <2>3. \A k \in 1..Len(r) : r[k].uses \intersect m.uses = {}
    <3> SUFFICES ASSUME NEW k \in 1..Len(r) PROVE r[k].uses \intersect m.uses = {}
      OBVIOUS
    <3>1. r[k].uses = {} \/ \E j \in 1..i : r[k].uses = q[j].uses
      BY <2>2
    <3>2. \A j \in 1..i : j \in 1..Len(q) /\ j # i + 1
      BY <1>2
    <3>3. QED
      BY <2>1, <3>1, <3>2
  <2> HIDE DEF r, m
  <2> DEFINE a == Append(r, m)
  <2>4. /\ a \in Seq(Messages) /\ Len(a) = Len(r) + 1 /\ a[Len(r) + 1] = m
        /\ \A k \in 1..Len(r) : a[k] = r[k]
        /\ Paired(a)
    <3>1. r \in Seq(Messages) /\ Paired(r) /\ m \in Messages
      BY <2>1, <2>2
    <3>2. r = <<>> => m.results = {}
      BY <2>2
    <3>3. r # <<>> => m.results = r[Len(r)].uses
      BY <2>2
    <3>4. QED
      BY <2>3, <3>1, <3>2, <3>3, PairedAppend, Zenon
  <2>5. Len(r) \in Nat
    BY <2>2
  <2> HIDE DEF a
  <2>6. \A k \in 1..Len(a) : a[k].uses = {} \/ \E j \in 1..(i + 1) : a[k].uses = q[j].uses
    <3> SUFFICES ASSUME NEW k \in 1..Len(a)
                 PROVE  a[k].uses = {} \/ \E j \in 1..(i + 1) : a[k].uses = q[j].uses
      OBVIOUS
    <3>1. CASE k = Len(r) + 1
      BY <2>1, <2>4, <3>1 DEF m
    <3>2. CASE k \in 1..Len(r)
      <4>1. r[k].uses = {} \/ \E j \in 1..i : r[k].uses = q[j].uses
        BY <2>2, <3>2
      <4>2. \A j \in 1..i : j \in 1..(i + 1)
        BY <2>1
      <4>3. QED
        BY <2>4, <3>2, <4>1, <4>2
    <3>3. QED
      BY <2>4, <2>5, <3>1, <3>2
  <2>7. CASE m.uses = {}
    <3>1. s = a
      BY <2>7 DEF PushMessage, a
    <3>2. Good(a, i + 1)
      BY <2>4, <2>5, <2>6, <2>7
    <3> HIDE DEF s, Good
    <3>3. QED
      BY <2>1, <2>2, <3>1, <3>2
  <2>8. CASE m.uses # {}
    <3> DEFINE t == Message("user", {}, m.uses)  b == Append(a, t)
    <3>1. t \in Messages /\ t.uses = {} /\ t.results = m.uses
      BY <2>2, RecordsTyped DEF Message
    <3>2. s = b
      BY <2>1, <2>2, <2>8, <3>1 DEF PushMessage, ExpandAssistantTurn, a
    <3> HIDE DEF t
    <3>3. a # <<>>
      BY <2>4, <2>5
    <3>4. /\ b \in Seq(Messages) /\ Len(b) = Len(a) + 1 /\ b[Len(a) + 1] = t
          /\ \A k \in 1..Len(a) : b[k] = a[k]
          /\ Paired(b)
      BY <2>4, <2>5, <3>1, <3>3, PairedAppend
    <3> HIDE DEF b, s
    <3>5. \A k \in 1..Len(b) : b[k].uses = {} \/ \E j \in 1..(i + 1) : b[k].uses = q[j].uses
      <4> SUFFICES ASSUME NEW k \in 1..Len(b)
                   PROVE  b[k].uses = {} \/ \E j \in 1..(i + 1) : b[k].uses = q[j].uses
        OBVIOUS
      <4>1. CASE k = Len(a) + 1
        BY <3>1, <3>4, <4>1
      <4>2. CASE k \in 1..Len(a)
        BY <2>6, <3>4, <4>2
      <4>3. QED
        BY <2>4, <2>5, <3>4, <4>1, <4>2
    <3>6. Good(b, i + 1)
      BY <2>4, <2>5, <3>1, <3>4, <3>5
    <3> HIDE DEF Good
    <3>7. QED
      BY <2>1, <2>2, <3>2, <3>6
  <2>9. QED
    BY <2>7, <2>8
<1> HIDE DEF P
<1>4. 0..Len(q) \subseteq P
  BY <1>2, <1>3, BoundedInduction
<1>5. Good(h[Len(q)], Len(q))
  BY <1>2, <1>4 DEF P
<1>6. QED
  BY <1>1, <1>5

\* The history asks for the calls of the turns, none of them twice.
LEMMA HistoryAsks ==
  ASSUME NEW q \in Seq(Turns),
         \A i, j \in 1..Len(q) : i # j => q[i].uses \intersect q[j].uses = {}
  PROVE  LET r == History(q) IN
         /\ r \in Seq(Messages)
         /\ \A k \in 1..Len(r) : r[k].results = {}
         /\ \A k, l \in 1..Len(r) : k # l => r[k].uses \intersect r[l].uses = {}
         /\ \A k \in 1..Len(r) : r[k].uses = {} \/ \E j \in 1..Len(q) : r[k].uses = q[j].uses
<1>1. PICK h : /\ h[0] = <<>> /\ \A i \in 1..Len(q) : h[i] = PushSpoken(h[i - 1], q[i])
               /\ History(q) = h[Len(q)]
  BY FoldOfSpoken
<1> DEFINE Good(r, i) ==
             /\ r \in Seq(Messages)
             /\ \A k \in 1..Len(r) : r[k].results = {}
             /\ \A k, l \in 1..Len(r) : k # l => r[k].uses \intersect r[l].uses = {}
             /\ \A k \in 1..Len(r) : r[k].uses = {} \/ \E j \in 1..i : r[k].uses = q[j].uses
           P == {i \in 0..Len(q) : Good(h[i], i)}
<1>2. Len(q) \in Nat /\ 0 \in P
  <2>1. 0 \in 0..Len(q) /\ Good(h[0], 0)
    BY <1>1
  <2>2. QED
    BY <2>1
<1>3. ASSUME NEW i \in 0..(Len(q) - 1), i \in P PROVE i + 1 \in P
  <2> DEFINE r == h[i]  m == TurnToApiMessage(q[i + 1])  a == Append(r, m)
  <2>1. /\ i + 1 \in 0..Len(q) /\ i + 1 \in 1..Len(q) /\ (i + 1) - 1 = i /\ q[i + 1] \in Turns
        /\ i \in Nat
    BY <1>2
  <2>2. h[i + 1] = (IF q[i + 1].said THEN a ELSE r) /\ Good(r, i)
    BY <1>1, <1>3, <2>1 DEF PushSpoken
  <2>3. m \in Messages /\ m.results = {} /\ m.uses \in {{}, q[i + 1].uses}
    BY <2>1, RecordsTyped DEF TurnToApiMessage, Turns, Message
  <2>4. Good(r, i + 1)
    <3>1. \A j \in 1..i : j \in 1..(i + 1)
      BY <2>1
    <3>2. QED
      BY <2>2, <3>1
  <2>5. \A k \in 1..Len(r) : r[k].uses \intersect m.uses = {}
    <3> SUFFICES ASSUME NEW k \in 1..Len(r) PROVE r[k].uses \intersect m.uses = {}
      OBVIOUS
    <3>1. r[k].uses = {} \/ \E j \in 1..i : r[k].uses = q[j].uses
      BY <2>2
    <3>2. \A j \in 1..i : j \in 1..Len(q) /\ j # i + 1
      BY <1>2
    <3>3. QED
      BY <2>1, <2>3, <3>1, <3>2
  <2> HIDE DEF r, m
  <2>6. /\ a \in Seq(Messages) /\ Len(a) = Len(r) + 1 /\ a[Len(r) + 1] = m
        /\ \A k \in 1..Len(r) : a[k] = r[k]
        /\ Len(r) \in Nat
    BY <2>2, <2>3
  <2> HIDE DEF a
  <2>7. Good(a, i + 1)
    <3>1. \A k \in 1..Len(a) : a[k].results = {}
      BY <2>2, <2>3, <2>6
    <3>2. ASSUME NEW k \in 1..Len(a), NEW l \in 1..Len(a), k # l
          PROVE  a[k].uses \intersect a[l].uses = {}
      BY <2>2, <2>5, <2>6, <3>2, SMTT(30)
    <3>3. ASSUME NEW k \in 1..Len(a)
          PROVE  a[k].uses = {} \/ \E j \in 1..(i + 1) : a[k].uses = q[j].uses
      <4>1. CASE k = Len(r) + 1
        BY <2>1, <2>3, <2>6, <4>1
      <4>2. CASE k \in 1..Len(r)
        BY <2>4, <2>6, <4>2, SMTT(30)
      <4>3. QED
        BY <2>6, <4>1, <4>2
    <3>4. QED
      BY <2>6, <3>1, <3>2, <3>3
  <2> HIDE DEF Good
  <2>8. h[i + 1] = a \/ h[i + 1] = r
    BY <2>2
  <2>9. Good(h[i + 1], i + 1)
    BY <2>4, <2>7, <2>8
  <2>10. QED
    BY <2>1, <2>9
<1> HIDE DEF P
<1>4. 0..Len(q) \subseteq P
  BY <1>2, <1>3, BoundedInduction
<1>5. Good(h[Len(q)], Len(q))
  BY <1>2, <1>4, SMTT(30) DEF P
<1>6. QED
  BY <1>1, <1>5

\* What the model is asked: a transcript holds calls that are over, each in one
\* turn, and the ends of calls that the open turn has seen are of calls that are
\* over and in no turn yet; a request answers all it asks for but its last message.
BrainEnds(i) == seen[i].what = "end" /\ seen[i].agent = "brain"

RequestInv ==
  /\ \A i, j \in DOMAIN transcript : i # j => transcript[i].uses \intersect transcript[j].uses = {}
  /\ \A i \in DOMAIN transcript : \A id \in transcript[i].uses :
       id \in DOMAIN calls /\ calls[id].state = "over"
  /\ pc # "idle" => \A i \in DOMAIN seen : BrainEnds(i) =>
       /\ seen[i].id \in DOMAIN calls /\ calls[seen[i].id].state = "over"
       /\ \A j \in DOMAIN transcript : seen[i].id \notin transcript[j].uses
  /\ Paired(request)
  /\ pc = "asking" => /\ request # <<>> /\ Last(request).role = "user"
                      /\ request[Len(request)].uses = {}
  /\ \A i \in DOMAIN request : \A id \in request[i].uses :
       id \in DOMAIN calls /\ calls[id].state # "streamed"

\* The transcript after a step, of which only some turns are new.
LEMMA UsesKept ==
  ASSUME ChatTypeInv, RequestInv, [ChatNext]_chatVars, NEW k,
         \A i \in DOMAIN transcript' : i # k =>
            transcript'[i].uses = {} \/ (i \in DOMAIN transcript /\ transcript'[i].uses = transcript[i].uses),
         k \in DOMAIN transcript' =>
            /\ \A id \in transcript'[k].uses : id \in DOMAIN calls /\ calls[id].state = "over"
            /\ \A j \in DOMAIN transcript : transcript'[k].uses \intersect transcript[j].uses = {}
  PROVE  /\ \A i, j \in DOMAIN transcript' :
              i # j => transcript'[i].uses \intersect transcript'[j].uses = {}
         /\ \A i \in DOMAIN transcript' : \A id \in transcript'[i].uses :
              id \in DOMAIN calls' /\ calls'[id].state = "over"
<1>1. \A id \in DOMAIN calls : calls[id].state = "over" => id \in DOMAIN calls' /\ calls'[id].state = "over"
  BY CallsKept DEF ChatTypeInv, Kept
<1>2. ASSUME NEW i \in DOMAIN transcript', NEW id \in transcript'[i].uses
      PROVE  id \in DOMAIN calls /\ calls[id].state = "over"
  BY DEF RequestInv
<1>3. ASSUME NEW i \in DOMAIN transcript', NEW j \in DOMAIN transcript', i # j
      PROVE  transcript'[i].uses \intersect transcript'[j].uses = {}
  <2>1. CASE i = k
    BY <1>3, <2>1
  <2>2. CASE j = k
    BY <1>3, <2>2
  <2>3. CASE i # k /\ j # k
    BY <1>3, <2>3 DEF RequestInv
  <2>4. QED
    BY <2>1, <2>2, <2>3
<1>4. QED
  BY <1>1, <1>2, <1>3

\* Which turns of the transcript a step can give calls: none, or the last of the
\* assistant when the run is over.
LEMMA TurnsWithCalls ==
  ASSUME ChatTypeInv, [ChatNext]_chatVars, ~TurnOver, NEW i \in DOMAIN transcript'
  PROVE  \/ transcript'[i].uses = {}
         \/ i \in DOMAIN transcript /\ transcript'[i].uses = transcript[i].uses
<1>1. transcript \in Seq(Turns) /\ RunOK /\ TabOK /\ LoopOK
  BY DEF ChatTypeInv, TabOK
<1>2. ASSUME NEW t \in Turns, t.uses = {}, transcript' = Append(transcript, t)
      PROVE  \/ transcript'[i].uses = {}
             \/ i \in DOMAIN transcript /\ transcript'[i].uses = transcript[i].uses
  BY <1>1, <1>2, TurnsAppended
<1>3. CASE transcript' = transcript \/ transcript' = <<>>
  BY <1>3
<1>4. CASE Send
  <2> DEFINE u == TurnOf("user", TRUE, {}, 0)  a == TurnOf("assistant", FALSE, {}, 0)
  <2>1. u \in Turns /\ a \in Turns /\ u.uses = {} /\ a.uses = {}
    BY RecordsTyped DEF TurnOf
  <2>2. transcript' = transcript \o <<u, a>>
    BY <1>4 DEF Send
  <2> HIDE DEF u, a
  <2>3. /\ DOMAIN transcript' = 1..(Len(transcript) + 2) /\ DOMAIN transcript = 1..Len(transcript)
        /\ transcript'[Len(transcript) + 1] = u /\ transcript'[Len(transcript) + 2] = a
        /\ \A k \in 1..Len(transcript) : transcript'[k] = transcript[k]
        /\ Len(transcript) \in Nat
    BY <1>1, <2>1, <2>2
  <2>4. QED
    BY <2>1, <2>3
<1>5. CASE AppendLocalAssistant
  <2>1. TurnOf("assistant", TRUE, {}, 0) \in Turns /\ TurnOf("assistant", TRUE, {}, 0).uses = {}
    BY RecordsTyped DEF TurnOf
  <2>2. QED
    BY <1>2, <1>5, <2>1 DEF AppendLocalAssistant
<1>6. CASE Tick
  <2>1. beats + 1 \in Beats
    BY <1>1, <1>6, ConversationAssumption DEF Tick, EmitTick, LoopOK, Beats
  <2>2. /\ TurnOf("heartbeat", TRUE, {}, beats + 1) \in Turns
        /\ TurnOf("heartbeat", TRUE, {}, beats + 1).uses = {}
    BY <2>1, RecordsTyped DEF TurnOf
  <2>3. \/ transcript' = transcript
        \/ transcript' = Append(transcript, TurnOf("heartbeat", TRUE, {}, beats + 1))
    BY <1>6 DEF Tick, EmitTick, HeartbeatTurn
  <2>4. QED
    BY <1>2, <1>3, <2>2, <2>3
<1>7. CASE AssistantDelta
  BY <1>1, <1>7, SpokenTurn
<1>8. QED
  BY <1>3, <1>4, <1>5, <1>6, <1>7
     DEF ChatNext, ToolUseStart, StreamFails, LoopEnds, ExecuteTools, NextTurn,
         PersonaDelta, PersonaToolStart, PersonaToolEnd, PersonaReturns, ListHeartbeats, ToolThrows,
         OneShotReturns, StartHeartbeat, HeartbeatReturns, StopHeartbeat, ToolUseEnd, Join, Drop,
         Reset, OpenFeed, Subscribe, FeedDrops, chatVars, tabVars

\* The turn that TurnOver fills in.
LEMMA FilledTurn ==
  ASSUME ChatTypeInv, CardsInv, RequestInv, TurnOver
  PROVE  /\ LastAssistant \in DOMAIN transcript /\ DOMAIN transcript' = DOMAIN transcript
         /\ \A i \in DOMAIN transcript : i # LastAssistant => transcript'[i] = transcript[i]
         /\ \A id \in transcript'[LastAssistant].uses :
              /\ id \in DOMAIN calls /\ calls[id].state = "over"
              /\ \A j \in DOMAIN transcript : id \notin transcript[j].uses
<1> DEFINE k == LastAssistant
<1>1. TabOK /\ pc # "idle" /\ k \in DOMAIN transcript
  BY AssistantExists DEF ChatTypeInv, CardsInv, TurnOver
<1>3. transcript'[k].uses = Invocations(seen) /\ DOMAIN transcript' = DOMAIN transcript
      /\ \A i \in DOMAIN transcript : i # k => transcript'[i] = transcript[i]
  BY <1>1, TurnClosed
<1> HIDE DEF k
<1>4. \A id \in Invocations(seen) : \E j \in DOMAIN seen : BrainEnds(j) /\ seen[j].id = id
  BY DEF Invocations, BrainEnds
<1>5. QED
  BY <1>1, <1>3, <1>4 DEF RequestInv, k

LEMMA TranscriptUses ==
  ASSUME ChatTypeInv, CardsInv, RequestInv, [ChatNext]_chatVars
  PROVE  /\ \A i, j \in DOMAIN transcript' :
              i # j => transcript'[i].uses \intersect transcript'[j].uses = {}
         /\ \A i \in DOMAIN transcript' : \A id \in transcript'[i].uses :
              id \in DOMAIN calls' /\ calls'[id].state = "over"
<1>1. CASE TurnOver
  <2> DEFINE k == LastAssistant
  <2>1. /\ \A i \in DOMAIN transcript' : i # k =>
             transcript'[i].uses = {} \/ (i \in DOMAIN transcript /\ transcript'[i].uses = transcript[i].uses)
        /\ k \in DOMAIN transcript' =>
            /\ \A id \in transcript'[k].uses : id \in DOMAIN calls /\ calls[id].state = "over"
            /\ \A j \in DOMAIN transcript : transcript'[k].uses \intersect transcript[j].uses = {}
    BY <1>1, FilledTurn
  <2> HIDE DEF k
  <2>2. QED
    BY <2>1, UsesKept
<1>2. CASE ~TurnOver
  <2>1. 0 \notin DOMAIN transcript'
    <3>1. transcript' \in Seq(Turns)
      BY ChatTypeStep DEF ChatTypeInv, TabOK
    <3>2. QED
      BY <3>1
  <2>2. \A i \in DOMAIN transcript' : i # 0 =>
          transcript'[i].uses = {} \/ (i \in DOMAIN transcript /\ transcript'[i].uses = transcript[i].uses)
    BY <1>2, TurnsWithCalls
  <2>3. QED
    BY <2>1, <2>2, UsesKept
<1>3. QED
  BY <1>1, <1>2

\* Events of the Brain's calls that end are of calls that were not over.
LEMMA EndsSeen ==
  ASSUME ChatTypeInv, RequestInv, [ChatNext]_chatVars, pc' # "idle"
  PROVE  \A i \in DOMAIN seen' : BrainEnds(i)' =>
           /\ seen'[i].id \in DOMAIN calls' /\ calls'[seen'[i].id].state = "over"
           /\ \A j \in DOMAIN transcript' : seen'[i].id \notin transcript'[j].uses
<1> DEFINE Fresh(id) == /\ id \in DOMAIN calls' /\ calls'[id].state = "over"
                        /\ \A j \in DOMAIN transcript' : id \notin transcript'[j].uses
<1>1. /\ RunOK /\ TabOK
      /\ \A id \in DOMAIN calls : calls[id].state = "over" => id \in DOMAIN calls' /\ calls'[id].state = "over"
  BY CallsKept DEF ChatTypeInv, Kept
<1>2. ~TurnOver
  BY DEF TurnOver
<1>3. ASSUME pc # "idle", NEW i \in DOMAIN seen, BrainEnds(i) PROVE Fresh(seen[i].id)
  BY <1>1, <1>2, <1>3, TurnsWithCalls DEF RequestInv
<1>4. CASE seen' = <<>>
  BY <1>4
<1>5. CASE seen' = seen /\ pc # "idle"
  BY <1>3, <1>5 DEF BrainEnds
<1>6. ASSUME NEW ev \in SeenEvents, Emit(ev), pc # "idle",
             ev.what = "end" /\ ev.agent = "brain" => Fresh(ev.id)
      PROVE  \A i \in DOMAIN seen' : BrainEnds(i)' => Fresh(seen'[i].id)
  <2> SUFFICES ASSUME NEW i \in DOMAIN seen', BrainEnds(i)' PROVE Fresh(seen'[i].id)
    OBVIOUS
  <2>1. CASE i \in DOMAIN seen /\ seen'[i] = seen[i]
    BY <1>3, <1>6, <2>1 DEF BrainEnds
  <2>2. CASE seen'[i] = ev
    BY <1>6, <2>2 DEF BrainEnds
  <2> HIDE DEF Fresh
  <2>3. QED
    BY <1>1, <1>6, <2>1, <2>2, EmittedEvent
<1>7. CASE \E id \in DOMAIN calls : PersonaDelta(id)
  <2>1. /\ Event("text", "persona", 0, FALSE) \in SeenEvents
        /\ Event("text", "persona", 0, FALSE).what = "text"
    BY RecordsTyped DEF Event
  <2>2. QED
    BY <1>6, <1>7, <2>1 DEF PersonaDelta, Executes
<1>8. CASE ToolUseStart
  <2> DEFINE ev == Event("start", "brain", Len(calls) + 1, FALSE)
  <2>1. ev \in SeenEvents /\ ev.what = "start"
    BY <1>1, <1>8, IdsOfCalls, RecordsTyped DEF Event, ToolUseStart
  <2>2. QED
    BY <1>6, <1>8, <2>1 DEF ToolUseStart
<1>9. CASE \E id \in DOMAIN calls : PersonaToolStart(id)
  <2> DEFINE ev == Event("start", "persona", Len(calls) + 1, FALSE)
  <2>1. ev \in SeenEvents /\ ev.what = "start"
    BY <1>1, <1>9, IdsOfCalls, RecordsTyped DEF Event, PersonaToolStart
  <2>2. QED
    BY <1>6, <1>9, <2>1 DEF PersonaToolStart, Executes
<1>10. CASE \E id \in DOMAIN calls : PersonaToolEnd(id)
  <2>1. PICK id \in DOMAIN calls : PersonaToolEnd(id)
    BY <1>10
  <2> DEFINE ev == Event("end", "persona", id, FALSE)
  <2>2. ev \in SeenEvents /\ ev.agent = "persona"
    BY <1>1, <2>1, IdsOfCalls, RecordsTyped DEF Event
  <2>3. QED
    BY <1>6, <2>1, <2>2 DEF PersonaToolEnd
<1>11. ASSUME NEW id \in DOMAIN calls, NEW b \in BOOLEAN, ToolUseEnd(id, b), calls[id].state # "over",
              pc # "idle"
       PROVE  \A i \in DOMAIN seen' : BrainEnds(i)' => Fresh(seen'[i].id)
  <2> DEFINE ev == Event("end", "brain", id, b)
  <2>1. ev \in SeenEvents /\ ev.id = id
    BY <1>1, IdsOfCalls, RecordsTyped DEF Event
  <2>2. DOMAIN calls' = DOMAIN calls /\ calls'[id].state = "over"
    BY <1>1, <1>11, SetCallEffect DEF ToolUseEnd
  <2>3. \A j \in DOMAIN transcript' : id \notin transcript'[j].uses
    BY <1>2, <1>11, TurnsWithCalls DEF RequestInv
  <2>4. Emit(ev)
    BY <1>11 DEF ToolUseEnd
  <2> HIDE DEF ev
  <2>5. QED
    BY <1>6, <1>11, <2>1, <2>2, <2>3, <2>4
<1>12. CASE \E id \in DOMAIN calls :
              /\ pc = "tools" /\ calls[id].state # "over"
              /\ ToolUseEnd(id, TRUE) \/ ToolUseEnd(id, FALSE)
  BY <1>11, <1>12
<1> HIDE DEF Fresh
<1>13. \/ seen' = <<>> \/ (seen' = seen /\ pc # "idle")
       \/ ToolUseStart
       \/ \E id \in DOMAIN calls : PersonaDelta(id)
       \/ \E id \in DOMAIN calls : PersonaToolStart(id)
       \/ \E id \in DOMAIN calls : PersonaToolEnd(id)
       \/ \E id \in DOMAIN calls :
              /\ pc = "tools" /\ calls[id].state # "over"
              /\ ToolUseEnd(id, TRUE) \/ ToolUseEnd(id, FALSE)
  BY DEF ChatNext, Send, AppendLocalAssistant, Reset, AssistantDelta, StreamFails, LoopEnds,
         ExecuteTools, NextTurn, PersonaReturns, ListHeartbeats, ToolThrows, OneShotReturns, StartHeartbeat,
         HeartbeatReturns, StopHeartbeat, Executes, Batch, Join, Drop, TurnOver, OpenFeed, Subscribe,
         FeedDrops, Tick, chatVars, runVars, tabVars, CanSubmit
<1>14. QED
  BY <1>4, <1>5, <1>7, <1>8, <1>9, <1>10, <1>12, <1>13

\* The conversation that is sent: the transcript behind the user's message.
LEMMA RequestSent ==
  ASSUME ChatTypeInv, RequestInv, Send
  PROVE  /\ request' \in Seq(Messages) /\ Paired(request')
         /\ request' # <<>> => request'[Len(request')].uses = {}
         /\ \A i \in DOMAIN request' : \A id \in request'[i].uses :
              id \in DOMAIN calls /\ calls[id].state = "over"
<1> DEFINE u == TurnOf("user", TRUE, {}, 0)  q == Append(transcript, u)
           m == History(q)  n == Len(transcript)
<1>1. u \in Turns /\ u.uses = {}
  BY RecordsTyped DEF TurnOf
<1>2. request' = ToAnthropicMessages(m) /\ transcript \in Seq(Turns)
  BY DEF Send, RunBrainAgent, ChatTypeInv, TabOK
<1> HIDE DEF u
<1>3. /\ q \in Seq(Turns) /\ Len(q) = n + 1 /\ q[n + 1] = u
      /\ \A i \in 1..n : q[i] = transcript[i]
      /\ DOMAIN transcript = 1..n /\ n \in Nat
  BY <1>1, <1>2
<1> HIDE DEF q, n
<1>4. \A i, j \in 1..Len(q) : i # j => q[i].uses \intersect q[j].uses = {}
  BY <1>1, <1>3 DEF RequestInv
<1>5. \A i \in 1..Len(q) : \A id \in q[i].uses : id \in DOMAIN calls /\ calls[id].state = "over"
  BY <1>1, <1>3 DEF RequestInv
<1>6. /\ m \in Seq(Messages)
      /\ \A k \in 1..Len(m) : m[k].results = {}
      /\ \A k, l \in 1..Len(m) : k # l => m[k].uses \intersect m[l].uses = {}
      /\ \A k \in 1..Len(m) : m[k].uses = {} \/ \E j \in 1..Len(q) : m[k].uses = q[j].uses
  BY <1>3, <1>4, HistoryAsks
<1> HIDE DEF m
<1>7. /\ request' \in Seq(Messages) /\ Paired(request')
      /\ request' # <<>> => request'[Len(request')].uses = {}
      /\ \A k \in 1..Len(request') : request'[k].uses = {} \/ \E j \in 1..Len(m) : request'[k].uses = m[j].uses
  BY <1>2, <1>6, ConversationPaired
<1>8. DOMAIN request' = 1..Len(request')
  BY <1>7
<1>9. QED
  BY <1>5, <1>6, <1>7, <1>8, SMTT(30)

LEMMA RequestGrows ==
  ASSUME ChatTypeInv, RequestInv, ExecuteTools \/ NextTurn
  PROVE  /\ Paired(request') /\ request' # <<>>
         /\ pc' = "asking" => Last(request').role = "user" /\ request'[Len(request')].uses = {}
         /\ \A i \in DOMAIN request' : \A id \in request'[i].uses :
              id \in DOMAIN calls' /\ calls'[id].state # "streamed"
<1>1. RunOK /\ request \in Seq(Messages) /\ DOMAIN request = 1..Len(request) /\ Len(request) \in Nat
      /\ request # <<>>
  BY DEF ChatTypeInv, RunOK, RequestInv, NextTurn, ExecuteTools
<1>2. ASSUME NEW m \in Messages, request' = Append(request, m), m.results = request[Len(request)].uses,
             \A i \in 1..Len(request) : request[i].uses \intersect m.uses = {},
             \A id \in m.uses : id \in DOMAIN calls' /\ calls'[id].state # "streamed",
             \A i \in DOMAIN request : \A id \in request[i].uses :
               id \in DOMAIN calls' /\ calls'[id].state # "streamed",
             pc' = "asking" => m.role = "user" /\ m.uses = {}
      PROVE  /\ Paired(request') /\ request' # <<>>
             /\ pc' = "asking" => Last(request').role = "user" /\ request'[Len(request')].uses = {}
             /\ \A i \in DOMAIN request' : \A id \in request'[i].uses :
                  id \in DOMAIN calls' /\ calls'[id].state # "streamed"
  <2>1. Paired(request)
    BY DEF RequestInv
  <2>2. /\ request' \in Seq(Messages) /\ Len(request') = Len(request) + 1
        /\ request'[Len(request) + 1] = m /\ \A i \in 1..Len(request) : request'[i] = request[i]
        /\ Paired(request')
    BY <1>1, <1>2, <2>1, PairedAppend
  <2>3. request' # <<>> /\ Last(request') = m
    BY <1>1, <2>2 DEF Last
  <2>4. DOMAIN request' = 1..(Len(request) + 1)
    BY <2>2
  <2>5. QED
    BY <1>1, <1>2, <2>2, <2>3, <2>4
<1>3. CASE ExecuteTools
  <2> DEFINE m == Message("assistant", Streamed, {})
  <2>1. /\ m \in Messages /\ m.uses = Streamed /\ m.results = {}
    <3>1. Streamed \in SUBSET Ids
      BY <1>1, IdsOfCalls DEF Streamed
    <3>2. QED
      BY <3>1, RecordsTyped DEF Message
  <2>2. /\ request' = Append(request, m) /\ pc = "asking" /\ pc' = "tools"
        /\ calls' = [id \in DOMAIN calls |->
              IF id \in Streamed THEN [calls[id] EXCEPT !.state = "running"] ELSE calls[id]]
    BY <1>3 DEF ExecuteTools
  <2> HIDE DEF m
  <2>3. \A id \in DOMAIN calls :
          /\ id \in DOMAIN calls'
          /\ calls[id].state # "streamed" => calls'[id].state # "streamed" /\ id \notin Streamed
    BY <1>1, <2>2, StreamedEffect DEF Streamed
  <2>4. /\ \A id \in Streamed : id \in DOMAIN calls /\ calls[id].state = "streamed"
        /\ \A id \in Streamed : id \in DOMAIN calls' /\ calls'[id].state = "running"
    BY <1>1, <2>2, StreamedEffect DEF Streamed
  <2>5. \A i \in DOMAIN request : \A id \in request[i].uses :
          id \in DOMAIN calls' /\ calls'[id].state # "streamed" /\ id \notin Streamed
    BY <2>3, <2>4 DEF RequestInv
  <2>6. m.results = request[Len(request)].uses
    BY <2>1, <2>2 DEF RequestInv
  <2>7. /\ \A i \in 1..Len(request) : request[i].uses \intersect m.uses = {}
        /\ \A id \in m.uses : id \in DOMAIN calls' /\ calls'[id].state # "streamed"
        /\ \A i \in DOMAIN request : \A id \in request[i].uses :
               id \in DOMAIN calls' /\ calls'[id].state # "streamed"
        /\ pc' # "asking"
    BY <1>1, <2>1, <2>2, <2>4, <2>5
  <2>8. request' = Append(request, m)
    BY <2>2
  <2>9. QED
    BY <1>2, <2>1, <2>6, <2>7, <2>8
<1>4. CASE NextTurn
  <2> DEFINE m == Message("user", {}, Last(request).uses)
  <2>1. m \in Messages /\ m.uses = {} /\ m.role = "user" /\ m.results = Last(request).uses
    <3>1. Last(request).uses \in SUBSET Ids
      BY <1>1, LastTyped
    <3>2. QED
      BY <3>1, RecordsTyped DEF Message
  <2>2. request' = Append(request, m) /\ calls' = calls
    BY <1>4 DEF NextTurn
  <2> HIDE DEF m
  <2>3. m.results = request[Len(request)].uses
    BY <2>1 DEF Last
  <2>4. QED
    BY <1>2, <2>1, <2>2, <2>3 DEF RequestInv
<1>5. QED
  BY <1>3, <1>4

LEMMA RequestStep == ChatTypeInv /\ CardsInv /\ RequestInv /\ [ChatNext]_chatVars => RequestInv'
<1> SUFFICES ASSUME ChatTypeInv, CardsInv, RequestInv, [ChatNext]_chatVars PROVE RequestInv'
  OBVIOUS
<1>1. \A id \in DOMAIN calls : /\ id \in DOMAIN calls'
                               /\ calls[id].state # "streamed" => calls'[id].state # "streamed"
  BY CallsKept DEF ChatTypeInv, Kept
<1> DEFINE R == /\ Paired(request')
                /\ pc' = "asking" => /\ request' # <<>> /\ Last(request').role = "user"
                                     /\ request'[Len(request')].uses = {}
                /\ \A i \in DOMAIN request' : \A id \in request'[i].uses :
                     id \in DOMAIN calls' /\ calls'[id].state # "streamed"
<1>2. CASE request' = request /\ (pc' = "asking" => pc = "asking")
  BY <1>1, <1>2, TranscriptUses, EndsSeen DEF RequestInv
<1>3. CASE Send
  <2>1. pc' = "asking" => request' # <<>> /\ Last(request').role = "user"
    BY <1>3 DEF Send, RunBrainAgent, Accepted
  <2>2. R
    BY <1>1, <1>3, <2>1, RequestSent
  <2> HIDE DEF R
  <2>3. QED
    BY <2>2, TranscriptUses, EndsSeen DEF RequestInv, R
<1>4. CASE ExecuteTools \/ NextTurn
  <2>1. R
    BY <1>4, RequestGrows
  <2>2. QED
    BY <2>1, TranscriptUses, EndsSeen DEF RequestInv
<1>5. CASE TurnOver
  <2>1. R
    BY <1>5 DEF TurnOver, Paired
  <2>2. QED
    BY <2>1, TranscriptUses, EndsSeen DEF RequestInv
<1>6. QED
  BY <1>2, <1>3, <1>4, <1>5, TranscriptUses, EndsSeen
     DEF ChatNext, AppendLocalAssistant, Reset, AssistantDelta, ToolUseStart, StreamFails, LoopEnds,
         PersonaDelta, PersonaToolStart, PersonaToolEnd, PersonaReturns, ListHeartbeats, ToolThrows,
         OneShotReturns, StartHeartbeat, HeartbeatReturns, StopHeartbeat, ToolUseEnd, Join, Drop,
         OpenFeed, Subscribe, FeedDrops, Tick, chatVars, runVars

\* Whatever the transcript holds, what the model is asked is a conversation the API
\* accepts: each message answers the calls of the one before it, all and once.
THEOREM RequestsAreAnswered == ChatSpec => []RequestsWellFormed
<1>1. ChatInit => CardsInv /\ RequestInv
  BY DEF ChatInit, CardsInv, FeedComplete, BeatsShown, RequestInv, Paired
<1>2. ChatTypeInv /\ RequestInv => RequestsWellFormed
  <2> SUFFICES ASSUME ChatTypeInv, RequestInv, pc = "asking" PROVE RequestsWellFormed
    BY DEF RequestsWellFormed
  <2> DEFINE n == Len(request)
  <2>1. n \in Nat /\ DOMAIN request = 1..n /\ request # <<>> /\ Last(request).role = "user"
        /\ request[n].uses = {} /\ request[1].results = {}
    BY DEF ChatTypeInv, RunOK, RequestInv, Paired
  <2> HIDE DEF n
  <2>2. ASSUME NEW i \in 1..n
        PROVE  /\ request[i].uses # {} => i < n /\ request[i + 1].results = request[i].uses
               /\ request[i].results # {} => i > 1 /\ request[i - 1].uses = request[i].results
    <3>1. CASE i < n
      <4>1. i \in 1..(n - 1)
        BY <2>1, <3>1
      <4>2. request[i + 1].results = request[i].uses
        BY <4>1 DEF RequestInv, Paired, n
      <4>3. CASE i > 1
        <5>1. i - 1 \in 1..(n - 1) /\ (i - 1) + 1 = i
          BY <2>1, <4>3
        <5>2. QED
          BY <3>1, <4>2, <4>3, <5>1 DEF RequestInv, Paired, n
      <4>4. CASE i = 1
        BY <2>1, <3>1, <4>2, <4>4
      <4>5. QED
        BY <4>3, <4>4
    <3>2. CASE i = n
      <4>1. CASE i > 1
        <5>1. i - 1 \in 1..(n - 1) /\ (i - 1) + 1 = i
          BY <2>1, <4>1
        <5>2. QED
          BY <2>1, <3>2, <4>1, <5>1 DEF RequestInv, Paired, n
      <4>2. CASE i = 1
        BY <2>1, <3>2, <4>2
      <4>3. QED
        BY <4>1, <4>2
    <3>3. QED
      BY <2>1, <3>1, <3>2
  <2>3. \A i, j \in 1..n : i # j => request[i].uses \intersect request[j].uses = {}
    BY DEF RequestInv, Paired, n
  <2>4. QED
    BY <2>1, <2>2, <2>3 DEF RequestsWellFormed, n
<1>3. QED
  BY <1>1, <1>2, ChatTypeInit, ChatTypeStep, CardsStep, RequestStep, PTL DEF ChatSpec

-----------------------------------------------------------------------------
\* The events of a turn: each call starts and ends once, in this order, its own
\* persona's calls end before it, and a persona's loop keeps its call open.
EventInv ==
  /\ \A i \in DOMAIN seen : seen[i].what # "text" =>
       seen[i].id \in DOMAIN calls /\ seen[i].agent = calls[seen[i].id].agent
  /\ \A i, j \in DOMAIN seen :
       i # j /\ seen[i].what = seen[j].what /\ seen[i].what # "text" => seen[i].id # seen[j].id
  /\ \A i, j \in DOMAIN seen :
       seen[i].what = "start" /\ seen[j].what = "end" /\ seen[i].id = seen[j].id => i < j
  /\ \A i \in DOMAIN seen : seen[i].what = "end" => calls[seen[i].id].state = "over"
  /\ \A i, j \in DOMAIN seen :
       seen[i].what = "end" /\ seen[j].what = "end" /\ calls[seen[i].id].under = seen[j].id => i < j
  /\ \A n \in DOMAIN calls : calls[n].under # 0 /\ calls[n].state # "over" =>
       calls[n].under \in DOMAIN calls /\ calls[calls[n].under].state = "persona"

EndsCleanly(id) ==
  /\ calls[id].state # "over"
  /\ \A n \in DOMAIN calls : calls[n].under = id => calls[n].state = "over"

\* What a step adds to the events, with what it does to the calls.
CallEnds == \E id \in DOMAIN calls, b \in BOOLEAN :
  EndsCleanly(id) /\ SetCall(id, "over") /\ Emit(Event("end", calls[id].agent, id, b))

LEMMA BatchOfBrain == \A id \in Batch : calls[id].agent = "brain" /\ calls[id].state # "over"
BY DEF Batch

LEMMA CallEndsCleanly ==
  ASSUME ChatTypeInv, EventInv, NEW id \in DOMAIN calls,
         \/ PersonaToolEnd(id) \/ PersonaReturns(id)
         \/ ListHeartbeats(id) \/ ToolThrows(id) \/ OneShotReturns(id)
         \/ HeartbeatReturns(id) \/ StopHeartbeat(id)
  PROVE  CallEnds
<1>1. DOMAIN calls = 1..Len(calls) /\ id # 0
  BY IdsOfCalls DEF ChatTypeInv, RunOK
<1>2. ASSUME calls[id].state \in {"running", "looping"}
      PROVE  EndsCleanly(id)
  BY <1>1, <1>2 DEF EventInv, EndsCleanly
<1>3. CASE PersonaToolEnd(id)
  <2>1. /\ EndsCleanly(id) /\ SetCall(id, "over") /\ calls[id].agent = "persona"
        /\ Emit(Event("end", "persona", id, FALSE))
    BY <1>2, <1>3 DEF PersonaToolEnd
  <2>2. QED
    BY <2>1 DEF CallEnds
<1>4. ASSUME NEW b \in BOOLEAN, ToolUseEnd(id, b), id \in Batch, EndsCleanly(id) PROVE CallEnds
  <2>1. SetCall(id, "over") /\ Emit(Event("end", calls[id].agent, id, b))
    BY <1>4, BatchOfBrain DEF ToolUseEnd
  <2>2. QED
    BY <1>4, <2>1 DEF CallEnds
<1>5. CASE PersonaReturns(id)
  <2>1. EndsCleanly(id)
    BY <1>5, BatchOfBrain DEF PersonaReturns, Executes, Nested, EndsCleanly
  <2>2. QED
    BY <1>4, <1>5, <2>1 DEF PersonaReturns, Executes
<1>6. CASE ListHeartbeats(id) \/ ToolThrows(id) \/ OneShotReturns(id) \/ StopHeartbeat(id)
  BY <1>2, <1>4, <1>6 DEF ListHeartbeats, ToolThrows, OneShotReturns, StopHeartbeat, Executes
<1>7. CASE HeartbeatReturns(id)
  <2>1. calls[id].state \in {"running", "looping"} /\ ToolUseEnd(id, TRUE) /\ id \in Batch
    BY <1>7 DEF HeartbeatReturns, Executes
  <2>2. QED
    BY <1>2, <1>4, <2>1
<1>8. QED
  BY <1>3, <1>5, <1>6, <1>7

StreamedChange ==
  /\ seen' = seen
  /\ \E s \in {"running", "over"} :
       calls' = [id \in DOMAIN calls |->
                   IF id \in Streamed THEN [calls[id] EXCEPT !.state = s] ELSE calls[id]]

LEMMA EventCases ==
  ASSUME ChatTypeInv, EventInv, [ChatNext]_chatVars
  PROVE  \/ calls' = calls /\ seen' \in {seen, <<>>}
         \/ StreamedChange \/ ToolUseStart
         \/ \E id \in DOMAIN calls : PersonaDelta(id)
         \/ \E id \in DOMAIN calls : PersonaToolStart(id)
         \/ \E id \in DOMAIN calls : StartHeartbeat(id)
         \/ CallEnds
<1>1. CASE \E id \in DOMAIN calls :
         \/ PersonaToolEnd(id) \/ PersonaReturns(id)
         \/ ListHeartbeats(id) \/ ToolThrows(id) \/ OneShotReturns(id)
         \/ HeartbeatReturns(id) \/ StopHeartbeat(id)
  BY <1>1, CallEndsCleanly
<1>2. CASE StreamFails \/ LoopEnds \/ ExecuteTools
  BY <1>2 DEF StreamFails, LoopEnds, ExecuteTools, Abandon, StreamedChange, tabVars
<1>3. QED
  BY <1>1, <1>2
     DEF ChatNext, Send, AppendLocalAssistant, Reset, AssistantDelta, NextTurn, Join, Drop, TurnOver,
         OpenFeed, Subscribe, FeedDrops, Tick, chatVars, runVars, tabVars

\* An event that is new in the turn, after those that were seen.
LEMMA EmittedLast ==
  ASSUME TabOK, NEW ev \in SeenEvents, Emit(ev)
  PROVE  \/ seen' = seen
         \/ /\ DOMAIN seen = 1..Len(seen) /\ Len(seen) \in Nat
            /\ DOMAIN seen' = 1..(Len(seen) + 1) /\ seen'[Len(seen) + 1] = ev
            /\ \A i \in 1..Len(seen) : seen'[i] = seen[i]
<1>1. seen \in Seq(SeenEvents)
  BY DEF TabOK
<1>2. QED
  BY <1>1 DEF Emit

\* With the same events, calls may only go on.
LEMMA EventsStay ==
  ASSUME ChatTypeInv, EventInv, [ChatNext]_chatVars, seen' \in {seen, <<>>},
         \A n \in DOMAIN calls' : calls'[n].under # 0 /\ calls'[n].state # "over" =>
           calls'[n].under \in DOMAIN calls' /\ calls'[calls'[n].under].state = "persona"
  PROVE  EventInv'
<1>1. \A id \in DOMAIN calls : Kept(id)
  BY CallsKept DEF ChatTypeInv
<1>2. CASE seen' = <<>>
  BY <1>2 DEF EventInv
<1>3. CASE seen' = seen
  BY <1>1, <1>3 DEF EventInv, Kept
<1>4. QED
  BY <1>2, <1>3

\* A new event: of a call that is new, or of a call that ends.
LEMMA EventAdded ==
  ASSUME ChatTypeInv, EventInv, [ChatNext]_chatVars, NEW n \in Nat, NEW ev \in SeenEvents,
         DOMAIN seen = 1..n, DOMAIN seen' = 1..(n + 1), seen'[n + 1] = ev,
         \A i \in 1..n : seen'[i] = seen[i],
         ev.what # "text" => ev.id \in DOMAIN calls' /\ ev.agent = calls'[ev.id].agent,
         ev.what = "start" => ev.id \notin DOMAIN calls,
         ev.what = "end" => ev.id \in DOMAIN calls /\ EndsCleanly(ev.id) /\ calls'[ev.id].state = "over",
         \A k \in DOMAIN calls' : calls'[k].under # 0 /\ calls'[k].state # "over" =>
           calls'[k].under \in DOMAIN calls' /\ calls'[calls'[k].under].state = "persona"
  PROVE  EventInv'
<1>1. /\ \A id \in DOMAIN calls : Kept(id)
      /\ DOMAIN calls = 1..Len(calls) /\ Len(calls) \in Nat
  BY CallsKept, IdsOfCalls DEF ChatTypeInv, RunOK
<1>2. \A i \in 1..n : seen[i].what # "text" =>
        /\ seen[i].id \in DOMAIN calls /\ seen[i].id \in DOMAIN calls'
        /\ seen[i].agent = calls'[seen[i].id].agent
        /\ calls'[seen[i].id].under = calls[seen[i].id].under
        /\ seen[i].what = "end" => calls[seen[i].id].state = "over" /\ calls'[seen[i].id].state = "over"
  BY <1>1 DEF EventInv, Kept
<1>3. \A i \in DOMAIN seen' : seen'[i].what # "text" =>
        seen'[i].id \in DOMAIN calls' /\ seen'[i].agent = calls'[seen'[i].id].agent
  BY <1>2
<1>4. \A i \in 1..n : seen[i].what = ev.what /\ ev.what # "text" => seen[i].id # ev.id
  <2>1. ev.what \in {"text", "start", "end"}
    BY DEF SeenEvents
  <2>2. QED
    BY <1>2, <2>1 DEF EndsCleanly
<1>5. ASSUME NEW i \in DOMAIN seen', NEW j \in DOMAIN seen', i # j, seen'[i].what = seen'[j].what,
             seen'[i].what # "text"
      PROVE  seen'[i].id # seen'[j].id
  BY <1>4, <1>5 DEF EventInv
<1>6. ASSUME NEW i \in DOMAIN seen', NEW j \in DOMAIN seen',
             seen'[i].what = "start", seen'[j].what = "end", seen'[i].id = seen'[j].id
      PROVE  i < j
  <2>1. CASE i \in 1..n /\ j \in 1..n
    BY <1>6, <2>1 DEF EventInv
  <2>2. CASE i \in 1..n /\ j = n + 1
    BY <2>2
  <2>3. CASE i = n + 1
    BY <1>2, <1>6, <2>3
  <2>4. QED
    BY <2>1, <2>2, <2>3
<1>7. \A i \in DOMAIN seen' : seen'[i].what = "end" => calls'[seen'[i].id].state = "over"
  BY <1>2
<1>8. ASSUME NEW i \in DOMAIN seen', NEW j \in DOMAIN seen', seen'[i].what = "end",
             seen'[j].what = "end", calls'[seen'[i].id].under = seen'[j].id
      PROVE  i < j
  <2>1. CASE i \in 1..n /\ j \in 1..n
    BY <1>2, <1>8, <2>1 DEF EventInv
  <2>2. CASE i \in 1..n /\ j = n + 1
    BY <2>2
  <2>3. CASE i = n + 1
    <3>1. ev.id \in DOMAIN calls /\ EndsCleanly(ev.id) /\ calls[ev.id].under = seen'[j].id
      BY <1>1, <1>8, <2>3 DEF Kept
    <3>2. CASE j = n + 1
      BY <3>1, <3>2 DEF EndsCleanly
    <3>3. CASE j \in 1..n
      <4>1. seen[j].id \in DOMAIN calls /\ calls[seen[j].id].state = "over" /\ seen[j].id # 0
        BY <1>1, <1>2, <1>8, <3>3
      <4>2. calls[ev.id].under = seen[j].id /\ calls[ev.id].state # "over"
        BY <3>1, <3>3 DEF EndsCleanly
      <4>3. QED
        BY <3>1, <4>1, <4>2 DEF EventInv
    <3>4. QED
      BY <3>2, <3>3
  <2>4. QED
    BY <2>1, <2>2, <2>3
<1>9. QED
  BY <1>3, <1>5, <1>6, <1>7, <1>8 DEF EventInv

\* A persona's loop keeps its call open while a call of its own is.
LEMMA NestedStep ==
  ASSUME ChatTypeInv, EventInv, [ChatNext]_chatVars
  PROVE  \A n \in DOMAIN calls' : calls'[n].under # 0 /\ calls'[n].state # "over" =>
           calls'[n].under \in DOMAIN calls' /\ calls'[calls'[n].under].state = "persona"
<1>1. /\ RunOK /\ \A id \in DOMAIN calls : Kept(id)
      /\ DOMAIN calls = 1..Len(calls) /\ Len(calls) \in Nat
  BY CallsKept, IdsOfCalls DEF ChatTypeInv, RunOK
<1>2. ASSUME NEW n \in DOMAIN calls, calls'[n].under # 0, calls'[n].state # "over"
      PROVE  /\ calls'[n].under = calls[n].under /\ calls[n].state # "over"
             /\ calls[n].under \in DOMAIN calls /\ calls[n].under \in DOMAIN calls'
             /\ calls[calls[n].under].state = "persona"
  BY <1>1, <1>2 DEF EventInv, Kept
<1>3. ASSUME NEW n \in DOMAIN calls', n \in DOMAIN calls, calls'[n].under # 0, calls'[n].state # "over"
      PROVE  calls'[calls'[n].under].state = "persona"
  <2> DEFINE u == calls[n].under
  <2>1. u \in DOMAIN calls /\ calls[u].state = "persona" /\ calls'[n].under = u
    BY <1>2, <1>3
  <2> HIDE DEF u
  <2>2. CASE calls' = calls
    BY <2>1, <2>2
  <2>3. CASE StreamedChange
    BY <1>1, <2>1, <2>3, StreamedEffect DEF StreamedChange, Streamed
  <2>4. CASE ToolUseStart
    BY <1>1, <2>1, <2>4, StartEffect
  <2>5. CASE \E id \in DOMAIN calls : PersonaToolStart(id)
    BY <1>1, <2>1, <2>5, PersonaStartEffect
  <2>6. CASE \E id \in DOMAIN calls : StartHeartbeat(id)
    <3>1. PICK id \in DOMAIN calls : SetCall(id, "looping") /\ calls[id].state = "running"
      BY <2>6 DEF StartHeartbeat
    <3>2. calls'[u] = calls[u]
      BY <1>1, <2>1, <3>1, SetCallEffect
    <3>3. QED
      BY <2>1, <3>2
  <2>7. CASE CallEnds
    <3>1. PICK id \in DOMAIN calls : EndsCleanly(id) /\ SetCall(id, "over")
      BY <2>7 DEF CallEnds
    <3>2. id # u
      BY <1>2, <1>3, <3>1 DEF EndsCleanly, u
    <3>3. calls'[u] = calls[u]
      BY <1>1, <2>1, <3>1, <3>2, SetCallEffect
    <3>4. QED
      BY <2>1, <3>3
  <2>8. CASE \E id \in DOMAIN calls : PersonaDelta(id)
    <3>1. PICK id \in DOMAIN calls : SetCall(id, "persona")
      BY <2>8 DEF PersonaDelta
    <3>2. calls'[u].state = "persona"
      BY <1>1, <2>1, <3>1, SetCallEffect
    <3>3. QED
      BY <2>1, <3>2
  <2>9. QED
    BY <2>2, <2>3, <2>4, <2>5, <2>6, <2>7, <2>8, EventCases
<1>4. ASSUME NEW n \in DOMAIN calls', n \notin DOMAIN calls, calls'[n].under # 0
      PROVE  calls'[n].under \in DOMAIN calls' /\ calls'[calls'[n].under].state = "persona"
  <2>1. n = Len(calls) + 1
    BY <1>1, <1>4, CallsKept
  <2>2. CASE calls' = calls
    BY <1>4, <2>2
  <2>3. CASE StreamedChange
    BY <1>1, <1>4, <2>3, StreamedEffect DEF StreamedChange
  <2>4. CASE ToolUseStart
    BY <1>1, <1>4, <2>1, <2>4, StartEffect, FieldsOf
  <2>5. CASE \E id \in DOMAIN calls : PersonaToolStart(id)
    <3>1. PICK id \in DOMAIN calls : PersonaToolStart(id)
      BY <2>5
    <3>2. calls'[n] = Call("persona", id, "running") /\ calls'[id].state = "persona" /\ id \in DOMAIN calls'
      BY <1>1, <2>1, <3>1, PersonaStartEffect
    <3>3. QED
      BY <3>2 DEF Call
  <2>6. CASE \E id \in DOMAIN calls : StartHeartbeat(id)
    BY <1>1, <1>4, <2>6, SetCallEffect DEF StartHeartbeat
  <2>7. CASE CallEnds
    BY <1>1, <1>4, <2>7, SetCallEffect DEF CallEnds
  <2>8. CASE \E id \in DOMAIN calls : PersonaDelta(id)
    BY <1>1, <1>4, <2>8, SetCallEffect DEF PersonaDelta
  <2>9. QED
    BY <2>2, <2>3, <2>4, <2>5, <2>6, <2>7, <2>8, EventCases
<1>5. QED
  BY <1>2, <1>3, <1>4

LEMMA EventStep == ChatTypeInv /\ EventInv /\ [ChatNext]_chatVars => EventInv'
<1> SUFFICES ASSUME ChatTypeInv, EventInv, [ChatNext]_chatVars PROVE EventInv'
  OBVIOUS
<1> DEFINE N == \A n \in DOMAIN calls' : calls'[n].under # 0 /\ calls'[n].state # "over" =>
                  calls'[n].under \in DOMAIN calls' /\ calls'[calls'[n].under].state = "persona"
<1>1. RunOK /\ TabOK /\ N /\ DOMAIN calls = 1..Len(calls) /\ Len(calls) \in Nat
  BY NestedStep, IdsOfCalls DEF ChatTypeInv, RunOK
<1>2. CASE seen' \in {seen, <<>>}
  BY <1>1, <1>2, EventsStay
<1>3. ASSUME NEW ev \in SeenEvents, Emit(ev),
             ev.what # "text" => ev.id \in DOMAIN calls' /\ ev.agent = calls'[ev.id].agent,
             ev.what = "start" => ev.id \notin DOMAIN calls,
             ev.what = "end" => ev.id \in DOMAIN calls /\ EndsCleanly(ev.id) /\ calls'[ev.id].state = "over"
      PROVE  EventInv'
  <2>1. CASE seen' = seen
    BY <1>2, <2>1
  <2>2. CASE seen' # seen
    <3>1. PICK n \in Nat : /\ n = Len(seen) /\ DOMAIN seen = 1..n
                           /\ DOMAIN seen' = 1..(n + 1) /\ seen'[n + 1] = ev
                           /\ \A i \in 1..n : seen'[i] = seen[i]
      BY <1>1, <1>3, <2>2, EmittedLast
    <3> HIDE DEF N
    <3>2. QED
      BY <1>1, <1>3, <3>1, EventAdded DEF N
  <2>3. QED
    BY <2>1, <2>2
<1>4. CASE \E id \in DOMAIN calls : PersonaDelta(id)
  <2>1. /\ Event("text", "persona", 0, FALSE) \in SeenEvents
        /\ Event("text", "persona", 0, FALSE).what = "text"
    BY RecordsTyped DEF Event
  <2>2. QED
    BY <1>3, <1>4, <2>1 DEF PersonaDelta
<1>5. CASE ToolUseStart
  <2> DEFINE ev == Event("start", "brain", Len(calls) + 1, FALSE)
  <2>1. /\ ev \in SeenEvents /\ ev.what = "start" /\ ev.id = Len(calls) + 1 /\ ev.agent = "brain"
    BY <1>1, <1>5, IdsOfCalls, RecordsTyped DEF Event, ToolUseStart
  <2>2. Emit(ev)
    BY <1>5 DEF ToolUseStart
  <2> HIDE DEF ev
  <2>3. calls'[ev.id].agent = "brain" /\ ev.id \in DOMAIN calls' /\ ev.id \notin DOMAIN calls
    BY <1>1, <1>5, <2>1, StartEffect, FieldsOf
  <2>4. QED
    BY <1>3, <2>1, <2>2, <2>3
<1>6. CASE \E id \in DOMAIN calls : PersonaToolStart(id)
  <2>1. PICK id \in DOMAIN calls : PersonaToolStart(id)
    BY <1>6
  <2> DEFINE ev == Event("start", "persona", Len(calls) + 1, FALSE)
  <2>2. /\ ev \in SeenEvents /\ ev.what = "start" /\ ev.id = Len(calls) + 1 /\ ev.agent = "persona"
    BY <1>1, <2>1, IdsOfCalls, RecordsTyped DEF Event, PersonaToolStart
  <2>3. Emit(ev)
    BY <2>1 DEF PersonaToolStart
  <2> HIDE DEF ev
  <2>4. calls'[ev.id].agent = "persona" /\ ev.id \in DOMAIN calls' /\ ev.id \notin DOMAIN calls
    BY <1>1, <2>1, <2>2, PersonaStartEffect, FieldsOf
  <2>5. QED
    BY <1>3, <2>2, <2>3, <2>4
<1>7. CASE CallEnds
  <2>1. PICK id \in DOMAIN calls, b \in BOOLEAN :
          EndsCleanly(id) /\ SetCall(id, "over") /\ Emit(Event("end", calls[id].agent, id, b))
    BY <1>7 DEF CallEnds
  <2> DEFINE ev == Event("end", calls[id].agent, id, b)
  <2>2. ev \in SeenEvents /\ ev.what = "end" /\ ev.id = id /\ ev.agent = calls[id].agent
    <3>1. calls[id].agent \in {"brain", "persona"} /\ id \in Ids
      BY <1>1, IdsOfCalls DEF ToolCalls
    <3>2. QED
      BY <3>1, RecordsTyped DEF Event
  <2>3. Emit(ev)
    BY <2>1
  <2> HIDE DEF ev
  <2>4. id \in DOMAIN calls' /\ calls'[id].agent = calls[id].agent /\ calls'[id].state = "over"
    BY <1>1, <2>1, SetCallEffect
  <2>5. QED
    BY <1>3, <2>1, <2>2, <2>3, <2>4
<1>8. QED
  BY <1>2, <1>4, <1>5, <1>6, <1>7, EventCases DEF StreamedChange, StartHeartbeat, tabVars

-----------------------------------------------------------------------------
\* The rows of a turn and the open scope, and what one event does to them.
Kids   == [what : {"text", "start"}, agent : {"brain", "persona"}, id : Ids \union {0},
           over : BOOLEAN, kids : {<<>>}]
Rows   == [what : {"text", "start"}, agent : {"brain", "persona"}, id : Ids \union {0},
           over : BOOLEAN, kids : Seq(Kids)]
Shown  == {g \in [rows : Seq(Rows), open : Nat] : g.open <= Len(g.rows)}

LEMMA RowsTyped ==
  /\ \A e \in SeenEvents : e.what # "end" => Row(e) \in Rows /\ Row(e) \in Kids
  /\ \A e : /\ Row(e).what = e.what /\ Row(e).agent = e.agent /\ Row(e).id = e.id
            /\ Row(e).over = FALSE /\ Row(e).kids = <<>>
BY DEF Row, Rows, Kids, SeenEvents

\* Rows and kids keep what they are; what is over stays so, and only an end makes it so.
SameRow(r, s) == s.what = r.what /\ s.agent = r.agent /\ s.id = r.id
Closes(r, s, e) == SameRow(r, s) /\ (r.over => s.over) /\ (s.over => r.over \/ r.id = e.id)

\* What CloseRow does to the list it looks in.
Marked(list, e) ==
  LET match == {i \in DOMAIN list : list[i].what = "start" /\ list[i].id = e.id /\ ~list[i].over}
  IN  [i \in DOMAIN list |->
        IF i \in match /\ \A j \in match : j <= i
        THEN [list[i] EXCEPT !.over = TRUE] ELSE list[i]]

LEMMA KidsMarked ==
  ASSUME NEW list \in Seq(Kids), NEW e
  PROVE  /\ Marked(list, e) \in Seq(Kids) /\ Len(Marked(list, e)) = Len(list)
         /\ \A c \in 1..Len(list) :
              /\ Closes(list[c], Marked(list, e)[c], e)
              /\ list[c].what = "start" /\ list[c].id = e.id
                 /\ (\A d \in 1..Len(list) : list[d].what = "start" /\ list[d].id = e.id => d = c)
                   => Marked(list, e)[c].over
<1> DEFINE m == Marked(list, e)
           match == {i \in DOMAIN list : list[i].what = "start" /\ list[i].id = e.id /\ ~list[i].over}
<1>1. Len(list) \in Nat /\ DOMAIN list = 1..Len(list) /\ \A c \in 1..Len(list) : list[c] \in Kids
  OBVIOUS
<1>2. DOMAIN m = 1..Len(list)
      /\ \A c \in 1..Len(list) :
           m[c] = IF c \in match /\ \A j \in match : j <= c
                  THEN [list[c] EXCEPT !.over = TRUE] ELSE list[c]
  BY <1>1 DEF Marked
<1> HIDE DEF m
<1>3. ASSUME NEW c \in 1..Len(list)
      PROVE  /\ [list[c] EXCEPT !.over = TRUE] \in Kids
             /\ SameRow(list[c], [list[c] EXCEPT !.over = TRUE])
             /\ [list[c] EXCEPT !.over = TRUE].over
  BY <1>1 DEF Kids, SameRow
<1>4. ASSUME NEW c \in 1..Len(list)
      PROVE  m[c] \in Kids /\ Closes(list[c], m[c], e)
  <2>1. CASE m[c] = list[c]
    BY <1>1, <2>1 DEF Closes, SameRow
  <2>2. CASE c \in match /\ m[c] = [list[c] EXCEPT !.over = TRUE]
    BY <1>1, <1>3, <2>2 DEF Closes
  <2>3. QED
    BY <1>2, <2>1, <2>2
<1>5. ASSUME NEW c \in 1..Len(list), list[c].what = "start", list[c].id = e.id,
             \A d \in 1..Len(list) : list[d].what = "start" /\ list[d].id = e.id => d = c
      PROVE  m[c].over
  <2>1. CASE list[c].over
    BY <1>4, <2>1 DEF Closes
  <2>2. CASE ~list[c].over
    <3>1. c \in match /\ \A j \in match : j <= c
      BY <1>1, <1>5, <2>2
    <3>2. QED
      BY <1>2, <1>3, <3>1
  <2>3. QED
    BY <2>1, <2>2
<1>6. m \in [1..Len(list) -> Kids] /\ m = [c \in 1..Len(list) |-> m[c]]
  BY <1>2, <1>4 DEF m, Marked
<1>7. m \in Seq(Kids) /\ Len(m) = Len(list)
  BY <1>1, <1>6, SeqFromFcn
<1>8. QED
  BY <1>4, <1>5, <1>7 DEF m

LEMMA RowsMarked ==
  ASSUME NEW list \in Seq(Rows), NEW e
  PROVE  /\ Marked(list, e) \in Seq(Rows) /\ Len(Marked(list, e)) = Len(list)
         /\ \A c \in 1..Len(list) :
              Closes(list[c], Marked(list, e)[c], e) /\ Marked(list, e)[c].kids = list[c].kids
<1> DEFINE m == Marked(list, e)
           match == {i \in DOMAIN list : list[i].what = "start" /\ list[i].id = e.id /\ ~list[i].over}
<1>1. Len(list) \in Nat /\ DOMAIN list = 1..Len(list) /\ \A c \in 1..Len(list) : list[c] \in Rows
  OBVIOUS
<1>2. DOMAIN m = 1..Len(list)
      /\ \A c \in 1..Len(list) :
           m[c] = IF c \in match /\ \A j \in match : j <= c
                  THEN [list[c] EXCEPT !.over = TRUE] ELSE list[c]
  BY <1>1 DEF Marked
<1> HIDE DEF m
<1>3. ASSUME NEW c \in 1..Len(list)
      PROVE  /\ [list[c] EXCEPT !.over = TRUE] \in Rows
             /\ SameRow(list[c], [list[c] EXCEPT !.over = TRUE])
             /\ [list[c] EXCEPT !.over = TRUE].over
             /\ [list[c] EXCEPT !.over = TRUE].kids = list[c].kids
  BY <1>1 DEF Rows, SameRow
<1>4. ASSUME NEW c \in 1..Len(list)
      PROVE  m[c] \in Rows /\ Closes(list[c], m[c], e) /\ m[c].kids = list[c].kids
  <2>1. CASE m[c] = list[c]
    BY <1>1, <2>1 DEF Closes, SameRow
  <2>2. CASE c \in match /\ m[c] = [list[c] EXCEPT !.over = TRUE]
    BY <1>1, <1>3, <2>2 DEF Closes
  <2>3. QED
    BY <1>2, <2>1, <2>2
<1>5. m \in [1..Len(list) -> Rows] /\ m = [c \in 1..Len(list) |-> m[c]]
  BY <1>2, <1>4 DEF m, Marked
<1>6. m \in Seq(Rows) /\ Len(m) = Len(list)
  BY <1>1, <1>5, SeqFromFcn
<1>7. QED
  BY <1>4, <1>6 DEF m

\* A record that is open, and its list.
LEMMA OpenRow ==
  ASSUME NEW g \in Shown
  PROVE  /\ g.rows \in Seq(Rows) /\ g.open \in Nat /\ g.open <= Len(g.rows) /\ Len(g.rows) \in Nat
         /\ \A k \in 1..Len(g.rows) : g.rows[k] \in Rows /\ g.rows[k].kids \in Seq(Kids)
         /\ g.open # 0 => g.open \in 1..Len(g.rows)
<1>1. g.rows \in Seq(Rows) /\ g.open \in Nat /\ g.open <= Len(g.rows)
  BY DEF Shown
<1>2. Len(g.rows) \in Nat /\ \A k \in 1..Len(g.rows) : g.rows[k] \in Rows
  BY <1>1
<1>3. \A r \in Rows : r.kids \in Seq(Kids)
  BY DEF Rows
<1>4. QED
  BY <1>1, <1>2, <1>3

LEMMA TopWritten ==
  ASSUME NEW g \in Shown, g.open = 0, NEW list \in Seq(Rows)
  PROVE  WithScope(g, list) \in Shown /\ WithScope(g, list).rows = list /\ WithScope(g, list).open = 0
<1> DEFINE r == [g EXCEPT !.rows = list]
<1>1. WithScope(g, list) = r
  BY DEF WithScope
<1>2. r.rows = list /\ r.open = 0 /\ r \in [rows : Seq(Rows), open : Nat]
  BY DEF Shown
<1> HIDE DEF r
<1>3. r \in Shown
  BY <1>2 DEF Shown
<1>4. QED
  BY <1>1, <1>2, <1>3

LEMMA KidsWritten ==
  ASSUME NEW g \in Shown, g.open # 0, NEW list \in Seq(Kids)
  PROVE  LET r == WithScope(g, list) IN
         /\ r \in Shown /\ r.open = g.open /\ Len(r.rows) = Len(g.rows)
         /\ \A k \in 1..Len(g.rows) : k # g.open => r.rows[k] = g.rows[k]
         /\ SameRow(g.rows[g.open], r.rows[g.open])
         /\ r.rows[g.open].over = g.rows[g.open].over
         /\ r.rows[g.open].kids = list
<1> DEFINE o == g.open  w == [g.rows[o] EXCEPT !.kids = list]  rs == [g.rows EXCEPT ![o] = w]
           r == [g EXCEPT !.rows = rs]
<1>1. /\ g.rows \in Seq(Rows) /\ o \in 1..Len(g.rows) /\ g.rows[o] \in Rows
      /\ o \in Nat /\ o <= Len(g.rows) /\ Len(g.rows) \in Nat
  BY OpenRow
<1>2. w \in Rows /\ SameRow(g.rows[o], w) /\ w.over = g.rows[o].over /\ w.kids = list
  <2>1. w \in Rows /\ SameRow(g.rows[o], w) /\ w.kids = list
    BY <1>1 DEF Rows, SameRow
  <2>2. w.over = g.rows[o].over
    BY <1>1, Zenon DEF Rows
  <2>3. QED
    BY <2>1, <2>2
<1>3. WithScope(g, list) = r
  BY Zenon DEF WithScope
<1> HIDE DEF w
<1>4. /\ rs \in Seq(Rows) /\ Len(rs) = Len(g.rows) /\ rs[o] = w
      /\ \A k \in 1..Len(g.rows) : k # o => rs[k] = g.rows[k]
  BY <1>1, <1>2
<1> HIDE DEF rs
<1>5. r.rows = rs /\ r.open = o /\ r \in [rows : Seq(Rows), open : Nat]
  BY <1>4 DEF Shown
<1> HIDE DEF r
<1>6. r \in Shown
  BY <1>1, <1>4, <1>5 DEF Shown
<1> USE DEF r
<1> HIDE DEF r
<1>7. QED
  BY <1>2, <1>3, <1>4, <1>5, <1>6

-----------------------------------------------------------------------------
\* What one event does: it opens a scope, ends the open one, ends a row in it, or is
\* put into it.
Opened(g, r, e) ==
  /\ r.open = Len(g.rows) + 1 /\ Len(r.rows) = Len(g.rows) + 1
  /\ r.rows[Len(g.rows) + 1] = Row(e)
  /\ \A k \in 1..Len(g.rows) : r.rows[k] = g.rows[k]

Ended(g, r) ==
  /\ r.open = 0 /\ Len(r.rows) = Len(g.rows)
  /\ \A k \in 1..Len(g.rows) : k # g.open => r.rows[k] = g.rows[k]
  /\ SameRow(g.rows[g.open], r.rows[g.open])
  /\ r.rows[g.open].over /\ r.rows[g.open].kids = g.rows[g.open].kids

Searched(g, r, e) ==
  /\ r.open = g.open /\ Len(r.rows) = Len(g.rows)
  /\ g.open = 0 => \A k \in 1..Len(g.rows) :
       Closes(g.rows[k], r.rows[k], e) /\ r.rows[k].kids = g.rows[k].kids
  /\ g.open # 0 =>
       /\ \A k \in 1..Len(g.rows) : k # g.open => r.rows[k] = g.rows[k]
       /\ SameRow(g.rows[g.open], r.rows[g.open])
       /\ r.rows[g.open].over = g.rows[g.open].over
       /\ r.rows[g.open].kids = Marked(g.rows[g.open].kids, e)

Put(g, r, e) ==
  /\ r.open = g.open
  /\ g.open = 0 => /\ r.rows \in {g.rows, Append(g.rows, Row(e))}
                   /\ e.what = "start" => r.rows = Append(g.rows, Row(e))
  /\ g.open # 0 =>
       /\ Len(r.rows) = Len(g.rows)
       /\ \A k \in 1..Len(g.rows) : k # g.open => r.rows[k] = g.rows[k]
       /\ SameRow(g.rows[g.open], r.rows[g.open])
       /\ r.rows[g.open].over = g.rows[g.open].over
       /\ r.rows[g.open].kids \in {g.rows[g.open].kids, Append(g.rows[g.open].kids, Row(e))}
       /\ e.what = "start" => r.rows[g.open].kids = Append(g.rows[g.open].kids, Row(e))

EndsScope(g, e) == e.agent = "brain" /\ g.open # 0 /\ g.rows[g.open].id = e.id

LEMMA ScopeOpens ==
  ASSUME NEW g \in Shown, NEW e \in SeenEvents, e.what = "start", e.agent = "brain"
  PROVE  GroupEvent(g, e) \in Shown /\ Opened(g, GroupEvent(g, e), e)
<1> DEFINE rs == Append(g.rows, Row(e))  r == [rows |-> rs, open |-> Len(g.rows) + 1]
<1>1. GroupEvent(g, e) = r
  BY DEF GroupEvent, OpenScope, MergesIntoTail
<1>2. g.rows \in Seq(Rows) /\ Len(g.rows) \in Nat /\ Row(e) \in Rows
  BY OpenRow, RowsTyped
<1>3. /\ rs \in Seq(Rows) /\ Len(rs) = Len(g.rows) + 1 /\ rs[Len(g.rows) + 1] = Row(e)
      /\ \A k \in 1..Len(g.rows) : rs[k] = g.rows[k]
  BY <1>2
<1> HIDE DEF rs
<1>4. r \in Shown /\ r.rows = rs /\ r.open = Len(g.rows) + 1
  BY <1>2, <1>3 DEF Shown
<1>5. QED
  BY <1>1, <1>3, <1>4 DEF Opened

LEMMA ScopeEnds ==
  ASSUME NEW g \in Shown, NEW e \in SeenEvents, e.what = "end", EndsScope(g, e)
  PROVE  GroupEvent(g, e) \in Shown /\ Ended(g, GroupEvent(g, e))
<1> DEFINE o == g.open  w == [g.rows[o] EXCEPT !.over = TRUE]  rs == [g.rows EXCEPT ![o] = w]
           r == [rows |-> rs, open |-> 0]
<1>1. g.rows \in Seq(Rows) /\ o \in 1..Len(g.rows) /\ g.rows[o] \in Rows /\ Len(g.rows) \in Nat
  BY OpenRow DEF EndsScope
<1>2. w \in Rows /\ SameRow(g.rows[o], w) /\ w.over /\ w.kids = g.rows[o].kids
  BY <1>1 DEF Rows, SameRow
<1>3. GroupEvent(g, e) = r
  BY DEF GroupEvent, GroupEnd, EndsScope, MergesIntoTail
<1> HIDE DEF w
<1>4. /\ rs \in Seq(Rows) /\ Len(rs) = Len(g.rows) /\ rs[o] = w
      /\ \A k \in 1..Len(g.rows) : k # o => rs[k] = g.rows[k]
  BY <1>1, <1>2
<1> HIDE DEF rs
<1>5. r \in Shown /\ r.rows = rs /\ r.open = 0
  BY <1>1, <1>4 DEF Shown
<1>6. QED
  BY <1>2, <1>3, <1>4, <1>5 DEF Ended

LEMMA ScopeSearched ==
  ASSUME NEW g \in Shown, NEW e \in SeenEvents, e.what = "end", ~EndsScope(g, e)
  PROVE  GroupEvent(g, e) \in Shown /\ Searched(g, GroupEvent(g, e), e)
<1> DEFINE list == Scope(g)  r == WithScope(g, Marked(list, e))
<1>1. GroupEvent(g, e) = r
  BY DEF GroupEvent, GroupEnd, EndsScope, CloseRow, Marked, MergesIntoTail
<1>2. CASE g.open = 0
  <2>1. list = g.rows /\ g.rows \in Seq(Rows)
    BY <1>2, OpenRow DEF Scope
  <2>2. /\ Marked(list, e) \in Seq(Rows) /\ Len(Marked(list, e)) = Len(list)
        /\ \A c \in 1..Len(list) :
             Closes(list[c], Marked(list, e)[c], e) /\ Marked(list, e)[c].kids = list[c].kids
    BY <2>1, RowsMarked
  <2>3. r \in Shown /\ r.rows = Marked(list, e) /\ r.open = 0
    BY <1>2, <2>2, TopWritten
  <2> HIDE DEF r, list
  <2>4. Searched(g, r, e)
    BY <1>2, <2>1, <2>2, <2>3 DEF Searched
  <2>5. QED
    BY <1>1, <2>3, <2>4
<1>3. CASE g.open # 0
  <2>1. list = g.rows[g.open].kids /\ list \in Seq(Kids)
    BY <1>3, OpenRow DEF Scope
  <2>2. Marked(list, e) \in Seq(Kids)
    BY <2>1, KidsMarked
  <2>3. /\ r \in Shown /\ r.open = g.open /\ Len(r.rows) = Len(g.rows)
        /\ \A k \in 1..Len(g.rows) : k # g.open => r.rows[k] = g.rows[k]
        /\ SameRow(g.rows[g.open], r.rows[g.open])
        /\ r.rows[g.open].over = g.rows[g.open].over
        /\ r.rows[g.open].kids = Marked(list, e)
    BY <1>3, <2>2, KidsWritten
  <2> HIDE DEF r
  <2>4. Searched(g, r, e)
    BY <1>3, <2>1, <2>3 DEF Searched
  <2>5. QED
    BY <1>1, <2>3, <2>4
<1>4. QED
  BY <1>2, <1>3

LEMMA ScopeFilled ==
  ASSUME NEW g \in Shown, NEW e \in SeenEvents, e.what # "end",
         ~(e.what = "start" /\ e.agent = "brain")
  PROVE  GroupEvent(g, e) \in Shown /\ Put(g, GroupEvent(g, e), e)
<1> DEFINE list == Scope(g)  r == WithScope(g, Append(list, Row(e)))
<1>1. CASE MergesIntoTail(g, e)
  <2>1. GroupEvent(g, e) = g /\ e.what = "text"
    BY <1>1 DEF GroupEvent, MergesIntoTail
  <2>2. QED
    BY <2>1, OpenRow DEF Put, SameRow
<1>2. CASE ~MergesIntoTail(g, e)
  <2>1. GroupEvent(g, e) = r /\ Row(e) \in Rows /\ Row(e) \in Kids
    BY <1>2, RowsTyped DEF GroupEvent
  <2>2. CASE g.open = 0
    <3>1. list = g.rows /\ g.rows \in Seq(Rows)
      BY <2>2, OpenRow DEF Scope
    <3>2. Append(list, Row(e)) \in Seq(Rows)
      BY <2>1, <3>1
    <3>3. r \in Shown /\ r.rows = Append(list, Row(e)) /\ r.open = 0
      BY <2>2, <3>2, TopWritten
    <3> HIDE DEF r, list
    <3>4. QED
      BY <2>1, <2>2, <3>1, <3>3 DEF Put
  <2>3. CASE g.open # 0
    <3>1. list = g.rows[g.open].kids /\ list \in Seq(Kids)
      BY <2>3, OpenRow DEF Scope
    <3>2. Append(list, Row(e)) \in Seq(Kids)
      BY <2>1, <3>1
    <3>3. /\ r \in Shown /\ r.open = g.open /\ Len(r.rows) = Len(g.rows)
          /\ \A k \in 1..Len(g.rows) : k # g.open => r.rows[k] = g.rows[k]
          /\ SameRow(g.rows[g.open], r.rows[g.open])
          /\ r.rows[g.open].over = g.rows[g.open].over
          /\ r.rows[g.open].kids = Append(list, Row(e))
      BY <2>3, <3>2, KidsWritten
    <3> HIDE DEF r
    <3>4. QED
      BY <2>1, <2>3, <3>1, <3>3 DEF Put
  <2>4. QED
    BY <2>2, <2>3
<1>3. QED
  BY <1>1, <1>2

LEMMA EventShown ==
  ASSUME NEW g \in Shown, NEW e \in SeenEvents
  PROVE  GroupEvent(g, e) \in Shown
BY ScopeOpens, ScopeEnds, ScopeSearched, ScopeFilled

NoRows == [rows |-> <<>>, open |-> 0]

LEMMA FoldOfEvents ==
  ASSUME NEW q \in Seq(SeenEvents)
  PROVE  \E h : /\ h[0] = NoRows
                /\ \A i \in 0..Len(q) : h[i] \in Shown
                /\ \A i \in 1..Len(q) : h[i] = GroupEvent(h[i - 1], q[i])
                /\ FoldLeft(GroupEvent, NoRows, q) = h[Len(q)]
<1> DEFINE st == [p \in Shown \X SeenEvents |-> GroupEvent(p[1], p[2])]
           b == NoRows
<1>1. st \in [Shown \X SeenEvents -> Shown] /\ b \in Shown
  <2>1. b \in Shown
    BY DEF NoRows, Shown
  <2>2. QED
    BY <2>1, EventShown
<1>2. PICK n \in Nat : n = Len(q) /\ DOMAIN q = 1..n /\ q \in [1..n -> SeenEvents]
  BY LenProperties
<1> HIDE DEF st, b
<1>3. PICK g : Iterates(g, Shown, b, st, n, q)
  BY <1>1, <1>2, FoldIter
<1> DEFINE Unfolds(f) ==
             f = [s \in SUBSET (1..n) |->
                    IF s = {} THEN b ELSE GroupEvent(f[s \ {Top(s)}], q[Top(s)])]
<1>4. Unfolds(g) /\ g \in [SUBSET (1..n) -> Shown]
  <2>1. ASSUME NEW s \in SUBSET (1..n), s # {}
        PROVE  g[s] = GroupEvent(g[s \ {Top(s)}], q[Top(s)])
    <3>1. Top(s) \in 1..n
      BY <2>1, TopIn
    <3>2. g[s \ {Top(s)}] \in Shown /\ q[Top(s)] \in SeenEvents
      BY <1>2, <1>3, <3>1 DEF Iterates
    <3>3. QED
      BY <1>3, <2>1, <3>2 DEF st, Iterates
  <2>2. QED
    BY <1>3, <2>1 DEF Iterates
<1> DEFINE f == CHOOSE f : Unfolds(f)
           h == [i \in 0..n |-> f[1..i]]
<1>5. Unfolds(f)
  BY <1>4, Zenon
<1>6. FoldLeft(GroupEvent, NoRows, q) = f[1..n]
  BY <1>2, Zenon DEF FoldLeft, MapThenFoldSet, Top, Max, b
<1> HIDE DEF f
<1>7. f[1..0] = b /\ h[0] = f[1..0] /\ h[n] = f[1..n]
  BY <1>2, <1>5
<1>8. ASSUME NEW i \in 1..n PROVE h[i] = GroupEvent(h[i - 1], q[i])
  <2>1. Top(1..i) = i /\ 1..i # {} /\ (1..i) \ {i} = 1..(i - 1) /\ 1..i \in SUBSET (1..n)
    BY TopOfInterval, SMTT(30)
  <2>2. f[1..i] = GroupEvent(f[1..(i - 1)], q[i])
    BY <1>5, <2>1
  <2>3. h[i] = f[1..i] /\ h[i - 1] = f[1..(i - 1)]
    BY <1>2
  <2>4. QED
    BY <2>2, <2>3
<1> HIDE DEF h
<1> DEFINE P == {i \in 0..n : h[i] \in Shown}
<1>9. 0 \in P
  BY <1>1, <1>2, <1>7
<1>10. ASSUME NEW i \in 0..(n - 1), i \in P PROVE i + 1 \in P
  <2>1. i + 1 \in 1..n /\ (i + 1) - 1 = i /\ i + 1 \in 0..n /\ q[i + 1] \in SeenEvents
    BY <1>2
  <2>2. h[i + 1] = GroupEvent(h[i], q[i + 1])
    BY <1>8, <2>1
  <2>3. QED
    BY <1>10, <2>1, <2>2, EventShown
<1> HIDE DEF P
<1>11. 0..n \subseteq P
  BY <1>2, <1>9, <1>10, BoundedInduction
<1>12. \A i \in 0..n : h[i] \in Shown
  BY <1>11 DEF P
<1>13. QED
  BY <1>2, <1>6, <1>7, <1>8, <1>12 DEF b

\* Rows that are over are of calls whose end was among the events.
LEMMA OverHasEnd ==
  ASSUME NEW q \in Seq(SeenEvents),
         NEW k \in 1..Len(FoldLeft(GroupEvent, NoRows, q).rows),
         FoldLeft(GroupEvent, NoRows, q).rows[k].over
  PROVE  \E j \in 1..Len(q) : q[j].what = "end" /\ q[j].id = FoldLeft(GroupEvent, NoRows, q).rows[k].id
<1>1. PICK h : /\ h[0] = NoRows
               /\ \A i \in 0..Len(q) : h[i] \in Shown
               /\ \A i \in 1..Len(q) : h[i] = GroupEvent(h[i - 1], q[i])
               /\ FoldLeft(GroupEvent, NoRows, q) = h[Len(q)]
  BY FoldOfEvents
<1> DEFINE Good(i) == \A r \in 1..Len(h[i].rows) : h[i].rows[r].over =>
                        \E j \in 1..i : q[j].what = "end" /\ q[j].id = h[i].rows[r].id
           P == {i \in 0..Len(q) : Good(i)}
<1>2. Len(q) \in Nat /\ 0 \in P
  <2>1. h[0].rows = <<>>
    BY <1>1 DEF NoRows
  <2>2. 0 \in 0..Len(q) /\ Good(0)
    BY <2>1
  <2>3. QED
    BY <2>2
<1>3. ASSUME NEW i \in 0..(Len(q) - 1), i \in P PROVE i + 1 \in P
  <2> DEFINE g == h[i]  e == q[i + 1]  s == GroupEvent(g, e)
  <2>1. /\ i \in Nat /\ i + 1 \in 0..Len(q) /\ i + 1 \in 1..Len(q) /\ (i + 1) - 1 = i
        /\ e \in SeenEvents /\ i \in 0..Len(q)
    BY <1>2
  <2>2. g \in Shown /\ h[i + 1] = s /\ Good(i)
    BY <1>1, <1>3, <2>1
  <2>3. \A j \in 1..i : j \in 1..(i + 1)
    BY <2>1
  <2>4. /\ g.rows \in Seq(Rows) /\ Len(g.rows) \in Nat
        /\ g.open # 0 => g.open \in 1..Len(g.rows)
        /\ \A r \in 1..Len(g.rows) : g.rows[r].over =>
             \E j \in 1..(i + 1) : q[j].what = "end" /\ q[j].id = g.rows[r].id
    BY <2>2, <2>3, OpenRow
  <2>5. i + 1 \in 1..(i + 1) /\ e = q[i + 1]
    BY <2>1
  <2> HIDE DEF g, s, e, Good
  <2>6. \A r \in 1..Len(s.rows) : s.rows[r].over =>
           \E j \in 1..(i + 1) : q[j].what = "end" /\ q[j].id = s.rows[r].id
    <3> SUFFICES ASSUME NEW r \in 1..Len(s.rows), s.rows[r].over
                 PROVE  \E j \in 1..(i + 1) : q[j].what = "end" /\ q[j].id = s.rows[r].id
      OBVIOUS
    <3>1. CASE e.what = "start" /\ e.agent = "brain"
      <4>1. Opened(g, s, e)
        BY <2>1, <2>2, <3>1, ScopeOpens DEF s
      <4>2. ~Row(e).over
        BY RowsTyped
      <4>3. QED
        <5>1. r # Len(g.rows) + 1
          BY <4>1, <4>2 DEF Opened
        <5>2. r \in 1..Len(g.rows) /\ s.rows[r] = g.rows[r]
          BY <2>4, <4>1, <5>1 DEF Opened
        <5>3. QED
          BY <2>4, <5>2
    <3>2. CASE e.what = "end" /\ EndsScope(g, e)
      <4>1. Ended(g, s)
        BY <2>1, <2>2, <3>2, ScopeEnds DEF s
      <4>2. CASE r = g.open
        BY <2>5, <3>2, <4>1, <4>2 DEF Ended, SameRow, EndsScope
      <4>3. CASE r # g.open
        BY <2>4, <4>1, <4>3 DEF Ended
      <4>4. QED
        BY <4>2, <4>3
    <3>3. CASE e.what = "end" /\ ~EndsScope(g, e)
      <4>1. Searched(g, s, e)
        BY <2>1, <2>2, <3>3, ScopeSearched DEF s
      <4>2. CASE g.open = 0
        <5>1. Closes(g.rows[r], s.rows[r], e) /\ r \in 1..Len(g.rows)
          BY <4>1, <4>2 DEF Searched
        <5>2. QED
          BY <2>4, <2>5, <3>3, <5>1 DEF Closes, SameRow
      <4>3. CASE g.open # 0
        BY <2>4, <4>1, <4>3, SMTT(30) DEF Searched, SameRow
      <4>4. QED
        BY <4>2, <4>3
    <3>4. CASE e.what # "end" /\ ~(e.what = "start" /\ e.agent = "brain")
      <4>1. Put(g, s, e)
        BY <2>1, <2>2, <3>4, ScopeFilled DEF s
      <4>2. ~Row(e).over
        BY RowsTyped
      <4>3. CASE g.open = 0
        <5>1. CASE s.rows = g.rows
          BY <2>4, <5>1
        <5>2. CASE s.rows = Append(g.rows, Row(e))
          <6>1. Row(e) \in Rows
            BY <2>1, <3>4, RowsTyped
          <6>2. /\ Len(s.rows) = Len(g.rows) + 1 /\ s.rows[Len(g.rows) + 1] = Row(e)
                /\ \A x \in 1..Len(g.rows) : s.rows[x] = g.rows[x]
            BY <2>4, <5>2, <6>1
          <6>3. r # Len(g.rows) + 1
            BY <4>2, <6>2
          <6>4. r \in 1..Len(g.rows) /\ s.rows[r] = g.rows[r]
            BY <2>4, <6>2, <6>3
          <6>5. QED
            BY <2>4, <6>4
        <5>3. QED
          BY <4>1, <4>3, <5>1, <5>2 DEF Put
      <4>4. CASE g.open # 0
        BY <2>4, <4>1, <4>4 DEF Put, SameRow
      <4>5. QED
        BY <4>3, <4>4
    <3>5. QED
      BY <3>1, <3>2, <3>3, <3>4
  <2>7. Good(i + 1)
    BY <2>2, <2>6 DEF Good
  <2>8. QED
    BY <2>1, <2>7
<1> HIDE DEF P, Good
<1>4. 0..Len(q) \subseteq P
  BY <1>2, <1>3, BoundedInduction
<1>5. Good(Len(q))
  BY <1>2, <1>4 DEF P
<1>6. QED
  BY <1>1, <1>5 DEF Good

-----------------------------------------------------------------------------
\* Events of which each call has one start and one end, in this order.
EventsOnce(q) ==
  /\ \A a, b \in 1..Len(q) : a # b /\ q[a].what = q[b].what /\ q[a].what # "text" => q[a].id # q[b].id
  /\ \A a, b \in 1..Len(q) : q[a].what = "start" /\ q[b].what = "end" /\ q[a].id = q[b].id => a < b

HasEnded(q, id, p) == \E m \in 1..p : q[m].what = "end" /\ q[m].id = id

\* The kids of a scope that was opened by event i, after event p.
KidsOK(q, i, kids, p) ==
  /\ \A n \in (i + 1)..p : q[n].what = "start" =>
       \E c \in 1..Len(kids) : kids[c].what = "start" /\ kids[c].id = q[n].id
  /\ \A c \in 1..Len(kids) : kids[c].what = "start" =>
       /\ \E n \in (i + 1)..p : q[n].what = "start" /\ q[n].id = kids[c].id
       /\ kids[c].over <=> HasEnded(q, kids[c].id, p)
  /\ \A c, d \in 1..Len(kids) :
       kids[c].what = "start" /\ kids[d].what = "start" /\ kids[c].id = kids[d].id => c = d

LEMMA NextPosition ==
  ASSUME NEW i \in Nat, NEW p \in Nat, i <= p
  PROVE  /\ (i + 1)..(p + 1) = ((i + 1)..p) \union {p + 1}
         /\ 1..(p + 1) = (1..p) \union {p + 1}
         /\ \A n \in (i + 1)..p : n \in 1..p
OBVIOUS

LEMMA KidsSame ==
  ASSUME NEW q \in Seq(SeenEvents), NEW i \in Nat, NEW p \in Nat, i <= p, p + 1 \in 1..Len(q),
         NEW kids \in Seq(Kids), KidsOK(q, i, kids, p), q[p + 1].what = "text"
  PROVE  KidsOK(q, i, kids, p + 1)
<1>1. \A id : HasEnded(q, id, p + 1) <=> HasEnded(q, id, p)
  BY NextPosition DEF HasEnded
<1>2. \A n \in (i + 1)..(p + 1) : q[n].what = "start" => n \in (i + 1)..p
  BY NextPosition
<1>3. \A n \in (i + 1)..p : n \in (i + 1)..(p + 1)
  BY NextPosition
<1>4. QED
  BY <1>1, <1>2, <1>3, Zenon DEF KidsOK

LEMMA KidAppended ==
  ASSUME NEW q \in Seq(SeenEvents), EventsOnce(q),
         NEW i \in Nat, NEW p \in Nat, i <= p, p + 1 \in 1..Len(q),
         NEW kids \in Seq(Kids), KidsOK(q, i, kids, p), q[p + 1].what \in {"text", "start"}
  PROVE  Append(kids, Row(q[p + 1])) \in Seq(Kids) /\ KidsOK(q, i, Append(kids, Row(q[p + 1])), p + 1)
<1> DEFINE e == q[p + 1]  row == Row(e)  new == Append(kids, row)  l == Len(kids)
<1>1. /\ row \in Kids /\ row.what = e.what /\ row.id = e.id /\ row.over = FALSE
  <2>1. e \in SeenEvents
    OBVIOUS
  <2>2. QED
    BY <2>1, RowsTyped
<1>2. /\ new \in Seq(Kids) /\ Len(new) = l + 1 /\ new[l + 1] = row /\ l \in Nat
      /\ \A c \in 1..l : new[c] = kids[c]
  BY <1>1
<1> HIDE DEF row, new, l
<1>3. \A id : HasEnded(q, id, p + 1) <=> HasEnded(q, id, p)
  BY NextPosition DEF HasEnded
<1>4. ASSUME NEW n \in (i + 1)..(p + 1), q[n].what = "start"
      PROVE  \E c \in 1..Len(new) : new[c].what = "start" /\ new[c].id = q[n].id
  <2>1. CASE n = p + 1
    BY <1>1, <1>2, <1>4, <2>1
  <2>2. CASE n \in (i + 1)..p
    <3>1. PICK c \in 1..l : kids[c].what = "start" /\ kids[c].id = q[n].id
      BY <1>4, <2>2 DEF KidsOK, l
    <3>2. QED
      BY <1>2, <3>1
  <2>3. QED
    BY <2>1, <2>2, NextPosition
<1>5. ASSUME NEW c \in 1..l, kids[c].what = "start"
      PROVE  kids[c].id # e.id \/ e.what = "text"
  <2>1. PICK n \in (i + 1)..p : q[n].what = "start" /\ q[n].id = kids[c].id
    BY <1>5 DEF KidsOK, l
  <2>2. n \in 1..Len(q) /\ n # p + 1
    BY <2>1
  <2>3. QED
    BY <2>1, <2>2 DEF EventsOnce
<1>6. ASSUME NEW c \in 1..Len(new), new[c].what = "start"
      PROVE  /\ \E n \in (i + 1)..(p + 1) : q[n].what = "start" /\ q[n].id = new[c].id
             /\ new[c].over <=> HasEnded(q, new[c].id, p + 1)
  <2>1. CASE c = l + 1
    <3>1. p + 1 \in (i + 1)..(p + 1) /\ e.what = "start" /\ new[c].id = e.id /\ ~new[c].over
      BY <1>1, <1>2, <1>6, <2>1
    <3>2. ~HasEnded(q, e.id, p)
      <4>1. ASSUME NEW m \in 1..p, q[m].what = "end", q[m].id = e.id PROVE FALSE
        <5>1. m \in 1..Len(q) /\ m < p + 1
          BY <4>1
        <5>2. QED
          BY <3>1, <4>1, <5>1 DEF EventsOnce
      <4>2. QED
        BY <4>1 DEF HasEnded
    <3>3. QED
      BY <1>3, <3>1, <3>2
  <2>2. CASE c \in 1..l
    <3>1. new[c] = kids[c]
      BY <1>2, <2>2
    <3>2. /\ \E n \in (i + 1)..p : q[n].what = "start" /\ q[n].id = kids[c].id
          /\ kids[c].over <=> HasEnded(q, kids[c].id, p)
      BY <1>6, <2>2, <3>1 DEF KidsOK, l
    <3>3. QED
      BY <1>3, <3>1, <3>2, NextPosition
  <2>3. QED
    BY <1>2, <2>1, <2>2
<1>7. ASSUME NEW c \in 1..Len(new), NEW d \in 1..Len(new),
             new[c].what = "start", new[d].what = "start", new[c].id = new[d].id
      PROVE  c = d
  BY <1>1, <1>2, <1>5, <1>7 DEF KidsOK, l
<1>8. KidsOK(q, i, new, p + 1)
  BY <1>4, <1>6, <1>7 DEF KidsOK
<1>9. QED
  BY <1>2, <1>8 DEF new, row

LEMMA KidsSearched ==
  ASSUME NEW q \in Seq(SeenEvents), NEW i \in Nat, NEW p \in Nat, i <= p, p + 1 \in 1..Len(q),
         NEW kids \in Seq(Kids), KidsOK(q, i, kids, p), q[p + 1].what = "end"
  PROVE  Marked(kids, q[p + 1]) \in Seq(Kids) /\ KidsOK(q, i, Marked(kids, q[p + 1]), p + 1)
<1> DEFINE e == q[p + 1]  new == Marked(kids, e)  l == Len(kids)
<1>1. /\ new \in Seq(Kids) /\ Len(new) = l
      /\ \A c \in 1..l :
           /\ Closes(kids[c], new[c], e)
           /\ kids[c].what = "start" /\ kids[c].id = e.id
              /\ (\A d \in 1..l : kids[d].what = "start" /\ kids[d].id = e.id => d = c)
                => new[c].over
  BY KidsMarked
<1> HIDE DEF new, l
<1>2. \A id : HasEnded(q, id, p + 1) <=> HasEnded(q, id, p) \/ id = e.id
  BY NextPosition DEF HasEnded
<1>3. \A c \in 1..l : new[c].what = kids[c].what /\ new[c].id = kids[c].id
  BY <1>1 DEF Closes, SameRow
<1>4. ASSUME NEW n \in (i + 1)..(p + 1), q[n].what = "start"
      PROVE  \E c \in 1..l : new[c].what = "start" /\ new[c].id = q[n].id
  <2>1. n \in (i + 1)..p
    BY <1>4, NextPosition
  <2>2. PICK c \in 1..l : kids[c].what = "start" /\ kids[c].id = q[n].id
    BY <1>4, <2>1 DEF KidsOK, l
  <2>3. QED
    BY <1>3, <2>2
<1>5. ASSUME NEW c \in 1..l, new[c].what = "start"
      PROVE  /\ \E n \in (i + 1)..(p + 1) : q[n].what = "start" /\ q[n].id = new[c].id
             /\ new[c].over <=> HasEnded(q, new[c].id, p + 1)
  <2>1. /\ kids[c].what = "start"
        /\ \E n \in (i + 1)..p : q[n].what = "start" /\ q[n].id = kids[c].id
        /\ kids[c].over <=> HasEnded(q, kids[c].id, p)
        /\ \A d \in 1..l : kids[d].what = "start" /\ kids[d].id = kids[c].id => d = c
    BY <1>3, <1>5 DEF KidsOK, l
  <2>2. new[c].over <=> kids[c].over \/ kids[c].id = e.id
    BY <1>1, <2>1 DEF Closes
  <2>3. QED
    BY <1>2, <1>3, <2>1, <2>2, NextPosition
<1>6. \A c, d \in 1..l :
        new[c].what = "start" /\ new[d].what = "start" /\ new[c].id = new[d].id => c = d
  BY <1>3, SMTT(30) DEF KidsOK, l
<1>7. KidsOK(q, i, new, p + 1)
  BY <1>1, <1>4, <1>5, <1>6 DEF KidsOK
<1>8. QED
  BY <1>1, <1>7 DEF new

\* A scope that nothing of the Brain interrupts: open until its end, and from then
\* on over, with the kids it had.
LEMMA ScopeHolds ==
  ASSUME NEW q \in Seq(SeenEvents), EventsOnce(q),
         NEW i \in 1..Len(q), NEW j \in 1..Len(q), i < j,
         q[i].what = "start", q[i].agent = "brain",
         q[j].what = "end", q[j].agent = "brain", q[j].id = q[i].id,
         \A n \in (i + 1)..j : q[n].what = "start" => q[n].agent = "persona"
  PROVE  LET rows == FoldLeft(GroupEvent, NoRows, q).rows IN
         \E k \in 1..Len(rows) :
           /\ rows[k].id = q[i].id /\ rows[k].over
           /\ rows[k].kids \in Seq(Kids) /\ KidsOK(q, i, rows[k].kids, j - 1)
<1>1. PICK h : /\ h[0] = NoRows
               /\ \A x \in 0..Len(q) : h[x] \in Shown
               /\ \A x \in 1..Len(q) : h[x] = GroupEvent(h[x - 1], q[x])
               /\ FoldLeft(GroupEvent, NoRows, q) = h[Len(q)]
  BY FoldOfEvents
<1>2. PICK N \in Nat : N = Len(q) /\ i \in 1..N /\ j \in 1..N /\ i \in Nat /\ j \in Nat
  OBVIOUS
<1> DEFINE k == Len(h[i - 1].rows) + 1
           Row0(p) == k \in 1..Len(h[p].rows) /\ h[p].rows[k].id = q[i].id
           Open(p) == Row0(p) /\ h[p].open = k /\ KidsOK(q, i, h[p].rows[k].kids, p)
           Over(p) == /\ Row0(p) /\ h[p].open # k /\ h[p].rows[k].over
                      /\ KidsOK(q, i, h[p].rows[k].kids, j - 1)
           P == {p \in 0..N : p < i \/ (i <= p /\ p < j /\ Open(p)) \/ (j <= p /\ Over(p))}
<1>3. ASSUME NEW p \in 0..(N - 1)
      PROVE  /\ p + 1 \in 1..N /\ p + 1 \in 0..N /\ p \in 0..N /\ p \in Nat
             /\ h[p + 1] = GroupEvent(h[p], q[p + 1])
             /\ q[p + 1] \in SeenEvents /\ h[p] \in Shown /\ h[p + 1] \in Shown
             /\ h[p].rows \in Seq(Rows) /\ Len(h[p].rows) \in Nat
             /\ \A r \in 1..Len(h[p].rows) : h[p].rows[r].kids \in Seq(Kids)
             /\ h[p].open # 0 => h[p].open \in 1..Len(h[p].rows)
  <2>1. /\ p + 1 \in 1..N /\ p + 1 \in 0..N /\ p \in 0..N /\ p \in Nat /\ (p + 1) - 1 = p
        /\ q[p + 1] \in SeenEvents
    BY <1>2
  <2>2. h[p + 1] = GroupEvent(h[p], q[p + 1]) /\ h[p] \in Shown /\ h[p + 1] \in Shown
    BY <1>1, <1>2, <2>1
  <2>3. QED
    BY <2>1, <2>2, OpenRow
<1>4. ASSUME NEW p \in 0..(N - 1), p + 1 = i PROVE Open(p + 1)
  <2>1. Opened(h[p], h[p + 1], q[i]) /\ k = Len(h[p].rows) + 1 /\ Len(h[p].rows) \in Nat
    <3>1. i - 1 = p
      BY <1>2, <1>4
    <3>2. QED
      BY <1>3, <1>4, <3>1, ScopeOpens
  <2>2. Row(q[i]).id = q[i].id /\ Row(q[i]).kids = <<>>
    BY RowsTyped
  <2> HIDE DEF k
  <2>3. h[p + 1].open = k /\ Row0(p + 1) /\ h[p + 1].rows[k].kids = <<>>
    <3>1. h[p + 1].open = k /\ Len(h[p + 1].rows) = k /\ h[p + 1].rows[k] = Row(q[i]) /\ k \in Nat \ {0}
      BY <2>1 DEF Opened
    <3>2. QED
      BY <2>2, <3>1
  <2>4. KidsOK(q, i, <<>>, i)
    <3>1. (i + 1)..i = {} /\ 1..Len(<<>>) = {}
      BY <1>2
    <3>2. QED
      BY <3>1 DEF KidsOK
  <2>5. QED
    BY <1>4, <2>3, <2>4
<1>5. ASSUME NEW p \in 0..(N - 1), i <= p, p + 1 < j, Open(p) PROVE Open(p + 1)
  <2> DEFINE g == h[p]  s == h[p + 1]  e == q[p + 1]  kids == g.rows[k].kids
  <2>1. /\ g.open = k /\ k \in 1..Len(g.rows) /\ g.rows[k].id = q[i].id /\ KidsOK(q, i, kids, p)
        /\ kids \in Seq(Kids) /\ k # 0 /\ p \in Nat /\ p + 1 \in 1..Len(q)
        /\ e \in SeenEvents /\ g \in Shown /\ s = GroupEvent(g, e)
    BY <1>2, <1>3, <1>5, SMTT(30)
  <2>2. p + 1 \in (i + 1)..j
    BY <1>2, <1>5
  <2>3. ASSUME e.what = "end" PROVE ~EndsScope(g, e)
    <3>1. e.id # q[j].id
      <4>1. p + 1 # j
        BY <1>2, <1>5
      <4>2. p + 1 \in 1..Len(q)
        BY <2>1
      <4>3. QED
        BY <2>3, <4>1, <4>2 DEF EventsOnce
    <3>2. QED
      BY <2>1, <3>1 DEF EndsScope
  <2>4. ~(e.what = "start" /\ e.agent = "brain")
    BY <2>2
  <2> HIDE DEF g, s, e, kids, k
  <2>5. CASE e.what = "end"
    <3>1. Searched(g, s, e)
      BY <2>1, <2>3, <2>5, ScopeSearched
    <3>2. /\ s.open = k /\ k \in 1..Len(s.rows) /\ s.rows[k].id = q[i].id
          /\ s.rows[k].kids = Marked(kids, e)
      BY <2>1, <3>1 DEF Searched, SameRow, kids
    <3>3. KidsOK(q, i, Marked(kids, e), p + 1)
      BY <1>2, <1>5, <2>1, <2>5, KidsSearched DEF e
    <3>4. QED
      BY <3>2, <3>3 DEF s
  <2>6. CASE e.what # "end"
    <3>1. Put(g, s, e)
      BY <2>1, <2>4, <2>6, ScopeFilled
    <3>2. /\ s.open = k /\ k \in 1..Len(s.rows) /\ s.rows[k].id = q[i].id
          /\ s.rows[k].kids \in {kids, Append(kids, Row(e))}
          /\ e.what = "start" => s.rows[k].kids = Append(kids, Row(e))
      BY <2>1, <3>1 DEF Put, SameRow, kids
    <3>3. e.what \in {"text", "start"}
      BY <2>1, <2>6 DEF SeenEvents
    <3>4. KidsOK(q, i, Append(kids, Row(e)), p + 1)
      BY <1>2, <1>5, <2>1, <3>3, KidAppended DEF e
    <3>5. e.what = "text" => KidsOK(q, i, kids, p + 1)
      BY <1>2, <1>5, <2>1, KidsSame DEF e
    <3>6. KidsOK(q, i, s.rows[k].kids, p + 1)
      BY <3>2, <3>3, <3>4, <3>5
    <3>7. QED
      BY <3>2, <3>6 DEF s
  <2>7. QED
    BY <2>5, <2>6
<1>6. ASSUME NEW p \in 0..(N - 1), i <= p, p + 1 = j, Open(p) PROVE Over(p + 1)
  <2>1. /\ h[p].open = k /\ k \in 1..Len(h[p].rows) /\ h[p].rows[k].id = q[i].id /\ p = j - 1
        /\ KidsOK(q, i, h[p].rows[k].kids, j - 1) /\ k # 0
    BY <1>2, <1>3, <1>6
  <2> HIDE DEF k
  <2>2. EndsScope(h[p], q[j])
    BY <2>1 DEF EndsScope
  <2>3. Ended(h[p], h[p + 1])
    BY <1>3, <1>6, <2>2, ScopeEnds
  <2>4. QED
    BY <2>1, <2>3 DEF Ended, SameRow
<1>7. ASSUME NEW p \in 0..(N - 1), j <= p, Over(p) PROVE Over(p + 1)
  <2> DEFINE g == h[p]  s == h[p + 1]  e == q[p + 1]
  <2>1. /\ g.open # k /\ k \in 1..Len(g.rows) /\ g.rows[k].id = q[i].id /\ g.rows[k].over
        /\ KidsOK(q, i, g.rows[k].kids, j - 1) /\ Len(g.rows) \in Nat /\ g.rows \in Seq(Rows)
        /\ e \in SeenEvents /\ g \in Shown /\ s = GroupEvent(g, e)
    BY <1>3, <1>7
  <2> DEFINE Stays == /\ s.open # k /\ k \in 1..Len(s.rows) /\ s.rows[k].id = g.rows[k].id
                      /\ s.rows[k].over /\ s.rows[k].kids = g.rows[k].kids
  <2> HIDE DEF g, s, e, k
  <2>2. CASE e.what = "start" /\ e.agent = "brain"
    <3>1. Opened(g, s, e)
      BY <2>1, <2>2, ScopeOpens
    <3>2. Stays
      BY <2>1, <3>1, SMTT(30) DEF Opened
    <3>3. QED
      BY <2>1, <3>2 DEF s
  <2>3. CASE e.what = "end" /\ EndsScope(g, e)
    <3>1. Ended(g, s)
      BY <2>1, <2>3, ScopeEnds
    <3>2. k # 0
      BY <2>1
    <3>3. Stays
      BY <2>1, <3>1, <3>2 DEF Ended
    <3>4. QED
      BY <2>1, <3>3 DEF s
  <2>4. CASE e.what = "end" /\ ~EndsScope(g, e)
    <3>1. Searched(g, s, e)
      BY <2>1, <2>4, ScopeSearched
    <3>2. Stays
      BY <2>1, <3>1 DEF Searched, Closes, SameRow
    <3>3. QED
      BY <2>1, <3>2 DEF s
  <2>5. CASE e.what # "end" /\ ~(e.what = "start" /\ e.agent = "brain")
    <3>1. Put(g, s, e)
      BY <2>1, <2>5, ScopeFilled
    <3>2. Row(e) \in Rows
      BY <2>1, <2>5, RowsTyped
    <3>3. Stays
      <4>1. CASE s.rows = Append(g.rows, Row(e)) /\ s.open = g.open
        BY <2>1, <3>2, <4>1
      <4>2. CASE s.rows = g.rows /\ s.open = g.open
        BY <2>1, <4>2
      <4>3. CASE g.open # 0
        BY <2>1, <3>1, <4>3 DEF Put
      <4>4. QED
        BY <3>1, <4>1, <4>2, <4>3 DEF Put
    <3>4. QED
      BY <2>1, <3>3 DEF s
  <2>6. QED
    BY <2>2, <2>3, <2>4, <2>5
<1> HIDE DEF k, Open, Over
<1>8. 0 \in P
  BY <1>2
<1>9. ASSUME NEW p \in 0..(N - 1), p \in P PROVE p + 1 \in P
  <2>1. p + 1 \in 0..N /\ p \in Nat
    BY <1>3
  <2>2. CASE p + 1 < i
    BY <2>1, <2>2
  <2>3. CASE p + 1 = i
    BY <1>2, <1>4, <2>1, <2>3
  <2>4. CASE i <= p /\ p + 1 < j
    BY <1>2, <1>5, <1>9, <2>1, <2>4
  <2>5. CASE i <= p /\ p + 1 = j
    BY <1>2, <1>6, <1>9, <2>1, <2>5
  <2>6. CASE j <= p
    BY <1>2, <1>7, <1>9, <2>1, <2>6
  <2>7. QED
    BY <1>2, <2>1, <2>2, <2>3, <2>4, <2>5, <2>6
<1> HIDE DEF P
<1>10. 0..N \subseteq P
  BY <1>2, <1>8, <1>9, BoundedInduction
<1>11. Over(N)
  <2>1. N \in P /\ j <= N /\ i <= N
    BY <1>2, <1>10
  <2>2. QED
    BY <1>2, <2>1 DEF P
<1>12. h[N].rows[k].kids \in Seq(Kids)
  <2>1. h[N] \in Shown /\ k \in 1..Len(h[N].rows)
    BY <1>1, <1>2, <1>11 DEF Over
  <2>2. QED
    BY <2>1, OpenRow
<1>13. QED
  BY <1>1, <1>2, <1>11, <1>12 DEF Over

\* Groups of the turn as it is shown.
LEMMA ShownGroups ==
  ASSUME ChatTypeInv, EventInv
  PROVE  /\ seen \in Seq(SeenEvents) /\ EventsOnce(seen) /\ DOMAIN seen = 1..Len(seen)
         /\ Groups = FoldLeft(GroupEvent, NoRows, seen).rows /\ DOMAIN Groups = 1..Len(Groups)
<1>1. seen \in Seq(SeenEvents) /\ DOMAIN seen = 1..Len(seen) /\ Len(seen) \in Nat
  BY DEF ChatTypeInv, TabOK
<1>2. EventsOnce(seen)
  BY <1>1 DEF EventInv, EventsOnce
<1>3. Groups = FoldLeft(GroupEvent, NoRows, seen).rows
  BY DEF Groups, NoRows
<1>4. PICK h : /\ \A x \in 0..Len(seen) : h[x] \in Shown
               /\ FoldLeft(GroupEvent, NoRows, seen) = h[Len(seen)]
  BY <1>1, FoldOfEvents
<1>5. FoldLeft(GroupEvent, NoRows, seen) \in Shown
  BY <1>1, <1>4
<1>6. Groups \in Seq(Rows)
  BY <1>3, <1>5, OpenRow
<1>7. QED
  BY <1>1, <1>2, <1>3, <1>6

LEMMA ClosedScope ==
  ASSUME ChatTypeInv, EventInv, NEW id \in DOMAIN calls, calls[id].agent = "brain",
         NEW i \in Position("start", id), NEW j \in Position("end", id),
         \A n \in (i + 1)..j : seen[n].what = "start" => seen[n].agent = "persona"
  PROVE  \E k \in DOMAIN Groups :
           /\ Groups[k].id = id /\ ~ShownRunning(Groups[k])
           /\ \A n \in (i + 1)..j : seen[n].what = "start" /\ calls[seen[n].id].under = id =>
                \E c \in DOMAIN Groups[k].kids :
                  /\ Groups[k].kids[c].id = seen[n].id
                  /\ ShownRunning(Groups[k].kids[c]) <=> Position("end", seen[n].id) = {}
<1>1. /\ seen \in Seq(SeenEvents) /\ EventsOnce(seen) /\ DOMAIN seen = 1..Len(seen)
      /\ Groups = FoldLeft(GroupEvent, NoRows, seen).rows /\ DOMAIN Groups = 1..Len(Groups)
      /\ Len(seen) \in Nat
  BY ShownGroups DEF ChatTypeInv, TabOK
<1>2. /\ i \in 1..Len(seen) /\ j \in 1..Len(seen)
      /\ seen[i].what = "start" /\ seen[i].id = id /\ seen[j].what = "end" /\ seen[j].id = id
  BY <1>1 DEF Position
<1>3. seen[i].agent = "brain" /\ seen[j].agent = "brain" /\ i < j
  BY <1>1, <1>2 DEF EventInv
<1>4. PICK k \in 1..Len(Groups) :
        /\ Groups[k].id = id /\ Groups[k].over
        /\ Groups[k].kids \in Seq(Kids) /\ KidsOK(seen, i, Groups[k].kids, j - 1)
  BY <1>1, <1>2, <1>3, ScopeHolds
<1>5. ASSUME NEW n \in (i + 1)..j, seen[n].what = "start", calls[seen[n].id].under = id
      PROVE  \E c \in DOMAIN Groups[k].kids :
               /\ Groups[k].kids[c].id = seen[n].id
               /\ ShownRunning(Groups[k].kids[c]) <=> Position("end", seen[n].id) = {}
  <2> DEFINE kids == Groups[k].kids
  <2>1. n \in (i + 1)..(j - 1) /\ n \in 1..Len(seen)
    <3>1. n # j
      BY <1>2, <1>5
    <3>2. QED
      BY <1>2, <1>5, <3>1
  <2>2. kids \in Seq(Kids) /\ KidsOK(seen, i, kids, j - 1) /\ DOMAIN kids = 1..Len(kids)
    BY <1>4
  <2> HIDE DEF kids
  <2>3. PICK c \in 1..Len(kids) : kids[c].what = "start" /\ kids[c].id = seen[n].id
    BY <1>5, <2>1, <2>2 DEF KidsOK
  <2>4. kids[c].over <=> HasEnded(seen, seen[n].id, j - 1)
    BY <2>2, <2>3 DEF KidsOK
  <2>5. HasEnded(seen, seen[n].id, j - 1) => Position("end", seen[n].id) # {}
    BY <1>1, <1>2 DEF HasEnded, Position
  <2>6. ASSUME NEW m \in Position("end", seen[n].id) PROVE HasEnded(seen, seen[n].id, j - 1)
    <3>1. m \in 1..Len(seen) /\ seen[m].what = "end" /\ seen[m].id = seen[n].id
      BY <1>1, <2>6 DEF Position
    <3>2. m < j
      BY <1>1, <1>2, <1>5, <3>1 DEF EventInv
    <3>3. m \in 1..(j - 1)
      BY <1>2, <3>1, <3>2
    <3>4. QED
      BY <3>1, <3>3 DEF HasEnded
  <2>7. ~kids[c].over <=> Position("end", seen[n].id) = {}
    BY <2>4, <2>5, <2>6
  <2>8. QED
    BY <2>2, <2>3, <2>7 DEF ShownRunning, kids
<1>6. k \in DOMAIN Groups /\ Groups[k].id = id /\ ~ShownRunning(Groups[k])
  BY <1>1, <1>4 DEF ShownRunning
<1>7. QED
  BY <1>5, <1>6, Zenon

\* What the chat shows of a turn is what its events say: a call is shown as over only
\* if its end was seen, and one that no other call interrupts with its end and with
\* the calls of its persona, each running or over as it is.
THEOREM ChatShowsTheCalls == ChatSpec => []GroupsFaithful
<1>1. ChatInit => EventInv
  BY DEF ChatInit, EventInv
<1>2. ChatTypeInv /\ EventInv => GroupsFaithful
  <2> SUFFICES ASSUME ChatTypeInv, EventInv PROVE GroupsFaithful
    OBVIOUS
  <2>1. /\ seen \in Seq(SeenEvents) /\ DOMAIN seen = 1..Len(seen)
        /\ Groups = FoldLeft(GroupEvent, NoRows, seen).rows /\ DOMAIN Groups = 1..Len(Groups)
    BY ShownGroups
  <2>2. ASSUME NEW id, NEW k \in DOMAIN Groups, Groups[k].id = id, ~ShownRunning(Groups[k])
        PROVE  Position("end", id) # {}
    BY <2>1, <2>2, OverHasEnd DEF ShownRunning, Position
  <2>3. QED
    BY <2>2, ClosedScope DEF GroupsFaithful
<1>3. QED
  BY <1>1, <1>2, ChatTypeInit, ChatTypeStep, EventStep, PTL DEF ChatSpec

=============================================================================
