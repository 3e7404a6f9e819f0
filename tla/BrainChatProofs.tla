--------------------------- MODULE BrainChatProofs ---------------------------
(* Theorems about RunStream and the chat on top of it, for every number of    *)
(* chats, jobs and connections and every bound.                               *)
EXTENDS BrainChat, SequenceTheorems, TLAPS

\* A request under way or an EventSource is that of a message that was sent,
\* and there is no EventSource before the request was answered.
TypeInv ==
  /\ TypeOK
  /\ post # "none" \/ es # "none" => chat \in Chats
  /\ post # "none" => es = "none"

LEMMA EventsTyped ==
  \A k \in Kinds \union Statuses, n \in Nat : Event(k, n) \in Events
BY DEF Event, Events

LEMMA EventFields ==
  \A k, n : Event(k, n).kind = k /\ Event(k, n).n = n
BY DEF Event

\* The n events of kind k, as a sequence.
LEMMA NumberedSeq ==
  ASSUME NEW k \in Kinds, NEW n \in Nat
  PROVE  /\ Numbered(k, n) \in Seq(Events)
         /\ Len(Numbered(k, n)) = n
         /\ \A i \in 1..n : Numbered(k, n)[i] = Event(k, i)
<1>1. \A i \in 1..n : Event(k, i) \in Events
  BY EventsTyped
<1>2. QED
  BY <1>1, IsASeq, LenProperties DEF Numbered

\* What is written to a connection, and how it is closed.
LEMMA WrittenTyped ==
  ASSUME NEW s \in Conn, NEW q \in Seq(Events), NEW t \in BOOLEAN, NEW h \in BOOLEAN
  PROVE  [s EXCEPT !.sent = q, !.terminated = t, !.hooked = h] \in Conn
BY Zenon DEF Conn

LEMMA ClosedTyped ==
  ASSUME NEW s \in Conn
  PROVE  /\ [s EXCEPT !.up = FALSE] \in Conn
         /\ [s EXCEPT !.terminated = TRUE, !.hooked = FALSE] \in Conn
         /\ [s EXCEPT !.up = FALSE, !.hooked = FALSE, !.terminated = TRUE] \in Conn
<1>1. [s EXCEPT !.up = FALSE] \in Conn
  BY Zenon DEF Conn
<1>2. [s EXCEPT !.terminated = TRUE, !.hooked = FALSE] \in Conn
  BY Zenon DEF Conn
<1>3. [s EXCEPT !.up = FALSE, !.hooked = FALSE, !.terminated = TRUE] \in Conn
  BY Zenon DEF Conn
<1>4. QED
  BY <1>1, <1>2, <1>3

LEMMA WriteTyped ==
  ASSUME NEW s \in Conn, NEW e \in Events
  PROVE  Write(s, e) \in Conn
<1>1. Append(s.sent, e) \in Seq(Events)
  BY DEF Conn
<1>2. (e.kind \in Terminal) \in BOOLEAN /\ (s.hooked /\ e.kind \notin Terminal) \in BOOLEAN
  OBVIOUS
<1>3. [s EXCEPT !.sent = Append(@, e), !.terminated = e.kind \in Terminal,
                !.hooked = @ /\ e.kind \notin Terminal] \in Conn
  BY <1>1, <1>2, WrittenTyped, Zenon
<1>4. QED
  BY <1>3, Zenon DEF Write

LEMMA EmitTyped ==
  ASSUME conn \in [Conns -> Conn \union {Unused}], NEW r, NEW e \in Events, Emit(r, e)
  PROVE  conn' \in [Conns -> Conn \union {Unused}]
<1>1. \A c \in Conns : Used(c) => Write(conn[c], e) \in Conn
  BY WriteTyped DEF Used
<1>2. QED
  BY <1>1 DEF Emit

LEMMA ReplayTyped ==
  ASSUME StreamTypeOK, NEW r \in Runs, status[r] \in Statuses
  PROVE  Replay(r) \in Seq(Events)
<1>1. \A k \in Kinds, n \in Nat : Numbered(k, n) \in Seq(Events)
  BY NumberedSeq
<1>2. <<Event(status[r], 0)>> \in Seq(Events)
  BY EventsTyped
<1>3. made[r]["log"] \in Nat /\ made[r]["artifact"] \in Nat
  BY DEF StreamTypeOK, Kinds, Buffered
<1>4. Numbered("log", made[r]["log"]) \in Seq(Events)
        /\ Numbered("artifact", made[r]["artifact"]) \in Seq(Events)
  BY <1>1, <1>3 DEF Kinds, Buffered
<1>5. QED
  BY <1>2, <1>4 DEF Replay

-----------------------------------------------------------------------------
\* The server's handlers keep the types.
LEMMA CreateTyped ==
  ASSUME StreamTypeOK, NEW r, Create(r)
  PROVE  StreamTypeOK'
BY DEF StreamTypeOK, Create, Statuses, Active, Terminal

LEMMA AddEventTyped ==
  ASSUME StreamTypeOK, NEW r \in Runs, NEW k \in Kinds, AddEvent(r, k)
  PROVE  StreamTypeOK'
<1> USE StreamAssumption
<1>1. made[r][k] \in Nat /\ made[r][k] + 1 <= MaxEvents[r]
  <2>1. \A j \in Kinds : made[r][j] \in Nat
    BY DEF StreamTypeOK
  <2>2. QED
    BY <2>1 DEF AddEvent, Kinds, Buffered
<1>2. conn' \in [Conns -> Conn \union {Unused}]
  <2>1. Event(k, made[r][k] + 1) \in Events
    BY <1>1, EventsTyped
  <2>2. QED
    BY <2>1, EmitTyped DEF AddEvent, StreamTypeOK
<1>3. /\ made' = [made EXCEPT ![r][k] = @ + 1]
      /\ UNCHANGED <<status, atEnd, crashes>>
  BY DEF AddEvent
<1>4. /\ made' \in [Runs -> [Kinds -> Nat]]
      /\ \A q \in Runs, j \in Kinds : atEnd'[q][j] <= made'[q][j] /\ made'[q][j] <= MaxEvents[q]
  BY <1>1, <1>3 DEF StreamTypeOK
<1>5. QED
  BY <1>2, <1>3, <1>4 DEF StreamTypeOK

LEMMA FinishTyped ==
  ASSUME StreamTypeOK, NEW r \in Runs, Finish(r)
  PROVE  StreamTypeOK'
<1>1. PICK s \in Terminal : status' = [status EXCEPT ![r] = s] /\ Emit(r, Event(s, 0))
  BY DEF Finish
<1>2. Event(s, 0) \in Events
  BY EventsTyped DEF Statuses
<1>3. conn' \in [Conns -> Conn \union {Unused}]
  BY <1>1, <1>2, EmitTyped DEF StreamTypeOK
<1>4. QED
  BY <1>1, <1>3, StreamAssumption DEF StreamTypeOK, Finish, Statuses

LEMMA SubscribeTyped ==
  ASSUME StreamTypeOK, NEW c \in Conns, NEW r \in Runs, Subscribe(c, r)
  PROVE  StreamTypeOK'
<1>1. Replay(r) \in Seq(Events)
  BY ReplayTyped DEF Subscribe
<1>2. conn' \in [Conns -> Conn \union {Unused}]
  BY <1>1 DEF Subscribe, StreamTypeOK, Conn
<1>3. QED
  BY <1>2 DEF StreamTypeOK, Subscribe, recordVars

LEMMA SocketGoneTyped ==
  ASSUME StreamTypeOK, NEW c \in Conns, Used(c), SocketGone(c), UNCHANGED <<recordVars, crashes>>
  PROVE  StreamTypeOK'
<1>1. conn \in [Conns -> Conn \union {Unused}] /\ conn[c] \in Conn
  BY DEF StreamTypeOK, Used
<1>2. conn' = [conn EXCEPT ![c] = [conn[c] EXCEPT !.up = FALSE]]
  BY Zenon DEF SocketGone
<1>3. conn' \in [Conns -> Conn \union {Unused}]
  BY <1>1, <1>2, ClosedTyped, Zenon
<1>4. QED
  BY <1>3 DEF StreamTypeOK, recordVars

LEMMA HangUpTyped ==
  ASSUME StreamTypeOK, NEW c \in Conns, HangUp(c)
  PROVE  StreamTypeOK'
<1>1. conn \in [Conns -> Conn \union {Unused}] /\ conn[c] \in Conn
  BY DEF StreamTypeOK, HangUp, Used
<1>2. conn' = [conn EXCEPT ![c] = [conn[c] EXCEPT !.terminated = TRUE, !.hooked = FALSE]]
  BY <1>1, Zenon DEF HangUp
<1>3. conn' \in [Conns -> Conn \union {Unused}]
  BY <1>1, <1>2, ClosedTyped, Zenon
<1>4. UNCHANGED <<recordVars, crashes>>
  BY DEF HangUp
<1>5. QED
  BY <1>3, <1>4 DEF StreamTypeOK, recordVars

LEMMA ServerDiesTyped ==
  ASSUME StreamTypeOK, ServerDies
  PROVE  StreamTypeOK'
<1>1. conn' \in [Conns -> Conn \union {Unused}]
  <2>1. \A c \in Conns : Used(c) =>
          [conn[c] EXCEPT !.up = FALSE, !.hooked = FALSE, !.terminated = TRUE] \in Conn
    BY ClosedTyped, Zenon DEF StreamTypeOK, Used
  <2>2. QED
    BY <2>1, Zenon DEF ServerDies, StreamTypeOK
<1>2. /\ crashes < MaxCrashes /\ crashes' = crashes + 1
      /\ status' = [r \in Runs |-> IF status[r] = "none" THEN "none" ELSE "lost"]
      /\ UNCHANGED <<made, atEnd>>
  BY DEF ServerDies
<1>3. QED
  BY <1>1, <1>2, StreamAssumption DEF StreamTypeOK

-----------------------------------------------------------------------------
LEMMA TypeInit == Init => TypeInv
BY SMTT(30), StreamAssumption, ChatAssumption
   DEF Init, StreamInit, TypeInv, TypeOK, StreamTypeOK, NoEvents, Chats

LEMMA TypeStep == TypeInv /\ [Next]_vars => TypeInv'
<1> SUFFICES ASSUME TypeInv, [Next]_vars PROVE TypeInv'
  OBVIOUS
<1> USE StreamAssumption, ChatAssumption DEF TypeInv
<1>1. CASE Send
  BY <1>1 DEF Send, TypeOK, StreamTypeOK, Chats, streamVars, recordVars
<1>2. CASE Reset
  BY <1>2 DEF Reset, TypeOK, StreamTypeOK, streamVars, recordVars
<1>3. CASE PostArrives
  <2>1. StreamTypeOK'
    BY <1>3, CreateTyped DEF PostArrives, TypeOK
  <2>2. QED
    BY <1>3, <2>1 DEF PostArrives, TypeOK
<1>4. CASE PostAnswered \/ PostFailed \/ EsRefused \/ EsReconnects
  <2>1. UNCHANGED streamVars
    BY <1>4 DEF PostAnswered, PostFailed, EsRefused, EsReconnects
  <2>2. StreamTypeOK'
    BY <2>1 DEF TypeOK, StreamTypeOK, streamVars, recordVars
  <2>3. CASE PostAnswered
    BY <2>2, <2>3 DEF PostAnswered, TypeOK, NoConn
  <2>4. CASE PostFailed
    BY <2>2, <2>4 DEF PostFailed, Drops, TypeOK
  <2>5. CASE EsRefused \/ EsReconnects
    BY <2>2, <2>5 DEF EsRefused, EsReconnects, TypeOK, NoConn
  <2>6. QED
    BY <1>4, <2>3, <2>4, <2>5
<1>5. CASE EsOpens
  <2>1. PICK c \in Conns : Subscribe(c, chat) /\ cur' = c
    BY <1>5 DEF EsOpens
  <2>2. chat \in Runs
    BY <1>5 DEF EsOpens
  <2>3. StreamTypeOK'
    BY <2>1, <2>2, SubscribeTyped DEF TypeOK
  <2>4. QED
    BY <1>5, <2>1, <2>3 DEF EsOpens, TypeOK, NoConn
<1>6. CASE EsReceives
  <2> DEFINE e == conn[cur].sent[got + 1]
  <2>1. cur \in Conns /\ conn[cur].sent \in Seq(Events)
    BY <1>6 DEF EsReceives, TypeOK, StreamTypeOK, Conn, Unused, NoConn
  <2>2. e \in Events
    BY <1>6, <2>1 DEF EsReceives, TypeOK
  <2>3. StreamTypeOK'
    <3>1. CASE UNCHANGED conn
      BY <1>6, <3>1 DEF EsReceives, TypeOK, StreamTypeOK, recordVars
    <3>2. CASE SocketGone(cur)
      <4>1. Used(cur)
        BY <1>6, <2>1 DEF EsReceives, Used, Unused, TypeOK
      <4>2. QED
        BY <1>6, <2>1, <3>2, <4>1, SocketGoneTyped DEF EsReceives, TypeOK
    <3>3. QED
      BY <1>6, <3>1, <3>2 DEF EsReceives, Settle
  <2>4. turn' \in [Chats -> Seq(Events)]
    <3>1. turn' = turn \/ turn' = [turn EXCEPT ![chat] = Append(@, e)]
      BY <1>6 DEF EsReceives
    <3>2. \A n \in Chats : Append(turn[n], e) \in Seq(Events)
      BY <2>2 DEF TypeOK
    <3>3. QED
      BY <3>1, <3>2 DEF TypeOK
  <2>5. QED
    BY <1>6, <2>1, <2>3, <2>4 DEF EsReceives, Settle, TypeOK, NoConn
<1>7. CASE EsDropped
  <2>1. cur \in Conns /\ Used(cur)
    BY <1>7 DEF EsDropped, Used, Unused, TypeOK, NoConn
  <2>2. StreamTypeOK'
    BY <1>7, <2>1, SocketGoneTyped DEF EsDropped, TypeOK
  <2>3. QED
    BY <1>7, <2>2 DEF EsDropped, Drops, TypeOK, hookVars
<1>8. CASE Crash
  <2>1. StreamTypeOK'
    BY <1>8, ServerDiesTyped DEF Crash, TypeOK
  <2>2. QED
    BY <1>8, <2>1 DEF Crash, TypeOK
<1>9. CASE Others \/ Server
  <2>1. StreamTypeOK'
    BY <1>9, CreateTyped, AddEventTyped, FinishTyped, HangUpTyped
       DEF Others, Server, RunStep, TypeOK
  <2>2. QED
    BY <1>9, <2>1 DEF Others, Server, TypeOK, hookVars
<1>10. CASE UNCHANGED vars
  BY <1>10 DEF TypeOK, StreamTypeOK, vars, streamVars, recordVars, hookVars
<1>11. QED
  BY <1>1, <1>2, <1>3, <1>4, <1>5, <1>6, <1>7, <1>8, <1>9, <1>10 DEF Next, Hook

\* Every variable of the server and the tab keeps its type; in particular an
\* EventSource is in esRef as open exactly while it has a connection.
THEOREM TypeCorrect == Spec => []TypeOK
<1>1. Spec => []TypeInv
  BY TypeInit, TypeStep, PTL DEF Spec
<1>2. QED
  BY <1>1, PTL DEF TypeInv

-----------------------------------------------------------------------------
\* A run leaves its active status for good, and becomes active only when it is
\* created.
LEMMA ActiveStep ==
  ASSUME TypeInv, [Next]_vars
  PROVE  \/ \E r \in Runs : Create(r)
         \/ \A r \in Runs : status'[r] \in Active => status[r] \in Active
<1> USE DEF Active, Terminal
<1>1. CASE PostArrives \/ Others
  BY <1>1, ChatAssumption DEF PostArrives, Others, TypeInv
<1>2. CASE UNCHANGED status
  BY <1>2
<1>3. CASE Crash
  BY <1>3 DEF Crash, ServerDies
<1>4. CASE Server
  BY <1>4 DEF Server, RunStep, AddEvent, Finish, HangUp, recordVars, TypeInv, TypeOK, StreamTypeOK
<1>5. CASE Send \/ Reset \/ PostAnswered \/ PostFailed \/ EsRefused \/ EsReconnects
             \/ EsDropped \/ EsReceives \/ EsOpens \/ UNCHANGED vars
  BY <1>2, <1>5 DEF Send, Reset, PostAnswered, PostFailed, EsRefused, EsReconnects, EsDropped,
                    EsReceives, EsOpens, Subscribe, vars, streamVars, recordVars
<1>6. QED
  BY <1>1, <1>3, <1>4, <1>5 DEF Next, Hook

\* tryCreate never lets a second run of a token become active, whatever the
\* tab, the other clients and the crashes do.
THEOREM TokensExclusive == Spec => []OneRunPerToken
<1>1. Init => OneRunPerToken
  BY DEF Init, StreamInit, OneRunPerToken, Active
<1>2. TypeInv /\ OneRunPerToken /\ [Next]_vars => OneRunPerToken'
  <2> SUFFICES ASSUME TypeInv, OneRunPerToken, [Next]_vars PROVE OneRunPerToken'
    OBVIOUS
  <2>1. CASE \E r \in Runs : Create(r)
    BY <2>1 DEF OneRunPerToken, Create, Busy, TypeInv, TypeOK, StreamTypeOK
  <2>2. CASE \A r \in Runs : status'[r] \in Active => status[r] \in Active
    BY <2>2 DEF OneRunPerToken
  <2>3. QED
    BY <2>1, <2>2, ActiveStep
<1>3. QED
  BY <1>1, <1>2, TypeInit, TypeStep, PTL DEF Spec

-----------------------------------------------------------------------------
\* What appending an event does to the numbers a stream carries.
LEMMA AppendCarried ==
  ASSUME NEW s \in Seq(Events), NEW e \in Events, NEW k
  PROVE  /\ e.kind = k => Carried(Append(s, e), k) = Carried(s, k) \union {e.n}
         /\ e.kind # k => Carried(Append(s, e), k) = Carried(s, k)
BY AppendProperties DEF Carried

LEMMA AppendAscending ==
  ASSUME NEW s \in Seq(Events), NEW e \in Events, NEW k, Ascending(s, k),
         e.kind = k => \A m \in Carried(s, k) : m < e.n
  PROVE  Ascending(Append(s, e), k)
BY AppendProperties DEF Ascending, Carried

\* The replay is each buffered event once and in order, then the status.
LEMMA ReplayFaithful ==
  ASSUME StreamTypeOK, NEW r \in Runs, status[r] \in Statuses
  PROVE  /\ Replay(r) # <<>>
         /\ Last(Replay(r)).kind = status[r]
         /\ \A i \in 1..Len(Replay(r)) : Replay(r)[i].kind \in Terminal => i = Len(Replay(r))
         /\ \A k \in Buffered : /\ Ascending(Replay(r), k)
                                /\ Carried(Replay(r), k) = 1..made[r][k]
<1> DEFINE s == Replay(r)  a == made[r]["log"]  b == made[r]["artifact"]
<1>1. a \in Nat /\ b \in Nat
  BY DEF StreamTypeOK, Kinds, Buffered
<1>2. /\ Len(s) = a + b + 1
      /\ \A i \in 1..a : s[i] = Event("log", i)
      /\ \A i \in (a + 1)..(a + b) : s[i] = Event("artifact", i - a)
      /\ s[a + b + 1] = Event(status[r], 0)
  <2> DEFINE x == Numbered("log", a)  y == Numbered("artifact", b)  z == Event(status[r], 0)
  <2>1. /\ x \in Seq(Events) /\ Len(x) = a /\ \A i \in 1..a : x[i] = Event("log", i)
        /\ y \in Seq(Events) /\ Len(y) = b /\ \A i \in 1..b : y[i] = Event("artifact", i)
    BY <1>1, NumberedSeq DEF Kinds, Buffered
  <2>2. z \in Events
    BY EventsTyped
  <2>3. s = x \o y \o <<z>>
    BY DEF Replay
  <2> HIDE DEF s, x, y, z, a, b
  <2>4. /\ x \o y \in Seq(Events) /\ Len(x \o y) = a + b
        /\ \A i \in 1..(a + b) : (x \o y)[i] = IF i <= a THEN x[i] ELSE y[i - a]
    BY <1>1, <2>1, ConcatProperties
  <2>5. /\ <<z>> \in Seq(Events) /\ Len(<<z>>) = 1 /\ <<z>>[1] = z
    BY <2>2
  <2>6. /\ Len(s) = a + b + 1
        /\ \A i \in 1..(a + b + 1) : s[i] = IF i <= a + b THEN (x \o y)[i] ELSE <<z>>[i - (a + b)]
    <3> DEFINE u == x \o y  v == <<z>>
    <3>1. u \in Seq(Events) /\ Len(u) = a + b /\ v \in Seq(Events) /\ Len(v) = 1
      BY <2>4, <2>5
    <3>2. s = u \o v
      BY <2>3
    <3> HIDE DEF u, v
    <3>3. /\ Len(s) = Len(u) + Len(v)
          /\ \A i \in 1..Len(u) + Len(v) : s[i] = IF i <= Len(u) THEN u[i] ELSE v[i - Len(u)]
      BY <3>1, <3>2, ConcatProperties
    <3>4. QED
      BY <1>1, <3>1, <3>3 DEF u, v
  <2>7. s[a + b + 1] = z
    BY <1>1, <2>5, <2>6
  <2>8. ASSUME NEW i \in 1..a PROVE s[i] = Event("log", i)
    BY <1>1, <2>1, <2>4, <2>6
  <2>9. ASSUME NEW i \in (a + 1)..(a + b) PROVE s[i] = Event("artifact", i - a)
    BY <1>1, <2>1, <2>4, <2>6
  <2>10. QED
    BY <2>6, <2>7, <2>8, <2>9 DEF z
<1> HIDE DEF s, a, b
<1>3. \A i \in 1..Len(s) :
        \/ i \in 1..a /\ s[i].kind = "log" /\ s[i].n = i
        \/ i \in (a + 1)..(a + b) /\ s[i].kind = "artifact" /\ s[i].n = i - a
        \/ i = Len(s) /\ s[i].kind = status[r]
  BY <1>1, <1>2, EventFields
<1>4. status[r] \notin Buffered
  BY DEF Statuses, Active, Terminal, Buffered
<1>5. Ascending(s, "log") /\ Ascending(s, "artifact")
  BY <1>1, <1>3, <1>4 DEF Ascending, Buffered
<1>6. Carried(s, "log") = 1..a
  BY <1>1, <1>2, <1>3, <1>4 DEF Carried, Buffered
<1>7. Carried(s, "artifact") = 1..b
  <2>1. Carried(s, "artifact") \subseteq 1..b
    BY <1>1, <1>2, <1>3, <1>4 DEF Carried, Buffered
  <2>2. ASSUME NEW n \in 1..b PROVE n \in Carried(s, "artifact")
    <3>1. a + n \in (a + 1)..(a + b) /\ a + n \in 1..Len(s) /\ (a + n) - a = n
      BY <1>1, <1>2
    <3>2. s[a + n].kind = "artifact" /\ s[a + n].n = n
      BY <1>2, <3>1, EventFields
    <3>3. QED
      BY <3>1, <3>2 DEF Carried
  <2>3. QED
    BY <2>1, <2>2
<1>8. s # <<>> /\ Last(s).kind = status[r]
  BY <1>1, <1>2, EventFields DEF Last
<1>9. \A i \in 1..Len(s) : s[i].kind \in Terminal => i = Len(s)
  BY <1>3 DEF Terminal
<1>10. QED
  BY <1>5, <1>6, <1>7, <1>8, <1>9 DEF s, a, b, Buffered

-----------------------------------------------------------------------------
\* What holds of a used connection: the properties below, and why they stay
\* true.  A stream that still runs has its listener and has not carried a
\* terminal status, so it gets the next event; one that carried it belongs to a
\* run that has ended, so that what the run ended with is settled.
Over(x) == Last(x.sent).kind \in Terminal

StreamSafe(x, m, a, st) ==
  /\ x.sent # <<>>
  /\ \A k \in Buffered :
       /\ Ascending(x.sent, k)
       /\ \E n \in 0..m[k] : Carried(x.sent, k) = 1..n
       /\ ~x.terminated => Carried(x.sent, k) = 1..m[k]
       /\ Over(x) => 1..a[k] \subseteq Carried(x.sent, k)
  /\ \A i \in 1..Len(x.sent) : x.sent[i].kind \in Terminal => i = Len(x.sent)
  /\ ~x.terminated => x.hooked /\ ~Over(x)
  /\ x.hooked /\ x.terminated => Over(x)
  /\ Over(x) => st \in Terminal \union {"lost"}

StreamsSafe ==
  \A c \in Conns : Used(c) =>
    StreamSafe(conn[c], made[conn[c].run], atEnd[conn[c].run], status[conn[c].run])

LEMMA WriteFields ==
  ASSUME NEW s \in Conn, NEW e \in Events, ~s.terminated, s.hooked
  PROVE  /\ Write(s, e).run = s.run
         /\ Write(s, e).sent = Append(s.sent, e)
         /\ Write(s, e).terminated <=> e.kind \in Terminal
         /\ Write(s, e).hooked <=> e.kind \notin Terminal
         /\ Write(s, e) # Unused
<1>1. Write(s, e) = [s EXCEPT !.sent = Append(@, e), !.terminated = e.kind \in Terminal,
                              !.hooked = @ /\ e.kind \notin Terminal]
  BY Zenon DEF Write
<1>2. Append(s.sent, e) # <<>>
  BY AppendProperties DEF Conn
<1>3. /\ Write(s, e).run = s.run
      /\ Write(s, e).sent = Append(s.sent, e)
  BY <1>1, Zenon DEF Conn
<1>4. Write(s, e).terminated <=> e.kind \in Terminal
  BY <1>1, Zenon DEF Conn
<1>5. Write(s, e).hooked <=> e.kind \notin Terminal
  BY <1>1, Zenon DEF Conn
<1>6. Unused.sent = <<>>
  BY DEF Unused
<1>7. QED
  BY <1>2, <1>3, <1>4, <1>5, <1>6

\* What is left of a connection whose client goes, whose route tears it down, or
\* whose server dies.
ClientGone(s) == [s EXCEPT !.up = FALSE]
TornDown(s)   == [s EXCEPT !.terminated = TRUE, !.hooked = FALSE]
Dead(s)       == [s EXCEPT !.up = FALSE, !.hooked = FALSE, !.terminated = TRUE]

LEMMA ClientGoneFields ==
  ASSUME NEW s \in Conn
  PROVE  /\ ClientGone(s).run = s.run /\ ClientGone(s).sent = s.sent
         /\ ClientGone(s).terminated = s.terminated /\ ClientGone(s).hooked = s.hooked
BY Zenon DEF Conn, ClientGone

LEMMA TornDownFields ==
  ASSUME NEW s \in Conn
  PROVE  /\ TornDown(s).run = s.run /\ TornDown(s).sent = s.sent
         /\ TornDown(s).terminated /\ ~TornDown(s).hooked
BY Zenon DEF Conn, TornDown

LEMMA DeadFields ==
  ASSUME NEW s \in Conn
  PROVE  /\ Dead(s).run = s.run /\ Dead(s).sent = s.sent
         /\ Dead(s).terminated /\ ~Dead(s).hooked
BY Zenon DEF Conn, Dead

Counts == [Kinds -> Nat]

\* A stream to which nothing is written: its client goes, its route tears it
\* down, or its run moves on without it.
LEMMA ClosedSafe ==
  ASSUME NEW x, NEW y, NEW m, NEW a, NEW st, NEW st2 \in {st, "lost"}, StreamSafe(x, m, a, st),
         y.sent = x.sent, y.terminated, ~y.hooked
  PROVE  StreamSafe(y, m, a, st2)
BY DEF StreamSafe, Over

LEMMA ClientGoneSafe ==
  ASSUME NEW x, NEW y, NEW m, NEW a, NEW st, StreamSafe(x, m, a, st),
         y.sent = x.sent, y.terminated = x.terminated, y.hooked = x.hooked
  PROVE  StreamSafe(y, m, a, st)
BY DEF StreamSafe, Over

LEMMA PassedOverSafe ==
  ASSUME NEW x, NEW m \in Counts, NEW a, NEW st, NEW k \in Kinds,
         StreamSafe(x, m, a, st), x.terminated
  PROVE  StreamSafe(x, [m EXCEPT ![k] = @ + 1], a, st)
<1> DEFINE m2 == [m EXCEPT ![k] = @ + 1]
<1>1. \A j \in Buffered : m[j] \in Nat /\ m2[j] \in Nat /\ m[j] <= m2[j]
  BY DEF Counts, Kinds
<1> HIDE DEF m2
<1>2. \A j \in Buffered : \E n \in 0..m2[j] : Carried(x.sent, j) = 1..n
  BY <1>1 DEF StreamSafe
<1>3. StreamSafe(x, m2, a, st)
  BY <1>2 DEF StreamSafe
<1>4. QED
  BY <1>3 DEF m2

LEMMA NotOverSafe ==
  ASSUME NEW x, NEW m, NEW a, NEW st, NEW a2, NEW st2, StreamSafe(x, m, a, st),
         st \notin Terminal \union {"lost"}
  PROVE  x.terminated \/ a2 = a => StreamSafe(x, m, a2, st2)
BY DEF StreamSafe

\* A stream that still runs gets the next event of its run, or its status.
LEMMA WrittenSafe ==
  ASSUME NEW x \in Conn, NEW m \in Counts, NEW a, NEW st, NEW k \in Kinds,
         StreamSafe(x, m, a, st), ~x.terminated
  PROVE  StreamSafe(Write(x, Event(k, m[k] + 1)), [m EXCEPT ![k] = @ + 1], a, st)
<1> DEFINE e == Event(k, m[k] + 1)  y == Write(x, e)  m2 == [m EXCEPT ![k] = @ + 1]
<1>1. /\ x.sent \in Seq(Events) /\ x.hooked /\ m[k] \in Nat
      /\ k \notin Terminal
      /\ \A j \in Buffered : m[j] \in Nat /\ m2[j] = IF j = k THEN m[j] + 1 ELSE m[j]
  BY DEF Conn, Counts, StreamSafe, Kinds, Buffered, Terminal
<1>2. e \in Events /\ e.kind = k /\ e.n = m[k] + 1
  BY <1>1, EventsTyped, EventFields
<1>3. y.sent = Append(x.sent, e) /\ ~y.terminated /\ y.hooked
  BY <1>1, <1>2, WriteFields
<1> HIDE DEF e, y, m2
<1>4. /\ y.sent \in Seq(Events) /\ Len(y.sent) = Len(x.sent) + 1 /\ Last(y.sent) = e
      /\ \A i \in 1..Len(x.sent) : y.sent[i] = x.sent[i]
      /\ y.sent[Len(x.sent) + 1] = e
  BY <1>1, <1>2, <1>3, AppendProperties DEF Last
<1>5. ~Over(y)
  BY <1>1, <1>2, <1>4 DEF Over
<1>6. ASSUME NEW j \in Buffered
      PROVE  Ascending(y.sent, j) /\ Carried(y.sent, j) = 1..m2[j]
  <2>1. Ascending(x.sent, j) /\ Carried(x.sent, j) = 1..m[j]
    BY DEF StreamSafe
  <2>2. Ascending(y.sent, j)
    <3>1. e.kind = j => \A n \in Carried(x.sent, j) : n < e.n
      BY <1>1, <1>2, <2>1
    <3>2. QED
      BY <1>1, <1>2, <1>3, <2>1, <3>1, AppendAscending
  <2>3. x.sent \in Seq(Events) /\ e \in Events /\ y.sent = Append(x.sent, e)
    BY <1>1, <1>2, <1>3
  <2>4. CASE j = k
    <3>1. Carried(y.sent, j) = 1..m[j] \union {m[j] + 1}
      <4>1. e.kind = j /\ e.n = m[j] + 1
        BY <1>2, <2>4
      <4>2. Carried(Append(x.sent, e), j) = Carried(x.sent, j) \union {e.n}
        BY <2>3, <4>1, AppendCarried, Zenon
      <4>3. QED
        BY <2>1, <2>3, <4>1, <4>2
    <3>2. m[j] \in Nat /\ m2[j] = m[j] + 1
      BY <1>1, <2>4
    <3>3. QED
      BY <2>2, <3>1, <3>2
  <2>5. CASE j # k
    <3>1. Carried(y.sent, j) = Carried(x.sent, j)
      BY <1>2, <2>3, <2>5, AppendCarried
    <3>2. QED
      BY <1>1, <2>1, <2>2, <2>5, <3>1
  <2>6. QED
    BY <2>4, <2>5
<1>7. \A i \in 1..Len(y.sent) : y.sent[i].kind \notin Terminal
  <2>1. \A i \in 1..Len(x.sent) : x.sent[i].kind \notin Terminal
    BY <1>1 DEF StreamSafe, Over, Last
  <2>2. QED
    BY <1>1, <1>2, <1>4, <2>1
<1>8. y.sent # <<>> /\ \A j \in Buffered : m2[j] \in Nat
  BY <1>1, <1>4
<1>9. StreamSafe(y, m2, a, st)
  BY <1>3, <1>5, <1>6, <1>7, <1>8 DEF StreamSafe
<1>10. QED
  BY <1>9 DEF e, y, m2

LEMMA EndedSafe ==
  ASSUME NEW x \in Conn, NEW m \in Counts, NEW a, NEW st, NEW st2 \in Terminal,
         StreamSafe(x, m, a, st), ~x.terminated
  PROVE  StreamSafe(Write(x, Event(st2, 0)), m, m, st2)
<1> DEFINE e == Event(st2, 0)  y == Write(x, e)
<1>1. /\ x.sent \in Seq(Events) /\ x.hooked /\ st2 \notin Buffered
      /\ \A j \in Buffered : m[j] \in Nat
  BY DEF Conn, Counts, StreamSafe, Kinds, Buffered, Terminal
<1>2. e \in Events /\ e.kind = st2
  BY EventsTyped, EventFields DEF Statuses
<1>3. y.sent = Append(x.sent, e) /\ y.terminated /\ ~y.hooked
  BY <1>1, <1>2, WriteFields
<1> HIDE DEF e, y
<1>4. /\ y.sent \in Seq(Events) /\ Len(y.sent) = Len(x.sent) + 1 /\ Last(y.sent) = e
      /\ \A i \in 1..Len(x.sent) : y.sent[i] = x.sent[i]
  BY <1>1, <1>2, <1>3, AppendProperties DEF Last
<1>5. ASSUME NEW j \in Buffered
      PROVE  Ascending(y.sent, j) /\ Carried(y.sent, j) = 1..m[j]
  <2>1. Ascending(x.sent, j) /\ Carried(x.sent, j) = 1..m[j] /\ e.kind # j
    BY <1>1, <1>2 DEF StreamSafe
  <2>2. QED
    BY <1>1, <1>2, <1>3, <2>1, AppendAscending, AppendCarried
<1>6. \A i \in 1..Len(y.sent) : y.sent[i].kind \in Terminal => i = Len(y.sent)
  <2>1. \A i \in 1..Len(x.sent) : x.sent[i].kind \notin Terminal
    BY <1>1 DEF StreamSafe, Over, Last
  <2>2. QED
    BY <1>1, <1>4, <2>1
<1>7. y.sent # <<>> /\ Over(y)
  BY <1>1, <1>2, <1>4 DEF Over
<1>8. StreamSafe(y, m, m, st2)
  BY <1>1, <1>3, <1>5, <1>6, <1>7 DEF StreamSafe
<1>9. QED
  BY <1>8 DEF e, y

LEMMA ReplaySafe ==
  ASSUME StreamTypeOK, NEW r \in Runs, status[r] \in Statuses, NEW x,
         x.sent = Replay(r), x.hooked, x.terminated <=> status[r] \in Terminal
  PROVE  StreamSafe(x, made[r], atEnd[r], status[r])
<1>1. \A k \in Buffered : made[r][k] \in Nat /\ atEnd[r][k] \in Nat /\ atEnd[r][k] <= made[r][k]
  BY DEF StreamTypeOK, Kinds
<1>2. Over(x) <=> status[r] \in Terminal
  BY ReplayFaithful DEF Over
<1>3. QED
  BY <1>1, <1>2, ReplayFaithful DEF StreamSafe

-----------------------------------------------------------------------------
\* The same for all connections, one lemma per handler of the server.
LEMMA ConnsTyped ==
  ASSUME StreamTypeOK
  PROVE  /\ \A c \in Conns : Used(c) => conn[c] \in Conn /\ conn[c].run \in Runs
         /\ \A r \in Runs : made[r] \in Counts
BY DEF StreamTypeOK, Used, Conn, Counts

LEMMA CreateSafe ==
  ASSUME StreamTypeOK, StreamsSafe, NEW r \in Runs, Create(r)
  PROVE  StreamsSafe'
<1> SUFFICES ASSUME NEW c \in Conns, Used(c)
             PROVE  StreamSafe(conn[c], made[conn[c].run], atEnd[conn[c].run], status'[conn[c].run])
  BY DEF StreamsSafe, Create, Used
<1> DEFINE x == conn[c]  q == x.run
<1>1. StreamSafe(x, made[q], atEnd[q], status[q]) /\ q \in Runs
  BY ConnsTyped DEF StreamsSafe
<1> HIDE DEF x, q
<1>2. CASE q = r
  <2>1. status[q] \notin Terminal \union {"lost"}
    BY <1>2 DEF Create, Terminal
  <2>2. StreamSafe(x, made[q], atEnd[q], status'[q])
    BY <1>1, <2>1, NotOverSafe
  <2>3. QED
    BY <2>2 DEF x, q
<1>3. CASE q # r
  <2>1. status'[q] = status[q]
    BY <1>1, <1>3 DEF Create, StreamTypeOK
  <2>2. QED
    BY <1>1, <2>1 DEF x, q
<1>4. QED
  BY <1>2, <1>3

LEMMA EmitEffect ==
  ASSUME NEW r, NEW e \in Events, Emit(r, e), StreamTypeOK, StreamsSafe, NEW c \in Conns
  PROVE  \/ ~Used(c) /\ ~Used(c)'
         \/ /\ Used(c) /\ Used(c)'
            /\ conn[c].run = r /\ ~conn[c].terminated
            /\ conn'[c] = Write(conn[c], e) /\ conn'[c].run = r
         \/ /\ Used(c) /\ Used(c)'
            /\ conn[c].run # r \/ conn[c].terminated
            /\ conn'[c] = conn[c]
<1>1. CASE ~Used(c)
  BY <1>1 DEF Emit, Used
<1>2. CASE Used(c) /\ conn[c].run = r /\ ~conn[c].terminated
  <2>1. conn[c].hooked /\ conn[c] \in Conn
    BY <1>2, ConnsTyped DEF StreamsSafe, StreamSafe
  <2>2. conn'[c] = Write(conn[c], e)
    BY <1>2, <2>1 DEF Emit
  <2>3. Write(conn[c], e).run = r /\ Write(conn[c], e) # Unused
    BY <1>2, <2>1, WriteFields
  <2>4. QED
    BY <1>2, <2>2, <2>3 DEF Used
<1>3. CASE Used(c) /\ (conn[c].run # r \/ conn[c].terminated)
  <2>1. conn[c].terminated => Write(conn[c], e) = conn[c]
    BY DEF Write
  <2>2. conn'[c] = conn[c]
    BY <1>3, <2>1 DEF Emit
  <2>3. QED
    BY <1>3, <2>2 DEF Used
<1>4. QED
  BY <1>1, <1>2, <1>3

LEMMA AddEventSafe ==
  ASSUME StreamTypeOK, StreamsSafe, NEW r \in Runs, NEW k \in Kinds, AddEvent(r, k)
  PROVE  StreamsSafe'
<1> DEFINE e == Event(k, made[r][k] + 1)  m2 == [made[r] EXCEPT ![k] = @ + 1]
<1>1. made[r] \in Counts /\ made[r][k] \in Nat /\ e \in Events
  <2>1. made[r] \in Counts /\ made[r][k] \in Nat
    BY ConnsTyped DEF Counts
  <2>2. QED
    BY <2>1, EventsTyped
<1>2. /\ Emit(r, e) /\ UNCHANGED <<status, atEnd>>
      /\ made'[r] = m2
      /\ \A q \in Runs \ {r} : made'[q] = made[q]
  BY DEF AddEvent, StreamTypeOK
<1> HIDE DEF e, m2
<1> SUFFICES ASSUME NEW c \in Conns, Used(c)'
             PROVE  StreamSafe(conn'[c], made'[conn'[c].run], atEnd'[conn'[c].run],
                               status'[conn'[c].run])
  BY DEF StreamsSafe
<1>3. CASE /\ Used(c) /\ conn[c].run = r /\ ~conn[c].terminated
           /\ conn'[c] = Write(conn[c], e) /\ conn'[c].run = r
  <2>1. conn[c] \in Conn /\ StreamSafe(conn[c], made[r], atEnd[r], status[r])
    BY <1>3, ConnsTyped DEF StreamsSafe
  <2>2. StreamSafe(Write(conn[c], e), m2, atEnd[r], status[r])
    BY <1>1, <1>3, <2>1, WrittenSafe DEF e, m2
  <2>3. QED
    BY <1>2, <1>3, <2>2
<1>4. CASE Used(c) /\ conn[c].run = r /\ conn[c].terminated /\ conn'[c] = conn[c]
  <2>1. StreamSafe(conn[c], made[r], atEnd[r], status[r])
    BY <1>4 DEF StreamsSafe
  <2>2. StreamSafe(conn[c], m2, atEnd[r], status[r])
    BY <1>1, <1>4, <2>1, PassedOverSafe DEF m2
  <2>3. QED
    BY <1>2, <1>4, <2>2
<1>5. CASE Used(c) /\ conn[c].run # r /\ conn'[c] = conn[c]
  BY <1>2, <1>5, ConnsTyped DEF StreamsSafe
<1>6. QED
  BY <1>1, <1>2, <1>3, <1>4, <1>5, EmitEffect

LEMMA FinishSafe ==
  ASSUME StreamTypeOK, StreamsSafe, NEW r \in Runs, Finish(r)
  PROVE  StreamsSafe'
<1>1. PICK s \in Terminal : status' = [status EXCEPT ![r] = s] /\ Emit(r, Event(s, 0))
  BY DEF Finish
<1> DEFINE e == Event(s, 0)
<1>2. /\ Emit(r, e) /\ e \in Events /\ made[r] \in Counts
      /\ status'[r] = s /\ atEnd'[r] = made[r] /\ made' = made
      /\ \A q \in Runs \ {r} : status'[q] = status[q] /\ atEnd'[q] = atEnd[q]
      /\ status[r] \notin Terminal \union {"lost"}
  BY <1>1, EventsTyped, ConnsTyped DEF Finish, StreamTypeOK, Statuses, Active, Terminal
<1> HIDE DEF e
<1> SUFFICES ASSUME NEW c \in Conns, Used(c)'
             PROVE  StreamSafe(conn'[c], made'[conn'[c].run], atEnd'[conn'[c].run],
                               status'[conn'[c].run])
  BY DEF StreamsSafe
<1>3. CASE /\ Used(c) /\ conn[c].run = r /\ ~conn[c].terminated
           /\ conn'[c] = Write(conn[c], e) /\ conn'[c].run = r
  <2>1. conn[c] \in Conn /\ StreamSafe(conn[c], made[r], atEnd[r], status[r])
    BY <1>3, ConnsTyped DEF StreamsSafe
  <2>2. StreamSafe(Write(conn[c], e), made[r], made[r], s)
    BY <1>2, <1>3, <2>1, EndedSafe DEF e
  <2>3. QED
    BY <1>2, <1>3, <2>2
<1>4. CASE Used(c) /\ conn[c].run = r /\ conn[c].terminated /\ conn'[c] = conn[c]
  <2>1. StreamSafe(conn[c], made[r], atEnd[r], status[r])
    BY <1>4 DEF StreamsSafe
  <2>2. StreamSafe(conn[c], made[r], made[r], s)
    BY <1>2, <1>4, <2>1, NotOverSafe
  <2>3. QED
    BY <1>2, <1>4, <2>2
<1>5. CASE Used(c) /\ conn[c].run # r /\ conn'[c] = conn[c]
  BY <1>2, <1>5, ConnsTyped DEF StreamsSafe
<1>6. QED
  BY <1>2, <1>3, <1>4, <1>5, EmitEffect

LEMMA SubscribeSafe ==
  ASSUME StreamTypeOK, StreamsSafe, NEW d \in Conns, NEW r \in Runs, Subscribe(d, r)
  PROVE  StreamsSafe'
<1> SUFFICES ASSUME NEW c \in Conns, Used(c)'
             PROVE  StreamSafe(conn'[c], made[conn'[c].run], atEnd[conn'[c].run],
                               status[conn'[c].run])
  BY DEF StreamsSafe, Subscribe, recordVars
<1>1. CASE c = d
  <2>1. /\ conn'[c].run = r /\ conn'[c].sent = Replay(r) /\ conn'[c].hooked
        /\ conn'[c].terminated <=> status[r] \in Terminal
    BY <1>1, Zenon DEF Subscribe, StreamTypeOK
  <2>2. status[r] \in Statuses
    BY DEF Subscribe
  <2>3. QED
    BY <2>1, <2>2, ReplaySafe
<1>2. CASE c # d
  <2>1. conn'[c] = conn[c]
    BY <1>2 DEF Subscribe, StreamTypeOK
  <2>2. QED
    BY <2>1 DEF StreamsSafe, Used
<1>3. QED
  BY <1>1, <1>2

LEMMA SocketGoneSafe ==
  ASSUME StreamTypeOK, StreamsSafe, NEW d \in Conns, Used(d), SocketGone(d), UNCHANGED recordVars
  PROVE  StreamsSafe'
<1> SUFFICES ASSUME NEW c \in Conns, Used(c)'
             PROVE  StreamSafe(conn'[c], made[conn'[c].run], atEnd[conn'[c].run],
                               status[conn'[c].run])
  BY DEF StreamsSafe, recordVars
<1>1. CASE c = d
  <2>1. conn[d] \in Conn
    BY ConnsTyped
  <2>2. conn'[d] = ClientGone(conn[d])
    BY Zenon DEF SocketGone, StreamTypeOK, ClientGone
  <2>3. /\ conn'[d].run = conn[d].run /\ conn'[d].sent = conn[d].sent
        /\ conn'[d].terminated = conn[d].terminated /\ conn'[d].hooked = conn[d].hooked
    BY <2>1, <2>2, ClientGoneFields
  <2>4. StreamSafe(conn[d], made[conn[d].run], atEnd[conn[d].run], status[conn[d].run])
    BY DEF StreamsSafe
  <2>5. QED
    BY <1>1, <2>3, <2>4, ClientGoneSafe
<1>2. CASE c # d
  <2>1. conn'[c] = conn[c]
    BY <1>2 DEF SocketGone, StreamTypeOK
  <2>2. QED
    BY <2>1 DEF StreamsSafe, Used
<1>3. QED
  BY <1>1, <1>2

LEMMA HangUpSafe ==
  ASSUME StreamTypeOK, StreamsSafe, NEW d \in Conns, HangUp(d)
  PROVE  StreamsSafe'
<1> SUFFICES ASSUME NEW c \in Conns, Used(c)'
             PROVE  StreamSafe(conn'[c], made[conn'[c].run], atEnd[conn'[c].run],
                               status[conn'[c].run])
  BY DEF StreamsSafe, HangUp, recordVars
<1>1. CASE c = d
  <2>1. Used(d) /\ conn[d] \in Conn
    BY ConnsTyped DEF HangUp
  <2>2. conn'[d] = TornDown(conn[d])
    BY <2>1, Zenon DEF HangUp, StreamTypeOK, TornDown
  <2>3. /\ conn'[d].run = conn[d].run /\ conn'[d].sent = conn[d].sent
        /\ conn'[d].terminated /\ ~conn'[d].hooked
    BY <2>1, <2>2, TornDownFields
  <2>4. StreamSafe(conn[d], made[conn[d].run], atEnd[conn[d].run], status[conn[d].run])
    BY <2>1 DEF StreamsSafe
  <2>5. QED
    BY <1>1, <2>3, <2>4, ClosedSafe
<1>2. CASE c # d
  <2>1. conn'[c] = conn[c]
    BY <1>2 DEF HangUp, StreamTypeOK
  <2>2. QED
    BY <2>1 DEF StreamsSafe, Used
<1>3. QED
  BY <1>1, <1>2

LEMMA ServerDiesSafe ==
  ASSUME StreamTypeOK, StreamsSafe, ServerDies
  PROVE  StreamsSafe'
<1> SUFFICES ASSUME NEW c \in Conns, Used(c)'
             PROVE  StreamSafe(conn'[c], made[conn'[c].run], atEnd[conn'[c].run],
                               status'[conn'[c].run])
  BY DEF StreamsSafe, ServerDies
<1>1. Used(c)
  BY DEF ServerDies, Used
<1>2. conn[c] \in Conn /\ conn[c].run \in Runs
  BY <1>1, ConnsTyped
<1>3. conn'[c] = Dead(conn[c])
  BY <1>1, Zenon DEF ServerDies, Dead
<1>4. /\ conn'[c].run = conn[c].run /\ conn'[c].sent = conn[c].sent
      /\ conn'[c].terminated /\ ~conn'[c].hooked
  BY <1>2, <1>3, DeadFields
<1>5. StreamSafe(conn[c], made[conn[c].run], atEnd[conn[c].run], status[conn[c].run])
  BY <1>1 DEF StreamsSafe
<1>6. status'[conn[c].run] \in {status[conn[c].run], "lost"}
  BY <1>2 DEF ServerDies
<1>7. QED
  BY <1>4, <1>5, <1>6, ClosedSafe

LEMMA StreamsStep == TypeInv /\ StreamsSafe /\ [Next]_vars => StreamsSafe'
<1> SUFFICES ASSUME TypeInv, StreamsSafe, [Next]_vars PROVE StreamsSafe'
  OBVIOUS
<1>1. StreamTypeOK
  BY DEF TypeInv, TypeOK
<1>2. CASE UNCHANGED streamVars
  BY <1>2 DEF StreamsSafe, Used, streamVars, recordVars
<1>3. CASE PostArrives \/ Others
  <2>1. PICK r \in Runs : Create(r)
    BY <1>3, ChatAssumption DEF PostArrives, Others, TypeInv
  <2>2. QED
    BY <1>1, <2>1, CreateSafe
<1>4. CASE EsOpens
  <2>1. chat \in Runs
    BY <1>4, ChatAssumption DEF EsOpens, TypeInv
  <2>2. QED
    BY <1>1, <1>4, <2>1, SubscribeSafe DEF EsOpens
<1>5. CASE EsReceives \/ EsDropped
  <2>1. UNCHANGED recordVars
    BY <1>5 DEF EsReceives, EsDropped
  <2>2. cur \in Conns /\ Used(cur)
    BY <1>5, ChatAssumption DEF EsReceives, EsDropped, Used, Unused, TypeInv, TypeOK, NoConn
  <2>3. CASE UNCHANGED conn
    BY <2>1, <2>3 DEF StreamsSafe, Used, recordVars
  <2>4. CASE SocketGone(cur)
    BY <1>1, <2>1, <2>2, <2>4, SocketGoneSafe
  <2>5. QED
    BY <1>5, <2>3, <2>4 DEF EsReceives, EsDropped, Settle
<1>6. CASE Crash
  BY <1>1, <1>6, ServerDiesSafe DEF Crash
<1>7. CASE Server
  BY <1>1, <1>7, AddEventSafe, FinishSafe, HangUpSafe DEF Server, RunStep
<1>8. CASE Send \/ Reset \/ PostAnswered \/ PostFailed \/ EsRefused \/ EsReconnects \/ UNCHANGED vars
  BY <1>2, <1>8 DEF Send, Reset, PostAnswered, PostFailed, EsRefused, EsReconnects, vars
<1>9. QED
  BY <1>3, <1>4, <1>5, <1>6, <1>7, <1>8 DEF Next, Hook

LEMMA StreamsInductive == Spec => [](TypeInv /\ StreamsSafe)
<1>1. Init => TypeInv /\ StreamsSafe
  BY TypeInit DEF Init, StreamInit, StreamsSafe, Used
<1>2. TypeInv /\ StreamsSafe /\ [Next]_vars => (TypeInv /\ StreamsSafe)'
  BY TypeStep, StreamsStep
<1>3. QED
  BY <1>1, <1>2, PTL DEF Spec

\* Whenever it joins, a stream carries the buffered events of its run in order,
\* without a gap or a repetition, up to the terminal status and never past it.
THEOREM StreamsStayFaithful == Spec => []StreamsFaithful
<1>1. StreamsSafe => StreamsFaithful
  BY DEF StreamsSafe, StreamSafe, Over, StreamsFaithful
<1>2. QED
  BY <1>1, StreamsInductive, PTL

\* A listener that outlives its stream comes from a replay of a run that was
\* already over.
THEOREM LeaksConfined == Spec => []LeaksOnlyFromReplay
<1>1. StreamsSafe => LeaksOnlyFromReplay
  BY DEF StreamsSafe, StreamSafe, Over, LeaksOnlyFromReplay
<1>2. QED
  BY <1>1, StreamsInductive, PTL

-----------------------------------------------------------------------------
\* The numbers of the events of kind k among the first i of s.
Given(s, i, k) == {s[j].n : j \in {h \in 1..i : s[h].kind = k}}

\* The turn s shows what the EventSource dispatched, the first g events of q;
\* without a drop it shows nothing else.
Shown(s, q, g, d) ==
  /\ g <= Len(q)
  /\ \A k \in Buffered : /\ Given(q, g, k) \subseteq Carried(s, k)
                         /\ d = 0 => Ascending(s, k) /\ Carried(s, k) = Given(q, g, k)

EndedTurn(n) ==
  /\ status[n] \in Terminal \union {"lost"}
  /\ \A k \in Buffered : /\ 1..atEnd[n][k] \subseteq Carried(turn[n], k)
                         /\ drops = 0 => InOrder(n, k)

\* A turn is empty until its EventSource opens; the tab reconnects without a
\* drop only after a crash, which no turn survives; a turn that ended is that
\* of a run that did.
TurnSafe ==
  /\ phase \in {"idle", "error"} => post = "none" /\ es = "none"
  /\ post = "answered" \/ es # "none" => status[chat] # "none"
  /\ \A n \in Chats : n > chat \/ (n = chat /\ post # "none") => turn[n] = <<>>
  /\ es = "connecting" /\ drops = 0 => turn[chat] = <<>> \/ status[chat] = "lost"
  /\ es = "open" => /\ conn[cur].run = chat /\ conn[cur].sent # <<>>
                    /\ drops = 0 => conn[cur].up \/ status[chat] = "lost"
                    /\ Shown(turn[chat], conn[cur].sent, got, drops)
  /\ \A n \in Chats : Finished(n) => EndedTurn(n)

LEMMA GivenNext ==
  ASSUME NEW s, NEW i \in Nat, NEW k
  PROVE  /\ Given(s, 0, k) = {}
         /\ s[i + 1].kind = k => Given(s, i + 1, k) = Given(s, i, k) \union {s[i + 1].n}
         /\ s[i + 1].kind # k => Given(s, i + 1, k) = Given(s, i, k)
BY DEF Given

LEMMA GivenAll ==
  ASSUME NEW s, NEW k
  PROVE  Given(s, Len(s), k) = Carried(s, k)
BY DEF Given, Carried

\* What is written later does not change what was dispatched.
LEMMA GivenKept ==
  ASSUME NEW s \in Seq(Events), NEW e \in Events, NEW i \in 0..Len(s), NEW k
  PROVE  Given(Append(s, e), i, k) = Given(s, i, k)
BY AppendProperties DEF Given

LEMMA ShownKept ==
  ASSUME NEW s, NEW q \in Seq(Events), NEW q2, NEW g \in Nat, NEW d, NEW d2,
         Shown(s, q, g, d), d2 = 0 => d = 0, q2 = q \/ \E e \in Events : q2 = Append(q, e)
  PROVE  Shown(s, q2, g, d2)
<1>1. g <= Len(q2) /\ \A k \in Buffered : Given(q2, g, k) = Given(q, g, k)
  <2>1. CASE q2 = q
    BY <2>1 DEF Shown
  <2>2. CASE \E e \in Events : q2 = Append(q, e)
    <3>1. PICK e \in Events : q2 = Append(q, e)
      BY <2>2
    <3>2. g \in 0..Len(q)
      BY DEF Shown
    <3>3. QED
      BY <3>1, <3>2, GivenKept, AppendProperties
  <2>3. QED
    BY <2>1, <2>2
<1>2. QED
  BY <1>1 DEF Shown

LEMMA EndedKept ==
  ASSUME TypeInv, NEW n \in Chats, EndedTurn(n), turn'[n] = turn[n], drops' = 0 => drops = 0,
         atEnd'[n] = atEnd[n], status'[n] \in Terminal \union {"lost"},
         \A k \in Buffered : made'[n][k] \in Nat /\ made[n][k] <= made'[n][k]
  PROVE  EndedTurn(n)'
<1>1. \A k \in Buffered : made[n][k] \in Nat
  BY ChatAssumption DEF TypeInv, TypeOK, StreamTypeOK, Kinds
<1>2. \A k \in Buffered : InOrder(n, k) => InOrder(n, k)'
  BY <1>1 DEF InOrder
<1>3. QED
  BY <1>2 DEF EndedTurn

\* What a step leaves of a run: it stays created, a lost one lost, an ended one
\* ended with what it had made, and nothing made is taken back.
RunKept(r) ==
  /\ status[r] # "none" => status'[r] # "none"
  /\ status[r] = "lost" => status'[r] = "lost"
  /\ status[r] \in Terminal \union {"lost"} =>
       status'[r] \in Terminal \union {"lost"} /\ atEnd'[r] = atEnd[r]
  /\ \A k \in Buffered : made'[r][k] \in Nat /\ made[r][k] <= made'[r][k]

LEMMA RunsKept ==
  ASSUME TypeInv, [Next]_vars, NEW r \in Runs
  PROVE  RunKept(r)
<1> USE DEF RunKept, Active, Terminal
<1>1. \A k \in Buffered : made[r][k] \in Nat
  BY DEF TypeInv, TypeOK, StreamTypeOK, Kinds
<1>2. CASE PostArrives \/ Others
  <2>1. PICK q \in Runs : Create(q)
    BY <1>2, ChatAssumption DEF PostArrives, Others, TypeInv
  <2>2. QED
    BY <1>1, <2>1 DEF Create, TypeInv, TypeOK, StreamTypeOK
<1>3. CASE UNCHANGED recordVars
  BY <1>1, <1>3 DEF recordVars
<1>4. CASE Crash
  <2>1. /\ status' = [q \in Runs |-> IF status[q] = "none" THEN "none" ELSE "lost"]
        /\ made' = made /\ atEnd' = atEnd
    BY <1>4 DEF Crash, ServerDies
  <2>2. QED
    BY <1>1, <2>1
<1>5. CASE Server
  <2>1. ASSUME NEW q \in Runs, NEW k \in Kinds, AddEvent(q, k) PROVE RunKept(r)
    <3>1. \A j \in Kinds : made[q][j] \in Nat /\ made[r][j] \in Nat
      BY DEF TypeInv, TypeOK, StreamTypeOK
    <3>2. \A j \in Kinds : made'[r][j] \in Nat /\ made[r][j] <= made'[r][j]
      <4>1. made \in [Runs -> [Kinds -> Nat]] /\ made' = [made EXCEPT ![q][k] = @ + 1]
        BY <2>1 DEF AddEvent, TypeInv, TypeOK, StreamTypeOK
      <4>2. QED
        BY <3>1, <4>1
    <3>3. QED
      BY <2>1, <3>2 DEF AddEvent, Kinds
  <2>2. ASSUME NEW q \in Runs, Finish(q) PROVE RunKept(r)
    BY <1>1, <2>2 DEF Finish, TypeInv, TypeOK, StreamTypeOK
  <2>3. QED
    BY <1>3, <1>5, <2>1, <2>2 DEF Server, RunStep, HangUp
<1>6. CASE Send \/ Reset \/ PostAnswered \/ PostFailed \/ EsRefused \/ EsReconnects
             \/ EsDropped \/ EsReceives \/ EsOpens \/ UNCHANGED vars
  BY <1>3, <1>6 DEF Send, Reset, PostAnswered, PostFailed, EsRefused, EsReconnects, EsDropped,
                    EsReceives, EsOpens, Subscribe, vars, streamVars
<1>7. QED
  BY <1>2, <1>4, <1>5, <1>6 DEF Next, Hook

\* What the server does to an open connection.
LEMMA WriteUp ==
  ASSUME NEW s \in Conn, NEW e
  PROVE  Write(s, e).up = s.up
BY Zenon DEF Write, Conn

ConnKept(c) ==
  /\ conn'[c].run = conn[c].run /\ conn'[c].up = conn[c].up
  /\ \/ conn'[c].sent = conn[c].sent
     \/ \E e \in Events : conn'[c].sent = Append(conn[c].sent, e)

LEMMA EmitKept ==
  ASSUME StreamTypeOK, StreamsSafe, NEW r, NEW e \in Events, Emit(r, e), NEW c \in Conns, Used(c)
  PROVE  ConnKept(c)
<1>1. CASE ~conn[c].terminated /\ conn'[c] = Write(conn[c], e)
  <2>1. conn[c] \in Conn /\ conn[c].hooked
    BY <1>1, ConnsTyped DEF StreamsSafe, StreamSafe
  <2>2. QED
    BY <1>1, <2>1, WriteFields, WriteUp DEF ConnKept
<1>2. CASE conn'[c] = conn[c]
  BY <1>2 DEF ConnKept
<1>3. QED
  BY <1>1, <1>2, EmitEffect

LEMMA HangUpKept ==
  ASSUME StreamTypeOK, NEW d \in Conns, HangUp(d), NEW c \in Conns, Used(c)
  PROVE  ConnKept(c)
<1>1. CASE c = d
  <2>1. conn'[c] = [conn[c] EXCEPT !.terminated = TRUE, !.hooked = FALSE]
    BY <1>1, Zenon DEF HangUp, StreamTypeOK
  <2>2. QED
    BY <2>1, ConnsTyped, Zenon DEF Conn, ConnKept
<1>2. CASE c # d
  BY <1>2 DEF HangUp, StreamTypeOK, ConnKept
<1>3. QED
  BY <1>1, <1>2

LEMMA ServerKept ==
  ASSUME StreamTypeOK, StreamsSafe, Server \/ Others \/ PostArrives, NEW c \in Conns, Used(c)
  PROVE  ConnKept(c)
<1>1. CASE UNCHANGED conn
  BY <1>1 DEF ConnKept
<1>2. ASSUME NEW r \in Runs, NEW k \in Kinds, AddEvent(r, k) PROVE ConnKept(c)
  <2>1. Event(k, made[r][k] + 1) \in Events
    BY EventsTyped DEF StreamTypeOK
  <2>2. QED
    BY <1>2, <2>1, EmitKept DEF AddEvent
<1>3. ASSUME NEW r \in Runs, Finish(r) PROVE ConnKept(c)
  BY <1>3, EventsTyped, EmitKept DEF Finish, Statuses
<1>4. QED
  BY <1>1, <1>2, <1>3, HangUpKept DEF Server, RunStep, Others, PostArrives, Create

LEMMA DropsGrow ==
  ASSUME TypeInv, [Next]_vars
  PROVE  drops' = 0 => drops = 0
<1>1. CASE UNCHANGED drops
  BY <1>1
<1>2. CASE Drops
  BY <1>2, ChatAssumption DEF Drops, TypeInv, TypeOK
<1>3. QED
  BY <1>1, <1>2 DEF Next, Hook, Send, Reset, PostArrives, PostAnswered, PostFailed, EsOpens,
     EsRefused, EsReceives, EsReconnects, EsDropped, Crash, Others, Server, vars

LEMMA EndedStep ==
  ASSUME TypeInv, TurnSafe, [Next]_vars, NEW n \in Chats, turn'[n] = turn[n], Finished(n)'
  PROVE  EndedTurn(n)'
<1>1. n \in Runs /\ EndedTurn(n)
  BY ChatAssumption DEF TurnSafe, Finished
<1>2. RunKept(n)
  BY <1>1, RunsKept
<1>3. QED
  BY <1>1, <1>2, EndedKept, DropsGrow DEF RunKept, EndedTurn

LEMMA OpenTyped ==
  ASSUME TypeInv, es = "open"
  PROVE  /\ cur \in Conns /\ conn[cur].sent \in Seq(Events) /\ got \in Nat
         /\ chat \in Chats /\ chat \in Runs
<1>1. cur \in Conns /\ got \in Nat /\ chat \in Chats /\ chat \in Runs
  BY ChatAssumption DEF TypeInv, TypeOK, NoConn
<1>2. conn[cur] \in Conn \union {Unused}
  BY <1>1 DEF TypeInv, TypeOK, StreamTypeOK
<1>3. conn[cur].sent \in Seq(Events)
  <2>1. Unused.sent \in Seq(Events)
    BY DEF Unused
  <2>2. QED
    BY <1>2, <2>1 DEF Conn
<1>4. QED
  BY <1>1, <1>3

\* The steps that leave the turns and the open EventSource to the server.
LEMMA AloneTurns ==
  ASSUME TypeInv, TypeInv', TurnSafe, [Next]_vars,
         UNCHANGED <<chat, phase, es, cur, got, turn>>,
         post' = post \/ (post = "asked" /\ post' = "answered" /\ status'[chat] # "none")
           \/ (post # "none" /\ post' = "broken"),
         es = "open" => /\ conn'[cur].run = conn[cur].run
                        /\ drops' = 0 => conn'[cur].up = conn[cur].up \/ status'[chat] = "lost"
                        /\ \/ conn'[cur].sent = conn[cur].sent
                           \/ \E e \in Events : conn'[cur].sent = Append(conn[cur].sent, e)
  PROVE  TurnSafe'
<1>1. post # "none" \/ es # "none" => chat \in Runs
  BY ChatAssumption DEF TypeInv
<1>2. post # "none" \/ es # "none" => RunKept(chat)
  BY <1>1, RunsKept
<1>3. drops' = 0 => drops = 0
  BY DropsGrow
<1>4. phase' \in {"idle", "error"} => post' = "none" /\ es' = "none"
  BY DEF TurnSafe
<1>5. post' = "answered" \/ es' # "none" => status'[chat'] # "none"
  BY <1>2 DEF TurnSafe, RunKept
<1>6. \A n \in Chats : n > chat' \/ (n = chat' /\ post' # "none") => turn'[n] = <<>>
  BY DEF TurnSafe
<1>7. es' = "connecting" /\ drops' = 0 => turn'[chat'] = <<>> \/ status'[chat'] = "lost"
  BY <1>2, <1>3 DEF TurnSafe, RunKept
<1>8. ASSUME es' = "open"
      PROVE  /\ conn'[cur'].run = chat' /\ conn'[cur'].sent # <<>>
             /\ drops' = 0 => conn'[cur'].up \/ status'[chat'] = "lost"
             /\ Shown(turn'[chat'], conn'[cur'].sent, got', drops')
  <2>1. conn[cur].sent \in Seq(Events) /\ got \in Nat
    BY <1>8, OpenTyped
  <2>2. Shown(turn[chat], conn[cur].sent, got, drops)
    BY <1>8 DEF TurnSafe
  <2>3. Shown(turn[chat], conn'[cur].sent, got, drops')
    BY <1>3, <1>8, <2>1, <2>2, ShownKept
  <2>4. /\ conn[cur].run = chat /\ conn[cur].sent # <<>>
        /\ (drops = 0 => conn[cur].up \/ status[chat] = "lost")
    BY <1>8 DEF TurnSafe
  <2>5. conn'[cur].sent # <<>>
    BY <1>8, <2>1, <2>4, AppendProperties
  <2>6. QED
    BY <1>2, <1>3, <1>8, <2>3, <2>4, <2>5 DEF RunKept
<1>9. \A n \in Chats : Finished(n)' => EndedTurn(n)'
  BY EndedStep
<1>10. QED
  BY <1>4, <1>5, <1>6, <1>7, <1>8, <1>9 DEF TurnSafe

\* A turn without events, on a stream of which nothing was dispatched.
LEMMA NothingShown ==
  ASSUME NEW q \in Seq(Events), NEW d, NEW s, d = 0 => s = <<>>
  PROVE  Shown(s, q, 0, d)
<1>1. 0 <= Len(q) /\ \A k \in Buffered : Given(q, 0, k) = {}
  BY DEF Given
<1>2. ASSUME s = <<>>, NEW k \in Buffered PROVE Ascending(s, k) /\ Carried(s, k) = {}
  BY <1>2 DEF Ascending, Carried
<1>3. QED
  BY <1>1, <1>2 DEF Shown

LEMMA OpensTurn ==
  ASSUME TypeInv, TypeInv', TurnSafe, EsOpens, [Next]_vars
  PROVE  TurnSafe'
<1>1. PICK c \in Conns : Subscribe(c, chat) /\ cur' = c
  BY DEF EsOpens
<1>2. /\ chat \in Runs /\ chat \in Chats /\ status[chat] \in Statuses
      /\ UNCHANGED <<recordVars, chat, phase, post, turn, drops>> /\ got' = 0 /\ es' = "open"
      /\ es = "connecting" /\ post = "none"
  BY <1>1, ChatAssumption DEF EsOpens, Subscribe, TypeInv
<1>3. /\ conn'[c].run = chat /\ conn'[c].up /\ conn'[c].sent = Replay(chat)
  BY <1>1, Zenon DEF Subscribe, TypeInv, TypeOK, StreamTypeOK
<1>4. Replay(chat) \in Seq(Events) /\ Replay(chat) # <<>>
  BY <1>2, ReplayTyped, ReplayFaithful DEF TypeInv, TypeOK
<1>5. drops = 0 => turn[chat] = <<>>
  BY <1>2 DEF TurnSafe, Statuses, Active, Terminal
<1>6. Shown(turn[chat], Replay(chat), 0, drops)
  BY <1>4, <1>5, NothingShown
<1>7. \A n \in Chats : Finished(n)' => EndedTurn(n)'
  BY <1>2, EndedStep
<1>8. phase \notin {"idle", "error"} /\ status[chat] # "none"
      /\ \A n \in Chats : n > chat \/ (n = chat /\ post # "none") => turn[n] = <<>>
  BY <1>2 DEF TurnSafe
<1>9. QED
  BY <1>1, <1>2, <1>3, <1>4, <1>6, <1>7, <1>8 DEF TurnSafe, recordVars

\* The event e, after the first g of q, goes into the turn s.
LEMMA ShownNext ==
  ASSUME NEW s \in Seq(Events), NEW q \in Seq(Events), NEW g \in Nat, g < Len(q), NEW d,
         Shown(s, q, g, d), \A k \in Buffered : Ascending(q, k)
  PROVE  /\ q[g + 1].kind \notin Active => Shown(Append(s, q[g + 1]), q, g + 1, d)
         /\ q[g + 1].kind \in Active => Shown(s, q, g + 1, d)
<1> DEFINE e == q[g + 1]  z == Append(s, e)
<1>1. e \in Events /\ g + 1 <= Len(q) /\ g + 1 \in 1..Len(q)
  OBVIOUS
<1>2. ASSUME NEW k \in Buffered, e.kind # k
      PROVE  /\ Given(q, g + 1, k) = Given(q, g, k) /\ Carried(z, k) = Carried(s, k)
             /\ Ascending(s, k) => Ascending(z, k)
  BY <1>1, <1>2, GivenNext, AppendCarried, AppendAscending
<1>3. ASSUME NEW k \in Buffered, e.kind = k
      PROVE  /\ Given(q, g + 1, k) = Given(q, g, k) \union {e.n}
             /\ Carried(z, k) = Carried(s, k) \union {e.n}
             /\ d = 0 => Ascending(z, k)
  <2>1. \A m \in Given(q, g, k) : m < e.n
    <3>1. ASSUME NEW j \in 1..g, q[j].kind = k PROVE q[j].n < e.n
      <4>1. j \in 1..Len(q) /\ j < g + 1
        BY <1>1
      <4>2. QED
        BY <1>1, <1>3, <3>1, <4>1 DEF Ascending
    <3>2. QED
      BY <3>1 DEF Given
  <2>2. d = 0 => Ascending(s, k) /\ \A m \in Carried(s, k) : m < e.n
    BY <2>1 DEF Shown
  <2>3. d = 0 => Ascending(z, k)
    BY <1>1, <1>3, <2>2, AppendAscending
  <2>4. Given(q, g + 1, k) = Given(q, g, k) \union {e.n}
    BY <1>3, GivenNext
  <2>5. Carried(z, k) = Carried(s, k) \union {e.n}
    BY <1>1, <1>3, AppendCarried
  <2>6. QED
    BY <2>3, <2>4, <2>5
<1>4. ASSUME e.kind \notin Active PROVE Shown(z, q, g + 1, d)
  <2>1. ASSUME NEW k \in Buffered
        PROVE  /\ Given(q, g + 1, k) \subseteq Carried(z, k)
               /\ d = 0 => Ascending(z, k) /\ Carried(z, k) = Given(q, g + 1, k)
    BY <1>2, <1>3 DEF Shown
  <2>2. QED
    BY <1>1, <2>1 DEF Shown
<1>5. ASSUME e.kind \in Active PROVE Shown(s, q, g + 1, d)
  BY <1>1, <1>2, <1>5 DEF Shown, Active, Buffered
<1>6. QED
  BY <1>4, <1>5

\* A status that ended the run ends the turn, which by then shows all of it.
LEMMA ShownAll ==
  ASSUME TypeInv, StreamsSafe, TurnSafe, es = "open", Used(cur), NEW n, n = chat,
         conn[cur].sent[got + 1].kind \in Terminal, got < Len(conn[cur].sent),
         NEW s \in Seq(Events), Shown(s, conn[cur].sent, got + 1, drops)
  PROVE  /\ status[n] \in Terminal \union {"lost"}
         /\ \A k \in Buffered :
              /\ 1..atEnd[n][k] \subseteq Carried(s, k)
              /\ drops = 0 => Ascending(s, k) /\ \E m \in 0..made[n][k] : Carried(s, k) = 1..m
<1> DEFINE x == conn[cur]  q == x.sent
<1>1. /\ q \in Seq(Events) /\ got \in Nat
      /\ StreamSafe(x, made[n], atEnd[n], status[n])
  BY OpenTyped DEF StreamsSafe, TurnSafe
<1> HIDE DEF x
<1>2. got + 1 = Len(q) /\ Over(x)
  <2>1. got + 1 \in 1..Len(q) /\ q[got + 1].kind \in Terminal
    BY <1>1 DEF x
  <2>2. got + 1 = Len(q)
    BY <1>1, <2>1 DEF StreamSafe
  <2>3. QED
    BY <2>1, <2>2 DEF Over, Last
<1>3. Shown(s, q, Len(q), drops)
  BY <1>2 DEF x
<1>4. QED
  BY <1>1, <1>2, <1>3, GivenAll DEF StreamSafe, Shown

LEMMA ReceivesTurn ==
  ASSUME TypeInv, TypeInv', StreamsSafe, TurnSafe, EsReceives, [Next]_vars
  PROVE  TurnSafe'
<1> DEFINE q == conn[cur].sent  e == q[got + 1]  s == turn'[chat]
<1>1. /\ q \in Seq(Events) /\ got \in Nat /\ cur \in Conns /\ chat \in Runs /\ chat \in Chats
      /\ got < Len(q) /\ es = "open" /\ conn[cur].up /\ got' = got + 1
      /\ UNCHANGED <<status, made, atEnd, chat, post, drops>>
  BY OpenTyped DEF EsReceives, recordVars
<1>2. Used(cur)
  BY <1>1 DEF Used, Unused
<1>3. /\ conn[cur].run = chat /\ q # <<>> /\ Shown(turn[chat], q, got, drops)
      /\ \A k \in Buffered : Ascending(q, k)
  BY <1>1, <1>2 DEF TurnSafe, StreamsSafe, StreamSafe
<1>4. /\ post = "none" /\ phase \notin {"idle", "error"} /\ status[chat] # "none"
      /\ \A n \in Chats : n > chat => turn[n] = <<>>
  BY <1>1 DEF TurnSafe, TypeInv
<1>5. /\ turn[chat] \in Seq(Events) /\ turn \in [Chats -> Seq(Events)]
      /\ turn' = IF e.kind \in Active THEN turn ELSE [turn EXCEPT ![chat] = Append(@, e)]
  BY <1>1 DEF EsReceives, TypeInv, TypeOK
<1>6. s = (IF e.kind \in Active THEN turn[chat] ELSE Append(turn[chat], e))
      /\ \A n \in Chats \ {chat} : turn'[n] = turn[n]
  BY <1>1, <1>5
<1>7. e \in Events /\ s \in Seq(Events)
  BY <1>1, <1>5, <1>6, AppendProperties
<1>8. Shown(s, q, got + 1, drops)
  BY <1>1, <1>3, <1>5, <1>6, ShownNext
<1>9. ASSUME NEW n \in Chats, n # chat, Finished(n)' PROVE EndedTurn(n)'
  BY <1>6, <1>9, EndedStep
<1>10. \A n \in Chats : n > chat => turn'[n] = <<>>
  BY <1>1, <1>4, <1>6, ChatAssumption DEF Chats
<1>11. CASE e.kind \in Terminal
  <2>1. es' = "none" /\ cur' = NoConn
    BY <1>11 DEF EsReceives, Settle
  <2>2. /\ status[chat] \in Terminal \union {"lost"}
        /\ \A k \in Buffered :
             /\ 1..atEnd[chat][k] \subseteq Carried(s, k)
             /\ drops = 0 => /\ Ascending(s, k)
                             /\ \E m \in 0..made[chat][k] : Carried(s, k) = 1..m
    BY <1>1, <1>2, <1>7, <1>8, <1>11, ShownAll
  <2>3. EndedTurn(chat)'
    BY <1>1, <2>2 DEF EndedTurn, InOrder
  <2>4. QED
    BY <1>1, <1>4, <1>9, <1>10, <2>1, <2>3 DEF TurnSafe
<1>12. CASE e.kind \notin Terminal
  <2>1. UNCHANGED <<phase, es, cur, conn>>
    BY <1>12 DEF EsReceives, Settle
  <2>2. Finished(chat)' => EndedTurn(chat)'
    <3>1. CASE e.kind \in Active
      BY <1>1, <1>6, <3>1, EndedStep
    <3>2. CASE e.kind \notin Active
      BY <1>1, <1>5, <1>6, <1>7, <1>12, <3>2, AppendProperties DEF Finished, Last
    <3>3. QED
      BY <3>1, <3>2
  <2>3. QED
    BY <1>1, <1>3, <1>4, <1>8, <1>9, <1>10, <2>1, <2>2 DEF TurnSafe
<1>13. QED
  BY <1>11, <1>12

LEMMA TurnStep == TypeInv /\ TypeInv' /\ StreamsSafe /\ TurnSafe /\ [Next]_vars => TurnSafe'
<1> SUFFICES ASSUME TypeInv, TypeInv', StreamsSafe, TurnSafe, [Next]_vars PROVE TurnSafe'
  OBVIOUS
<1>1. \A n \in Chats : turn'[n] = turn[n] /\ Finished(n)' => EndedTurn(n)'
  BY EndedStep
<1>2. CASE Send
  <2>1. /\ chat' = chat + 1 /\ phase' = "sending" /\ post' = "asked" /\ es = "none"
        /\ UNCHANGED <<es, turn>>
    BY <1>2 DEF Send
  <2>2. \A n \in Chats : n > chat' \/ n = chat' => n > chat
    BY <2>1, ChatAssumption DEF Chats, TypeInv, TypeOK
  <2>3. QED
    BY <1>1, <2>1, <2>2 DEF TurnSafe
<1>3. CASE Reset
  <2>1. post = "none" /\ es = "none"
    BY <1>3 DEF Reset, TurnSafe
  <2>2. turn' = [n \in Chats |-> <<>>] /\ phase' = "idle" /\ UNCHANGED <<chat, post, es>>
    BY <1>3 DEF Reset
  <2>3. \A n \in Chats : turn'[n] = <<>> /\ ~Finished(n)'
    BY <2>2 DEF Finished
  <2>4. QED
    BY <2>1, <2>2, <2>3 DEF TurnSafe
<1>4. CASE PostAnswered
  <2>1. /\ post = "answered" /\ chat \in Chats /\ post' = "none" /\ phase' = "streaming"
        /\ es' = "connecting" /\ UNCHANGED <<status, chat, turn>>
    BY <1>4 DEF PostAnswered, TypeInv, streamVars, recordVars
  <2>2. QED
    BY <1>1, <2>1 DEF TurnSafe
<1>5. CASE PostFailed
  <2>1. /\ post # "none" /\ es = "none" /\ post' = "none" /\ phase' = "error"
        /\ UNCHANGED <<status, chat, es, turn>>
    BY <1>5 DEF PostFailed, TypeInv, streamVars, recordVars
  <2>2. QED
    BY <1>1, <2>1 DEF TurnSafe
<1>6. CASE EsOpens
  BY <1>6, OpensTurn
<1>7. CASE EsRefused
  <2>1. es' = "none" /\ es # "none" /\ UNCHANGED <<status, chat, phase, post, turn>>
    BY <1>7 DEF EsRefused, streamVars, recordVars
  <2>2. post = "none"
    BY <2>1 DEF TypeInv
  <2>3. QED
    BY <1>1, <2>1, <2>2 DEF TurnSafe
<1>8. CASE EsReceives
  BY <1>8, ReceivesTurn
<1>9. CASE EsReconnects
  <2>1. /\ es = "open" /\ ~conn[cur].up /\ es' = "connecting"
        /\ UNCHANGED <<status, chat, phase, post, turn, drops>>
    BY <1>9 DEF EsReconnects, streamVars, recordVars
  <2>2. post = "none"
    BY <2>1 DEF TypeInv
  <2>3. QED
    BY <1>1, <2>1, <2>2 DEF TurnSafe
<1>10. CASE EsDropped
  <2>1. UNCHANGED <<chat, phase, es, cur, got, turn, post>> /\ SocketGone(cur) /\ Drops
    BY <1>10 DEF EsDropped, hookVars
  <2>2. drops' # 0
    BY <2>1, ChatAssumption DEF Drops, TypeInv, TypeOK
  <2>3. es = "open" => conn'[cur].run = conn[cur].run /\ conn'[cur].sent = conn[cur].sent
    <3> SUFFICES ASSUME es = "open"
                 PROVE  conn'[cur].run = conn[cur].run /\ conn'[cur].sent = conn[cur].sent
      OBVIOUS
    <3>1. conn[cur].up /\ cur \in Conns
      BY <1>10, OpenTyped DEF EsDropped
    <3>2. conn[cur] \in Conn
      BY <3>1, ConnsTyped DEF TypeInv, TypeOK, Used, Unused
    <3>3. conn'[cur] = ClientGone(conn[cur])
      BY <2>1, <3>1, Zenon DEF SocketGone, TypeInv, TypeOK, StreamTypeOK, ClientGone
    <3>4. QED
      BY <3>2, <3>3, ClientGoneFields
  <2>4. QED
    BY <2>1, <2>2, <2>3, AloneTurns
<1>11. CASE Crash
  <2>1. /\ UNCHANGED <<chat, phase, es, cur, got, turn, drops>> /\ ServerDies
        /\ post' = post \/ (post # "none" /\ post' = "broken")
    BY <1>11 DEF Crash
  <2>2. ASSUME es = "open"
        PROVE  /\ conn'[cur].run = conn[cur].run /\ conn'[cur].sent = conn[cur].sent
               /\ status'[chat] = "lost"
    <3>1. cur \in Conns /\ chat \in Runs /\ status[chat] # "none"
      BY <2>2, OpenTyped DEF TurnSafe
    <3>2. status'[chat] = "lost"
      BY <2>1, <3>1 DEF ServerDies
    <3>3. CASE Used(cur)
      <4>1. conn[cur] \in Conn
        BY <3>1, <3>3, ConnsTyped DEF TypeInv, TypeOK
      <4>2. conn'[cur] = Dead(conn[cur])
        BY <2>1, <3>1, <3>3, Zenon DEF ServerDies, Dead
      <4>3. QED
        BY <3>2, <4>1, <4>2, DeadFields
    <3>4. CASE ~Used(cur)
      BY <2>1, <3>1, <3>2, <3>4 DEF ServerDies
    <3>5. QED
      BY <3>3, <3>4
  <2>3. QED
    BY <2>1, <2>2, AloneTurns
<1>12. CASE PostArrives \/ Others \/ Server
  <2>1. UNCHANGED <<chat, phase, es, cur, got, turn, drops>>
    BY <1>12 DEF PostArrives, Others, Server, hookVars
  <2>2. post' = post \/ (post = "asked" /\ post' = "answered" /\ status'[chat] # "none")
    <3>1. CASE PostArrives
      BY <3>1, ChatAssumption
         DEF PostArrives, Create, TypeInv, TypeOK, StreamTypeOK, Active, Terminal
    <3>2. CASE Others \/ Server
      BY <3>2 DEF Others, Server, hookVars
    <3>3. QED
      BY <1>12, <3>1, <3>2
  <2>3. es = "open" => cur \in Conns /\ Used(cur)
    BY OpenTyped DEF TurnSafe, Used, Unused
  <2>4. es = "open" => ConnKept(cur)
    BY <1>12, <2>3, ServerKept DEF TypeInv, TypeOK
  <2>5. QED
    BY <2>1, <2>2, <2>4, AloneTurns DEF ConnKept
<1>13. CASE UNCHANGED vars
  BY <1>13, AloneTurns DEF vars, streamVars, recordVars, hookVars
<1>14. QED
  BY <1>2, <1>3, <1>4, <1>5, <1>6, <1>7, <1>8, <1>9, <1>10, <1>11, <1>12, <1>13 DEF Next, Hook

\* A turn that ended shows every log and artifact its run ended with, through
\* any number of reconnections and crashes; with no connection dropped, each
\* once and in order.
THEOREM TurnsStayComplete == Spec => []TurnsComplete
<1>1. Init => TurnSafe
  BY ChatAssumption DEF Init, TurnSafe, Finished, Chats
<1>2. TurnSafe => TurnsComplete
  BY DEF TurnSafe, EndedTurn, TurnsComplete
<1>3. QED
  BY <1>1, <1>2, TypeInit, TypeStep, TurnStep, StreamsInductive, PTL DEF Spec

=============================================================================
