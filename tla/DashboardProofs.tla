--------------------------- MODULE DashboardProofs ---------------------------
(* Theorems about the log of artifacts and the page that shows them, for any  *)
(* number of ticks, connections, rows, stops and losses.                      *)
EXTENDS MCDashboard, ConversationProofs, AgentProofs, FiniteSetTheorems

LEMMA SeqOfFcn ==
  ASSUME NEW S, NEW n \in Nat, NEW f \in [1..n -> S]
  PROVE  f \in Seq(S) /\ Len(f) = n /\ DOMAIN f = 1..n
OBVIOUS

LEMMA Joined ==
  ASSUME NEW S, NEW p \in Seq(S), NEW q \in Seq(S)
  PROVE  /\ Len(p \o q) = Len(p) + Len(q)
         /\ \A i \in 1..Len(p) : (p \o q)[i] = p[i]
         /\ \A i \in (Len(p) + 1)..(Len(p) + Len(q)) : (p \o q)[i] = q[i - Len(p)]
BY ConcatProperties

LEMMA KeysOf ==
  /\ \A a \in LoggedArtifacts :
       /\ a.kind \in Kinds /\ a.id \in Nat /\ a.n \in Nat
       /\ NaturalKey(a) \in {NoKey, <<a.kind, a.id>>}
       /\ NaturalKey(a) = NoKey <=> a.kind \in {"heartbeat-tick", "heartbeat-decision"}
  /\ \A a, b \in LoggedArtifacts : NaturalKey(a) = NaturalKey(b) => ConflictStrategy(a) = ConflictStrategy(b)
  /\ \A a \in LoggedArtifacts : ConflictStrategy(a) = "no-key" <=> NaturalKey(a) = NoKey
  /\ \A a \in LoggedArtifacts : ConflictStrategy(a) \in {"no-key", "do-update", "do-nothing"}
<1>1. ASSUME NEW a \in LoggedArtifacts
      PROVE  /\ a.kind \in Kinds /\ a.id \in Nat /\ a.n \in Nat
             /\ NaturalKey(a) \in {NoKey, <<a.kind, a.id>>}
             /\ NaturalKey(a) = NoKey <=> a.kind \in {"heartbeat-tick", "heartbeat-decision"}
  <2>1. a.kind \in Kinds /\ a.id \in Nat /\ a.n \in Nat
    BY DEF LoggedArtifacts
  <2>2. a.kind # "null"
    BY <2>1 DEF Kinds
  <2>3. <<a.kind, a.id>> # NoKey
    BY <2>2 DEF NoKey
  <2>4. QED
    BY <2>1, <2>3 DEF NaturalKey
<1>2. ASSUME NEW a \in LoggedArtifacts
      PROVE  /\ ConflictStrategy(a) = IF a.kind = "shill-order" THEN "do-update"
                                      ELSE IF NaturalKey(a) = NoKey THEN "no-key" ELSE "do-nothing"
             /\ a.kind = "shill-order" => NaturalKey(a) # NoKey
  BY <1>1 DEF ConflictStrategy
<1>3. ASSUME NEW a \in LoggedArtifacts, NEW b \in LoggedArtifacts, NaturalKey(a) = NaturalKey(b)
      PROVE  ConflictStrategy(a) = ConflictStrategy(b)
  <2>1. CASE NaturalKey(a) = NoKey
    BY <1>2, <1>3, <2>1
  <2>2. CASE NaturalKey(a) # NoKey
    <3>1. <<a.kind, a.id>> = <<b.kind, b.id>>
      BY <1>1, <1>3, <2>2
    <3>2. a.kind = b.kind
      BY <3>1
    <3>3. QED
      BY <1>2, <1>3, <3>2
  <2>3. QED
    BY <2>1, <2>2
<1>4. QED
  BY <1>1, <1>2, <1>3

-----------------------------------------------------------------------------
\* The ring: rows with one row per key, and the index of them.
KeysOfRows(r) == {NaturalKey(r[i]) : i \in 1..Len(r)} \ {NoKey}
OncePerKey(r) ==
  \A i, j \in 1..Len(r) :
    NaturalKey(r[i]) = NaturalKey(r[j]) /\ NaturalKey(r[i]) # NoKey => i = j
WithKey(f, key, v) == [k \in DOMAIN f \union {key} |-> IF k = key THEN v ELSE f[k]]
Ring(r)  == [rows |-> r, index |-> IndexRows(r)]
RingRows == {r \in Seq(LoggedArtifacts) : OncePerKey(r) /\ Len(r) <= RingSize}
Rings    == {Ring(r) : r \in RingRows}

LEMMA IndexOf ==
  ASSUME NEW r \in Seq(LoggedArtifacts), OncePerKey(r)
  PROVE  /\ DOMAIN IndexRows(r) = KeysOfRows(r)
         /\ \A i \in 1..Len(r) : NaturalKey(r[i]) # NoKey =>
              PositionsOf(r, NaturalKey(r[i])) = {i} /\ IndexRows(r)[NaturalKey(r[i])] = i
<1>1. DOMAIN r = 1..Len(r) /\ Len(r) \in Nat
  OBVIOUS
<1>2. DOMAIN IndexRows(r) = KeysOfRows(r)
  BY <1>1 DEF IndexRows, KeysOfRows
<1>3. ASSUME NEW i \in 1..Len(r), NaturalKey(r[i]) # NoKey
      PROVE  PositionsOf(r, NaturalKey(r[i])) = {i} /\ IndexRows(r)[NaturalKey(r[i])] = i
  <2> DEFINE key == NaturalKey(r[i])
  <2>1. PositionsOf(r, key) = {i}
    BY <1>1, <1>3 DEF PositionsOf, OncePerKey
  <2>2. key \in {NaturalKey(r[j]) : j \in DOMAIN r} \ {NoKey}
    BY <1>1, <1>3
  <2> HIDE DEF key
  <2>3. IndexRows(r)[key] = CHOOSE j \in PositionsOf(r, key) : \A l \in PositionsOf(r, key) : l <= j
    BY <2>2 DEF IndexRows
  <2>4. (CHOOSE j \in {i} : \A l \in {i} : l <= j) = i
    <3>1. \A l \in {i} : l <= i
      BY <1>1
    <3>2. QED
      BY <3>1
  <2>5. IndexRows(r)[key] = i
    BY <2>1, <2>3, <2>4
  <2>6. QED
    BY <2>1, <2>5 DEF key
<1>4. QED
  BY <1>2, <1>3

LEMMA IndexIs ==
  ASSUME NEW r \in Seq(LoggedArtifacts), OncePerKey(r), NEW f, f = [k \in KeysOfRows(r) |-> f[k]],
         \A i \in 1..Len(r) : NaturalKey(r[i]) # NoKey => f[NaturalKey(r[i])] = i
  PROVE  f = IndexRows(r)
<1>1. DOMAIN IndexRows(r) = KeysOfRows(r)
      /\ \A k \in KeysOfRows(r) : IndexRows(r)[k] = f[k]
  <2>1. \A k \in KeysOfRows(r) : \E i \in 1..Len(r) : k = NaturalKey(r[i]) /\ k # NoKey
    BY DEF KeysOfRows
  <2>2. QED
    BY <2>1, IndexOf
<1>2. IndexRows(r) = [k \in DOMAIN IndexRows(r) |-> IndexRows(r)[k]]
  BY DEF IndexRows
<1>3. QED
  BY <1>1, <1>2

\* A row that takes the place of one with its key keeps the index.
LEMMA RowReplaced ==
  ASSUME NEW r \in RingRows, NEW i \in 1..Len(r), NEW a \in LoggedArtifacts,
         NaturalKey(a) = NaturalKey(r[i])
  PROVE  [r EXCEPT ![i] = a] \in RingRows /\ IndexRows([r EXCEPT ![i] = a]) = IndexRows(r)
<1> DEFINE s == [r EXCEPT ![i] = a]
<1>1. r \in Seq(LoggedArtifacts) /\ OncePerKey(r) /\ Len(r) <= RingSize /\ Len(r) \in Nat
  BY DEF RingRows
<1>2. s \in Seq(LoggedArtifacts) /\ Len(s) = Len(r)
      /\ \A k \in 1..Len(r) : NaturalKey(s[k]) = NaturalKey(r[k])
  BY <1>1
<1> HIDE DEF s
<1>3. OncePerKey(s) /\ KeysOfRows(s) = KeysOfRows(r)
  BY <1>1, <1>2 DEF OncePerKey, KeysOfRows
<1>4. IndexRows(r) = [k \in KeysOfRows(s) |-> IndexRows(r)[k]]
  <2>1. IndexRows(r) = [k \in DOMAIN IndexRows(r) |-> IndexRows(r)[k]]
    BY DEF IndexRows
  <2>2. QED
    BY <1>1, <1>3, <2>1, IndexOf
<1>5. \A k \in 1..Len(s) : NaturalKey(s[k]) # NoKey => IndexRows(r)[NaturalKey(s[k])] = k
  BY <1>1, <1>2, IndexOf
<1>6. IndexRows(r) = IndexRows(s)
  BY <1>2, <1>3, <1>4, <1>5, IndexIs
<1>7. QED
  BY <1>1, <1>2, <1>3, <1>6 DEF RingRows, s

\* A row with a key that is new, or with none, and what the index makes of it.
LEMMA RowAdded ==
  ASSUME NEW r \in RingRows, NEW a \in LoggedArtifacts, NaturalKey(a) \notin DOMAIN IndexRows(r)
  PROVE  /\ Append(r, a) \in Seq(LoggedArtifacts) /\ OncePerKey(Append(r, a))
         /\ Len(Append(r, a)) = Len(r) + 1
         /\ (IF NaturalKey(a) = NoKey THEN IndexRows(r)
             ELSE WithKey(IndexRows(r), NaturalKey(a), Len(r) + 1)) = IndexRows(Append(r, a))
<1> DEFINE s == Append(r, a)  key == NaturalKey(a)  n == Len(r)
           f == IF key = NoKey THEN IndexRows(r) ELSE WithKey(IndexRows(r), key, n + 1)
<1>1. r \in Seq(LoggedArtifacts) /\ OncePerKey(r) /\ n \in Nat
  BY DEF RingRows
<1>2. /\ s \in Seq(LoggedArtifacts) /\ Len(s) = n + 1 /\ s[n + 1] = a
      /\ \A i \in 1..n : s[i] = r[i]
  BY <1>1
<1>3. /\ DOMAIN IndexRows(r) = KeysOfRows(r)
      /\ \A i \in 1..n : NaturalKey(r[i]) # NoKey => IndexRows(r)[NaturalKey(r[i])] = i
      /\ IndexRows(r) = [k \in KeysOfRows(r) |-> IndexRows(r)[k]]
  <2>1. IndexRows(r) = [k \in DOMAIN IndexRows(r) |-> IndexRows(r)[k]]
    BY DEF IndexRows
  <2>2. QED
    BY <1>1, <2>1, IndexOf
<1> HIDE DEF s, n
<1>4. \A i \in 1..n : NaturalKey(r[i]) # NoKey => NaturalKey(r[i]) # key
  BY <1>3 DEF KeysOfRows, n
<1>5. OncePerKey(s)
  BY <1>1, <1>2, <1>4 DEF OncePerKey, n
<1>6. KeysOfRows(s) = IF key = NoKey THEN KeysOfRows(r) ELSE KeysOfRows(r) \union {key}
  <2>1. {NaturalKey(s[i]) : i \in 1..(n + 1)} = {NaturalKey(r[i]) : i \in 1..n} \union {key}
    BY <1>1, <1>2
  <2>2. KeysOfRows(s) = ({NaturalKey(r[i]) : i \in 1..n} \union {key}) \ {NoKey}
    BY <1>2, <2>1 DEF KeysOfRows
  <2>3. QED
    BY <2>2 DEF KeysOfRows, n
<1>7. f = [k \in KeysOfRows(s) |-> f[k]]
  <2>1. CASE key = NoKey
    BY <1>3, <1>6, <2>1
  <2>2. CASE key # NoKey
    <3>1. f = [k \in KeysOfRows(r) \union {key} |->
                 IF k = key THEN n + 1 ELSE IndexRows(r)[k]]
      BY <1>3, <2>2 DEF WithKey
    <3>2. QED
      BY <1>6, <2>2, <3>1
  <2>3. QED
    BY <2>1, <2>2
<1>8. ASSUME NEW i \in 1..(n + 1), NaturalKey(s[i]) # NoKey PROVE f[NaturalKey(s[i])] = i
  <2>1. CASE i \in 1..n
    <3>1. s[i] = r[i] /\ NaturalKey(r[i]) \in KeysOfRows(r)
      BY <1>2, <1>8, <2>1 DEF KeysOfRows, n
    <3>2. CASE key = NoKey
      BY <1>3, <1>8, <2>1, <3>1, <3>2
    <3>3. CASE key # NoKey
      <4>1. f[NaturalKey(r[i])] = IndexRows(r)[NaturalKey(r[i])]
        BY <1>3, <3>1, <3>3 DEF WithKey
      <4>2. QED
        BY <1>3, <1>8, <2>1, <3>1, <4>1
    <3>4. QED
      BY <3>2, <3>3
  <2>2. CASE i = n + 1
    <3>1. s[i] = a /\ key # NoKey
      BY <1>2, <1>8, <2>2
    <3>2. f[key] = n + 1
      BY <1>3, <3>1 DEF WithKey
    <3>3. QED
      BY <2>2, <3>1, <3>2
  <2>3. QED
    BY <1>1, <2>1, <2>2
<1> HIDE DEF f
<1>9. f = IndexRows(s)
  BY <1>2, <1>5, <1>7, <1>8, IndexIs, SMTT(30)
<1>10. QED
  BY <1>2, <1>5, <1>9 DEF f, s, n

LEMMA RingEvicts ==
  ASSUME NEW s \in Seq(LoggedArtifacts), OncePerKey(s), Len(s) <= RingSize + 1
  PROVE  Evict(Ring(s)) \in Rings
<1>1. RingSize \in Nat \ {0} /\ Len(s) \in Nat
  BY LogAssumption
<1>2. CASE Len(s) > RingSize
  <2> DEFINE t == Tail(s)
  <2>1. /\ t \in Seq(LoggedArtifacts) /\ Len(t) = Len(s) - 1
        /\ \A i \in 1..Len(t) : t[i] = s[i + 1] /\ i + 1 \in 1..Len(s) /\ i \in Nat
    BY <1>1, <1>2
  <2>2. Evict(Ring(s)) = Ring(t)
    BY <1>2 DEF Evict, Ring
  <2> HIDE DEF t
  <2>3. OncePerKey(t)
    <3> SUFFICES ASSUME NEW i \in 1..Len(t), NEW j \in 1..Len(t),
                        NaturalKey(t[i]) = NaturalKey(t[j]), NaturalKey(t[i]) # NoKey
                 PROVE  i = j
      BY DEF OncePerKey
    <3>1. i + 1 = j + 1
      BY <2>1 DEF OncePerKey
    <3>2. QED
      BY <2>1, <3>1
  <2>4. t \in RingRows
    BY <1>1, <2>1, <2>3 DEF RingRows
  <2>5. QED
    BY <2>2, <2>4 DEF Rings
<1>3. CASE ~(Len(s) > RingSize)
  <2>1. Evict(Ring(s)) = Ring(s) /\ s \in RingRows
    BY <1>1, <1>3 DEF Evict, Ring, RingRows
  <2>2. QED
    BY <2>1 DEF Rings
<1>4. QED
  BY <1>2, <1>3

\* appendMemory keeps the ring indexed.
LEMMA RingKept ==
  ASSUME NEW l \in Rings, NEW a \in LoggedArtifacts
  PROVE  AppendMemory(l, a) \in Rings
<1>1. PICK r \in RingRows : l = Ring(r)
  BY DEF Rings
<1>2. l.rows = r /\ l.index = IndexRows(r) /\ r \in Seq(LoggedArtifacts) /\ OncePerKey(r)
      /\ Len(r) \in Nat /\ Len(r) <= RingSize
  BY <1>1 DEF Ring, RingRows
<1> DEFINE key == NaturalKey(a)
<1>3. CASE key \in DOMAIN l.index
  <2>1. PICK i \in 1..Len(r) : NaturalKey(r[i]) = key /\ key # NoKey
    <3>1. key \in KeysOfRows(r)
      BY <1>2, <1>3, IndexOf
    <3>2. QED
      BY <3>1 DEF KeysOfRows
  <2>2. l.index[key] = i
    BY <1>2, <2>1, IndexOf
  <2>3. CASE ConflictStrategy(a) = "do-update"
    <3>1. AppendMemory(l, a) = [l EXCEPT !.rows[i] = a]
      BY <1>3, <2>2, <2>3 DEF AppendMemory
    <3>2. [l EXCEPT !.rows[i] = a] = [rows |-> [r EXCEPT ![i] = a], index |-> IndexRows(r)]
      BY <1>1 DEF Ring
    <3>3. [r EXCEPT ![i] = a] \in RingRows /\ IndexRows([r EXCEPT ![i] = a]) = IndexRows(r)
      BY <2>1, RowReplaced
    <3>4. AppendMemory(l, a) = Ring([r EXCEPT ![i] = a])
      BY <3>1, <3>2, <3>3 DEF Ring
    <3>5. QED
      BY <3>3, <3>4 DEF Rings
  <2>4. CASE ConflictStrategy(a) # "do-update"
    BY <1>3, <2>4 DEF AppendMemory
  <2>5. QED
    BY <2>3, <2>4
<1>4. CASE key \notin DOMAIN l.index
  <2> DEFINE s == Append(r, a)
  <2>1. /\ s \in Seq(LoggedArtifacts) /\ OncePerKey(s) /\ Len(s) = Len(r) + 1
        /\ (IF key = NoKey THEN IndexRows(r)
            ELSE WithKey(IndexRows(r), key, Len(r) + 1)) = IndexRows(s)
    BY <1>2, <1>4, RowAdded
  <2>2. AppendMemory(l, a) = Evict(Ring(s))
    BY <1>2, <1>4, <2>1 DEF AppendMemory, Ring, WithKey
  <2>3. Evict(Ring(s)) \in Rings
    <3>1. Len(s) <= RingSize + 1
      BY <1>2, <2>1, LogAssumption
    <3> HIDE DEF s
    <3>2. QED
      BY <2>1, <3>1, RingEvicts
  <2>4. QED
    BY <2>2, <2>3
<1>5. QED
  BY <1>3, <1>4

\* The appends of several artifacts, one after the other.
LEMMA RingKeptByAll ==
  ASSUME NEW l \in Rings, NEW q \in Seq(LoggedArtifacts)
  PROVE  FoldLeft(AppendMemory, l, q) \in Rings
<1> DEFINE st == [p \in Rings \X LoggedArtifacts |-> AppendMemory(p[1], p[2])]
<1>1. st \in [Rings \X LoggedArtifacts -> Rings]
  BY RingKept
<1>2. PICK n \in Nat : n = Len(q) /\ DOMAIN q = 1..n /\ q \in [1..n -> LoggedArtifacts]
  BY LenProperties
<1> HIDE DEF st
<1>3. PICK g : Iterates(g, Rings, l, st, n, q)
  BY <1>1, <1>2, FoldIter
<1> DEFINE Unfolds(f) ==
             f = [s \in SUBSET (1..n) |->
                    IF s = {} THEN l ELSE AppendMemory(f[s \ {Top(s)}], q[Top(s)])]
<1>4. Unfolds(g) /\ g \in [SUBSET (1..n) -> Rings]
  <2>1. ASSUME NEW s \in SUBSET (1..n), s # {}
        PROVE  g[s] = AppendMemory(g[s \ {Top(s)}], q[Top(s)])
    <3>1. Top(s) \in 1..n
      BY <2>1, TopIn
    <3>2. g[s \ {Top(s)}] \in Rings /\ q[Top(s)] \in LoggedArtifacts
      BY <1>2, <1>3, <3>1 DEF Iterates
    <3>3. QED
      BY <1>3, <2>1, <3>2 DEF st, Iterates
  <2>2. QED
    BY <1>3, <2>1 DEF Iterates
<1> DEFINE f == CHOOSE f : Unfolds(f)
<1>5. Unfolds(f)
  BY <1>4, Zenon
<1>6. FoldLeft(AppendMemory, l, q) = f[1..n]
  BY <1>2, Zenon DEF FoldLeft, MapThenFoldSet, Top, Max
<1> HIDE DEF f
<1> DEFINE P == {i \in 0..n : f[1..i] \in Rings}
<1>7. 0 \in P
  <2>1. 1..0 = {}
    OBVIOUS
  <2>2. QED
    BY <1>2, <1>5, <2>1
<1>8. ASSUME NEW i \in 0..(n - 1), i \in P PROVE i + 1 \in P
  <2> DEFINE k == i + 1
  <2>1. k \in 1..n /\ k \in Nat \ {0} /\ k - 1 = i /\ k \in 0..n /\ q[k] \in LoggedArtifacts
    BY <1>2
  <2> HIDE DEF k
  <2>2. Top(1..k) = k /\ 1..k # {} /\ (1..k) \ {k} = 1..i /\ 1..k \in SUBSET (1..n)
    BY <2>1, TopOfInterval, SMTT(30)
  <2>3. f[1..k] = AppendMemory(f[1..i], q[k])
    BY <1>5, <2>2
  <2>4. f[1..k] \in Rings
    BY <1>8, <2>1, <2>3, RingKept
  <2>5. QED
    BY <2>1, <2>4 DEF k
<1> HIDE DEF P
<1>9. 0..n \subseteq P
  BY <1>2, <1>7, <1>8, BoundedInduction
<1>10. QED
  BY <1>2, <1>6, <1>9 DEF P

-----------------------------------------------------------------------------
\* The types of the log's state; the ring is empty behind a pool, and the pool
\* idle behind a ring.
LogTyped ==
  /\ pooled \in BOOLEAN /\ busy \subseteq LoggedArtifacts
  /\ emitted \in Seq(LoggedArtifacts) /\ waiting \in Seq(LoggedArtifacts)
  /\ tick \in [begun : 0 .. TickCount, thinking : BOOLEAN]
  /\ order \in [1..OrderCount -> {"none", "queued", "judged"}] /\ config \in Configs
  /\ pooled => log.rows \in Seq(LoggedArtifacts) /\ log = [rows |-> log.rows, index |-> <<>>]
               /\ OncePerKey(log.rows)
  /\ ~pooled => log \in Rings /\ waiting = <<>> /\ busy = {}

\* What a run emits in one step.
Emittable == [kind : Kinds, id : Nat]
NewArtifacts(shown, m) ==
  [i \in DOMAIN shown |-> [kind |-> shown[i].kind, id |-> shown[i].id, n |-> m + i]]

LEMMA NewTyped ==
  ASSUME NEW shown \in Seq(Emittable), NEW m \in Nat
  PROVE  /\ NewArtifacts(shown, m) \in Seq(LoggedArtifacts)
         /\ Len(NewArtifacts(shown, m)) = Len(shown)
         /\ \A i \in 1..Len(shown) :
              NewArtifacts(shown, m)[i] = [kind |-> shown[i].kind, id |-> shown[i].id, n |-> m + i]
<1>1. PICK n \in Nat : n = Len(shown) /\ DOMAIN shown = 1..n /\ shown \in [1..n -> Emittable]
  BY LenProperties
<1>2. NewArtifacts(shown, m) \in [1..n -> LoggedArtifacts]
  <2>1. ASSUME NEW i \in 1..n
        PROVE  [kind |-> shown[i].kind, id |-> shown[i].id, n |-> m + i] \in LoggedArtifacts
    <3>1. shown[i] \in Emittable /\ m + i \in Nat
      BY <1>1
    <3>2. QED
      BY <3>1 DEF Emittable, LoggedArtifacts
  <2>2. QED
    BY <1>1, <2>1 DEF NewArtifacts
<1>3. QED
  BY <1>1, <1>2, SeqOfFcn DEF NewArtifacts

LEMMA AddKeepsTypes ==
  ASSUME LogTyped, NEW shown \in Seq(Emittable), AddArtifacts(shown)
  PROVE  /\ emitted' \in Seq(LoggedArtifacts) /\ waiting' \in Seq(LoggedArtifacts)
         /\ pooled => log' = log
         /\ ~pooled => log' \in Rings /\ waiting' = <<>>
<1> DEFINE new == NewArtifacts(shown, Len(emitted))
<1>1. new \in Seq(LoggedArtifacts)
  BY NewTyped DEF LogTyped
<1>2. /\ emitted' = emitted \o new
      /\ pooled => waiting' = waiting \o new /\ log' = log
      /\ ~pooled => log' = FoldLeft(AppendMemory, log, new) /\ waiting' = waiting
  BY DEF AddArtifacts, NewArtifacts
<1> HIDE DEF new
<1>3. emitted' \in Seq(LoggedArtifacts)
  BY <1>1, <1>2 DEF LogTyped
<1>4. waiting' \in Seq(LoggedArtifacts)
  <2>1. CASE pooled
    <3>1. waiting \in Seq(LoggedArtifacts) /\ waiting' = waiting \o new
      BY <1>2, <2>1 DEF LogTyped
    <3>2. QED
      BY <1>1, <3>1
  <2>2. CASE ~pooled
    BY <1>2, <2>2 DEF LogTyped
  <2>3. QED
    BY <2>1, <2>2
<1>5. ~pooled => log' \in Rings
  BY <1>1, <1>2, RingKeptByAll DEF LogTyped
<1>6. QED
  BY <1>2, <1>3, <1>4, <1>5 DEF LogTyped

LEMMA RunsShow ==
  ASSUME LogTyped,
         TickStarts \/ TickEnds \/ \E o \in 1..OrderCount : OrderQueued(o) \/ OrderJudged(o)
  PROVE  /\ \E shown \in Seq(Emittable) : AddArtifacts(shown)
         /\ UNCHANGED <<pooled, busy, disturbed, config>>
         /\ tick' \in [begun : 0 .. TickCount, thinking : BOOLEAN]
         /\ order' \in [1..OrderCount -> {"none", "queued", "judged"}]
<1> USE LogAssumption
<1>1. /\ tick \in [begun : 0 .. TickCount, thinking : BOOLEAN]
      /\ order \in [1..OrderCount -> {"none", "queued", "judged"}]
  BY DEF LogTyped
<1>2. ASSUME NEW kind \in Kinds, NEW id \in Nat PROVE Artifact(kind, id) \in Emittable
  BY DEF Artifact, Emittable
<1>3. \A a, b \in Emittable : <<>> \in Seq(Emittable) /\ <<a>> \in Seq(Emittable) /\ <<a, b>> \in Seq(Emittable)
  OBVIOUS
<1>4. CASE TickStarts
  <2>1. AddArtifacts(<<Artifact("heartbeat-tick", 0)>>)
    BY <1>4 DEF TickStarts
  <2>2. Artifact("heartbeat-tick", 0) \in Emittable
    BY <1>2 DEF Kinds
  <2>3. tick' \in [begun : 0 .. TickCount, thinking : BOOLEAN]
    BY <1>1, <1>4 DEF TickStarts
  <2>4. UNCHANGED <<pooled, busy, disturbed, order, config>>
    BY <1>4 DEF TickStarts
  <2>5. QED
    BY <1>1, <1>3, <2>1, <2>2, <2>3, <2>4
<1>5. CASE TickEnds
  <2> DEFINE decision == Artifact("heartbeat-decision", 0)
             tweet    == Artifact("tweet-url", IF config.keyed THEN tick.begun ELSE 0)
  <2>1. decision \in Emittable /\ tweet \in Emittable
    <3>1. (IF config.keyed THEN tick.begun ELSE 0) \in Nat
      BY <1>1
    <3>2. QED
      BY <1>2, <3>1 DEF Kinds
  <2>2. \E shown \in {<<>>, <<decision>>, <<decision, tweet>>} : AddArtifacts(shown)
    BY <1>5 DEF TickEnds, ParseTickDecision
  <2> HIDE DEF decision, tweet
  <2>3. \E shown \in Seq(Emittable) : AddArtifacts(shown)
    BY <1>3, <2>1, <2>2
  <2>4. tick' \in [begun : 0 .. TickCount, thinking : BOOLEAN]
    BY <1>1, <1>5 DEF TickEnds
  <2>5. UNCHANGED <<pooled, busy, disturbed, order, config>>
    BY <1>5 DEF TickEnds
  <2>6. QED
    BY <1>1, <2>3, <2>4, <2>5
<1>6. ASSUME NEW o \in 1..OrderCount, OrderQueued(o) \/ OrderJudged(o)
      PROVE  /\ \E shown \in Seq(Emittable) : AddArtifacts(shown)
             /\ UNCHANGED <<pooled, busy, disturbed, tick, config>>
             /\ order' \in [1..OrderCount -> {"none", "queued", "judged"}]
  <2> DEFINE payment == Artifact("x402-tx", IF config.wallet THEN o ELSE 0)
             tweet   == Artifact("shill-tweet", o)
             state   == Artifact("shill-order", o)
  <2>1. payment \in Emittable /\ tweet \in Emittable /\ state \in Emittable
    <3>1. o \in Nat /\ (IF config.wallet THEN o ELSE 0) \in Nat
      OBVIOUS
    <3>2. QED
      BY <1>2, <3>1 DEF Kinds
  <2>2. AddArtifacts(<<payment, state>>) \/ AddArtifacts(<<tweet, state>>) \/ AddArtifacts(<<state>>)
    BY <1>6 DEF OrderQueued, OrderJudged
  <2> HIDE DEF payment, tweet, state
  <2>3. \E shown \in Seq(Emittable) : AddArtifacts(shown)
    BY <1>3, <2>1, <2>2
  <2>4. UNCHANGED <<pooled, busy, disturbed, tick, config>>
    BY <1>6 DEF OrderQueued, OrderJudged
  <2>5. order' \in [1..OrderCount -> {"none", "queued", "judged"}]
    BY <1>1, <1>6 DEF OrderQueued, OrderJudged
  <2>6. QED
    BY <2>3, <2>4, <2>5
<1>7. QED
  BY <1>1, <1>4, <1>5, <1>6

LEMMA AppendPgTyped ==
  ASSUME NEW r \in Seq(LoggedArtifacts), OncePerKey(r), NEW x, NEW a \in LoggedArtifacts
  PROVE  LET l == AppendPg([rows |-> r, index |-> x], a)
         IN  l = [rows |-> l.rows, index |-> x] /\ l.rows \in Seq(LoggedArtifacts)
             /\ OncePerKey(l.rows)
<1> DEFINE l == [rows |-> r, index |-> x]  m == AppendPg(l, a)
           same == PositionsOf(r, NaturalKey(a))
           t == [i \in DOMAIN r |-> IF i \in same THEN a ELSE r[i]]
<1>1. PICK n \in Nat : n = Len(r) /\ DOMAIN r = 1..n /\ r \in [1..n -> LoggedArtifacts]
  BY LenProperties
<1>2. t \in [1..n -> LoggedArtifacts]
  BY <1>1
<1>3. t \in Seq(LoggedArtifacts) /\ Len(t) = n
      /\ \A i \in 1..n : NaturalKey(t[i]) = NaturalKey(r[i])
  BY <1>1, <1>2, SeqOfFcn DEF PositionsOf
<1>4. \/ m = l
      \/ /\ m = [l EXCEPT !.rows = Append(r, a)]
         /\ NaturalKey(a) = NoKey \/ \A i \in 1..n : NaturalKey(r[i]) # NaturalKey(a)
      \/ m = [l EXCEPT !.rows = t]
  <2>1. same = {i \in 1..n : NaturalKey(r[i]) = NaturalKey(a)}
    BY <1>1 DEF PositionsOf
  <2>2. same = {} => \A i \in 1..n : NaturalKey(r[i]) # NaturalKey(a)
    BY <2>1
  <2> HIDE DEF same
  <2>3. l.rows = r
    OBVIOUS
  <2>4. QED
    BY <2>2, <2>3 DEF AppendPg, same
<1> HIDE DEF t, m
<1>5. CASE m = l
  <2>1. m = [rows |-> r, index |-> x]
    BY <1>5
  <2>2. QED
    BY <2>1 DEF m
<1>6. CASE /\ m = [l EXCEPT !.rows = Append(r, a)]
           /\ NaturalKey(a) = NoKey \/ \A i \in 1..n : NaturalKey(r[i]) # NaturalKey(a)
  <2> DEFINE s == Append(r, a)
  <2>1. m = [rows |-> s, index |-> x]
    BY <1>6
  <2>2. /\ s \in Seq(LoggedArtifacts) /\ Len(s) = n + 1 /\ s[n + 1] = a
        /\ \A i \in 1..n : s[i] = r[i]
    BY <1>1
  <2> HIDE DEF s
  <2>3. OncePerKey(s)
    BY <1>1, <1>6, <2>2 DEF OncePerKey
  <2>4. QED
    BY <2>1, <2>2, <2>3 DEF m
<1>7. CASE m = [l EXCEPT !.rows = t]
  <2>1. m = [rows |-> t, index |-> x]
    BY <1>7
  <2>2. OncePerKey(t)
    BY <1>1, <1>3 DEF OncePerKey
  <2>3. QED
    BY <1>3, <2>1, <2>2 DEF m
<1>8. QED
  BY <1>4, <1>5, <1>6, <1>7 DEF m

LEMMA LogTypeInit == LogInit => LogTyped
<1> SUFFICES ASSUME LogInit PROVE LogTyped
  OBVIOUS
<1>1. IndexRows(<<>>) = <<>>
  <2>1. IndexRows(<<>>) = [key \in {} |-> key] /\ <<>> = [key \in {} |-> key]
    BY DEF IndexRows
  <2>2. QED
    BY <2>1
<1>2. log \in Rings
  <2>1. <<>> \in RingRows
    BY LogAssumption DEF RingRows, OncePerKey
  <2>2. log = Ring(<<>>)
    BY <1>1 DEF LogInit, Ring
  <2>3. QED
    BY <2>1, <2>2 DEF Rings
<1>3. log.rows = <<>> /\ OncePerKey(log.rows)
  BY DEF LogInit, OncePerKey
<1>4. QED
  BY <1>2, <1>3, LogAssumption DEF LogInit, LogTyped

LEMMA LogTypeStep == LogTyped /\ LogNext => LogTyped'
<1> SUFFICES ASSUME LogTyped, LogNext PROVE LogTyped'
  OBVIOUS
<1> USE LogAssumption
<1>1. CASE TickStarts \/ TickEnds \/ \E o \in 1..OrderCount : OrderQueued(o) \/ OrderJudged(o)
  <2>1. /\ UNCHANGED <<pooled, busy, disturbed, config>>
        /\ tick' \in [begun : 0 .. TickCount, thinking : BOOLEAN]
        /\ order' \in [1..OrderCount -> {"none", "queued", "judged"}]
    BY <1>1, RunsShow
  <2>2. PICK shown \in Seq(Emittable) : AddArtifacts(shown)
    BY <1>1, RunsShow
  <2>3. /\ emitted' \in Seq(LoggedArtifacts) /\ waiting' \in Seq(LoggedArtifacts)
        /\ pooled => log' = log
        /\ ~pooled => log' \in Rings /\ waiting' = <<>>
    BY <2>2, AddKeepsTypes
  <2>4. QED
    BY <2>1, <2>3 DEF LogTyped
<1>2. ASSUME GetsConnection PROVE LogTyped'
  BY <1>2 DEF GetsConnection, LogTyped
<1>3. ASSUME NEW a \in busy, Appended(a) PROVE LogTyped'
  <2>1. pooled /\ a \in LoggedArtifacts
    BY DEF LogTyped
  <2>2. log = [rows |-> log.rows, index |-> <<>>] /\ log.rows \in Seq(LoggedArtifacts)
        /\ OncePerKey(log.rows)
    BY <2>1 DEF LogTyped
  <2>3. log' = AppendPg([rows |-> log.rows, index |-> <<>>], a)
    BY <1>3, <2>2 DEF Appended
  <2>4. log'.rows \in Seq(LoggedArtifacts) /\ log' = [rows |-> log'.rows, index |-> <<>>]
        /\ OncePerKey(log'.rows)
    BY <2>1, <2>2, <2>3, AppendPgTyped
  <2>5. QED
    BY <1>3, <2>1, <2>4 DEF Appended, LogTyped
<1>4. ASSUME NEW a \in busy, AppendFails(a) PROVE LogTyped'
  BY <1>4 DEF AppendFails, LogTyped
<1>5. QED
  BY <1>1, <1>2, <1>3, <1>4 DEF LogNext

LEMMA LogTypeInv == LogSpec => []LogTyped
<1>1. LogTyped /\ UNCHANGED logVars => LogTyped'
  BY DEF LogTyped, logVars
<1>2. QED
  BY <1>1, LogTypeInit, LogTypeStep, PTL DEF LogSpec

\* The ring: each key it holds has one row, and the index points at it; so an update
\* goes to the row of its order and an eviction drops no other row (appendMemory,
\* artifact-log-store.ts), for any size of the ring.
THEOREM RingStaysIndexed == LogSpec => []RingIndexed
<1>1. LogTyped => RingIndexed
  <2> SUFFICES ASSUME LogTyped, ~pooled
               PROVE  /\ log.index = IndexRows(log.rows)
                      /\ \A key \in DOMAIN log.index : Cardinality(PositionsOf(log.rows, key)) = 1
    BY DEF RingIndexed
  <2>1. PICK r \in RingRows : log = Ring(r)
    BY DEF LogTyped, Rings
  <2>2. log.rows = r /\ log.index = IndexRows(r) /\ r \in Seq(LoggedArtifacts) /\ OncePerKey(r)
    BY <2>1 DEF Ring, RingRows
  <2>3. ASSUME NEW key \in DOMAIN log.index PROVE Cardinality(PositionsOf(log.rows, key)) = 1
    <3>1. key \in KeysOfRows(r)
      BY <2>2, <2>3, IndexOf
    <3>2. PICK i \in 1..Len(r) : key = NaturalKey(r[i]) /\ key # NoKey
      BY <3>1 DEF KeysOfRows
    <3>3. PositionsOf(r, key) = {i}
      BY <2>2, <3>2, IndexOf
    <3>4. QED
      BY <2>2, <3>3, FS_Singleton
  <2>4. QED
    BY <2>2, <2>3
<1>2. QED
  BY <1>1, LogTypeInv, PTL

-----------------------------------------------------------------------------
\* The pool.  An artifact is logged when a row of its key holds it or a later
\* version.
Logged(a, r) ==
  \E j \in 1..Len(r) :
    /\ NaturalKey(r[j]) = NaturalKey(a)
    /\ ConflictStrategy(a) = "do-update" => r[j].n >= a.n
    /\ ConflictStrategy(a) = "no-key" => r[j] = a

\* What waits was emitted after all that is on a connection or in the table, ...
PoolOrdered ==
  LET m == Len(emitted)  k == Len(waiting)  r == log.rows IN
  /\ \A i \in 1..m : emitted[i].n = i
  /\ \A i \in 1..k : waiting[i].n <= m
  /\ \A i, j \in 1..k : i < j => waiting[i].n < waiting[j].n
  /\ \A b \in busy : b.n <= m /\ \A i \in 1..k : b.n < waiting[i].n
  /\ \A j \in 1..Len(r) : r[j].n <= m /\ \A i \in 1..k : r[j].n < waiting[i].n

\* ... of an undisturbed key at most one append is on a connection, later than the
\* key's row, ...
PoolByKey ==
  /\ \A b, c \in busy :
       NaturalKey(b) = NaturalKey(c) /\ NaturalKey(b) \notin disturbed \union {NoKey} => b = c
  /\ \A b \in busy : \A j \in 1..Len(log.rows) :
       NaturalKey(b) = NaturalKey(log.rows[j]) /\ NaturalKey(b) \notin disturbed \union {NoKey} =>
         log.rows[j].n < b.n

\* ... and nothing emitted is lost.
PoolKeeps ==
  \A i \in 1..Len(emitted) : NaturalKey(emitted[i]) \notin disturbed =>
    \/ emitted[i] \in busy
    \/ \E k \in 1..Len(waiting) : waiting[k] = emitted[i]
    \/ Logged(emitted[i], log.rows)

PoolInv == LogTyped /\ (pooled => PoolOrdered /\ PoolByKey /\ PoolKeeps)

\* The three ways of an insert.
LEMMA AppendPgIs ==
  ASSUME NEW r \in Seq(LoggedArtifacts), NEW a \in LoggedArtifacts
  PROVE  LET s == AppendPg([rows |-> r, index |-> <<>>], a).rows IN
         \/ /\ s = Append(r, a)
            /\ ConflictStrategy(a) = "no-key" \/ \A j \in 1..Len(r) : NaturalKey(r[j]) # NaturalKey(a)
         \/ /\ ConflictStrategy(a) = "do-update" /\ Len(s) = Len(r)
            /\ \E j \in 1..Len(r) : NaturalKey(r[j]) = NaturalKey(a)
            /\ \A j \in 1..Len(r) :
                 s[j] = IF NaturalKey(r[j]) = NaturalKey(a) THEN a ELSE r[j]
         \/ /\ ConflictStrategy(a) = "do-nothing" /\ s = r
            /\ \E j \in 1..Len(r) : NaturalKey(r[j]) = NaturalKey(a)
<1> DEFINE l == [rows |-> r, index |-> <<>>]  s == AppendPg(l, a).rows
           same == PositionsOf(r, NaturalKey(a))
           t == [i \in DOMAIN r |-> IF i \in same THEN a ELSE r[i]]
<1>1. PICK n \in Nat : n = Len(r) /\ DOMAIN r = 1..n /\ r \in [1..n -> LoggedArtifacts]
  BY LenProperties
<1>2. Len(t) = n /\ \A j \in 1..n : t[j] = IF NaturalKey(r[j]) = NaturalKey(a) THEN a ELSE r[j]
  <2>1. t \in [1..n -> LoggedArtifacts]
    BY <1>1
  <2>2. QED
    BY <1>1, <2>1, SeqOfFcn DEF PositionsOf
<1>3. same = {j \in 1..n : NaturalKey(r[j]) = NaturalKey(a)}
  BY <1>1 DEF PositionsOf
<1>4. /\ ConflictStrategy(a) \in {"no-key", "do-update", "do-nothing"}
      /\ ConflictStrategy(a) = "no-key" <=> NaturalKey(a) = NoKey
  BY KeysOf
<1>5. /\ NaturalKey(a) = NoKey \/ same = {} => s = Append(r, a)
      /\ ~(NaturalKey(a) = NoKey \/ same = {}) /\ ConflictStrategy(a) = "do-update" => s = t
      /\ ~(NaturalKey(a) = NoKey \/ same = {}) /\ ConflictStrategy(a) # "do-update" => s = r
  BY DEF AppendPg
<1> HIDE DEF s, t, same
<1>6. CASE NaturalKey(a) = NoKey \/ same = {}
  BY <1>1, <1>3, <1>4, <1>5, <1>6 DEF s
<1>7. CASE ~(NaturalKey(a) = NoKey \/ same = {}) /\ ConflictStrategy(a) = "do-update"
  <2>1. s = t /\ \E j \in 1..n : NaturalKey(r[j]) = NaturalKey(a)
    BY <1>3, <1>5, <1>7
  <2>2. QED
    BY <1>1, <1>2, <1>7, <2>1 DEF s
<1>8. CASE ~(NaturalKey(a) = NoKey \/ same = {}) /\ ConflictStrategy(a) # "do-update"
  <2>1. s = r /\ \E j \in 1..n : NaturalKey(r[j]) = NaturalKey(a)
    BY <1>3, <1>5, <1>8
  <2>2. QED
    BY <1>1, <1>4, <1>8, <2>1 DEF s
<1>9. QED
  BY <1>6, <1>7, <1>8

\* An insert later than its key's rows logs its artifact and what was logged.
LEMMA AppendPgLogs ==
  ASSUME NEW r \in Seq(LoggedArtifacts), NEW a \in LoggedArtifacts, NEW s \in Seq(LoggedArtifacts),
         s = AppendPg([rows |-> r, index |-> <<>>], a).rows
  PROVE  /\ Logged(a, s)
         /\ \A j \in 1..Len(s) : s[j] = a \/ (j \in 1..Len(r) /\ s[j] = r[j])
         /\ \A e \in LoggedArtifacts :
              /\ Logged(e, r)
              /\ NaturalKey(a) = NoKey \/ \A j \in 1..Len(r) :
                   NaturalKey(r[j]) = NaturalKey(a) /\ NaturalKey(a) = NaturalKey(e) => r[j].n < a.n
              => Logged(e, s)
<1> DEFINE Old == \E j \in 1..Len(r) : NaturalKey(r[j]) = NaturalKey(a)
<1>1. /\ Len(r) \in Nat /\ \A j \in 1..Len(r) : r[j] \in LoggedArtifacts /\ r[j].n \in Nat
      /\ a.n \in Nat
  BY KeysOf
<1>2. \/ s = Append(r, a)
      \/ /\ ConflictStrategy(a) = "do-update" /\ Len(s) = Len(r) /\ Old
         /\ \A j \in 1..Len(r) : s[j] = IF NaturalKey(r[j]) = NaturalKey(a) THEN a ELSE r[j]
      \/ ConflictStrategy(a) = "do-nothing" /\ s = r /\ Old
  BY AppendPgIs
<1>3. CASE s = Append(r, a)
  <2>1. /\ Len(s) = Len(r) + 1 /\ s[Len(r) + 1] = a /\ Len(r) + 1 \in 1..Len(s)
        /\ \A j \in 1..Len(r) : j \in 1..Len(s) /\ s[j] = r[j]
        /\ \A j \in 1..Len(s) : j = Len(r) + 1 \/ j \in 1..Len(r)
    BY <1>1, <1>3, SMTT(30)
  <2> HIDE <1>3
  <2>2. Logged(a, s)
    BY <1>1, <2>1 DEF Logged
  <2>3. ASSUME NEW e \in LoggedArtifacts, Logged(e, r) PROVE Logged(e, s)
    BY <2>1, <2>3 DEF Logged
  <2>4. QED
    BY <2>1, <2>2, <2>3
<1>4. CASE /\ ConflictStrategy(a) = "do-update" /\ Len(s) = Len(r) /\ Old
           /\ \A j \in 1..Len(r) : s[j] = IF NaturalKey(r[j]) = NaturalKey(a) THEN a ELSE r[j]
  <2>1. Logged(a, s)
    <3>1. PICK j \in 1..Len(r) : NaturalKey(r[j]) = NaturalKey(a)
      BY <1>4
    <3>2. j \in 1..Len(s) /\ s[j] = a
      BY <1>4, <3>1
    <3>3. QED
      BY <1>1, <1>4, <3>2 DEF Logged
  <2>2. ASSUME NEW e \in LoggedArtifacts, Logged(e, r),
               NaturalKey(a) = NoKey \/ \A j \in 1..Len(r) :
                 NaturalKey(r[j]) = NaturalKey(a) /\ NaturalKey(a) = NaturalKey(e) => r[j].n < a.n
        PROVE  Logged(e, s)
    <3>1. PICK j \in 1..Len(r) :
            /\ NaturalKey(r[j]) = NaturalKey(e)
            /\ ConflictStrategy(e) = "do-update" => r[j].n >= e.n
            /\ ConflictStrategy(e) = "no-key" => r[j] = e
      BY <2>2 DEF Logged
    <3>2. CASE NaturalKey(r[j]) = NaturalKey(a)
      <4>1. s[j] = a /\ r[j].n < a.n /\ NaturalKey(a) = NaturalKey(e) /\ j \in 1..Len(s)
        <5>1. NaturalKey(a) # NoKey
          BY <1>4, KeysOf
        <5>2. QED
          BY <1>4, <2>2, <3>1, <3>2, <5>1
      <4>2. ConflictStrategy(e) = "do-update" /\ e.n \in Nat
        BY <1>4, <4>1, KeysOf
      <4>3. a.n >= e.n
        BY <1>1, <3>1, <4>1, <4>2
      <4>4. QED
        BY <4>1, <4>2, <4>3 DEF Logged
    <3>3. CASE NaturalKey(r[j]) # NaturalKey(a)
      <4>1. s[j] = r[j] /\ j \in 1..Len(s)
        BY <1>4, <3>3
      <4>2. QED
        BY <3>1, <4>1 DEF Logged
    <3>4. QED
      BY <3>2, <3>3
  <2>3. QED
    BY <1>4, <2>1, <2>2
<1>5. CASE ConflictStrategy(a) = "do-nothing" /\ s = r /\ Old
  BY <1>5 DEF Logged
<1>6. QED
  BY <1>2, <1>3, <1>4, <1>5

LEMMA PoolInit == LogInit => PoolInv
<1> SUFFICES ASSUME LogInit PROVE PoolInv
  OBVIOUS
<1>1. LogTyped
  BY LogTypeInit
<1>2. /\ emitted = <<>> /\ waiting = <<>> /\ busy = {} /\ log.rows = <<>>
      /\ 1..Len(emitted) = {} /\ 1..Len(waiting) = {} /\ 1..Len(log.rows) = {}
  BY DEF LogInit
<1>3. PoolOrdered
  BY <1>2 DEF PoolOrdered
<1>4. PoolByKey /\ PoolKeeps
  BY <1>2 DEF PoolByKey, PoolKeeps
<1>5. QED
  BY <1>1, <1>3, <1>4 DEF PoolInv

LEMMA PoolAdds ==
  ASSUME PoolInv, pooled, NEW shown \in Seq(Emittable), AddArtifacts(shown), UNCHANGED <<busy, disturbed>>
  PROVE  PoolOrdered' /\ PoolByKey' /\ PoolKeeps'
<1> DEFINE new == NewArtifacts(shown, Len(emitted))
<1>1. /\ new \in Seq(LoggedArtifacts) /\ Len(new) \in Nat /\ Len(new) = Len(shown)
      /\ \A i \in 1..Len(new) : new[i].n = Len(emitted) + i
  <2>1. Len(emitted) \in Nat
    BY DEF PoolInv, LogTyped
  <2>2. /\ new \in Seq(LoggedArtifacts) /\ Len(new) = Len(shown)
        /\ \A i \in 1..Len(shown) : new[i] = [kind |-> shown[i].kind, id |-> shown[i].id, n |-> Len(emitted) + i]
    BY <2>1, NewTyped
  <2>3. Len(shown) \in Nat
    OBVIOUS
  <2> HIDE DEF new
  <2>4. \A i \in 1..Len(new) : new[i] = [kind |-> shown[i].kind, id |-> shown[i].id, n |-> Len(emitted) + i]
    BY <2>2
  <2>5. ASSUME NEW i \in 1..Len(new) PROVE new[i].n = Len(emitted) + i
    <3>1. new[i] = [kind |-> shown[i].kind, id |-> shown[i].id, n |-> Len(emitted) + i]
      BY <2>4
    <3>2. QED
      BY <3>1
  <2>6. QED
    BY <2>2, <2>3, <2>5
<1>2. emitted' = emitted \o new /\ waiting' = waiting \o new /\ log' = log
  BY DEF AddArtifacts, NewArtifacts
<1> HIDE DEF new
<1>3. /\ emitted \in Seq(LoggedArtifacts) /\ waiting \in Seq(LoggedArtifacts)
      /\ log.rows \in Seq(LoggedArtifacts) /\ busy \subseteq LoggedArtifacts
      /\ PoolOrdered /\ PoolByKey /\ PoolKeeps
  BY DEF PoolInv, LogTyped
<1> DEFINE m == Len(emitted)  k == Len(waiting)  d == Len(new)
<1>4. m \in Nat /\ k \in Nat /\ d \in Nat
  BY <1>1, <1>3
<1>5. /\ Len(emitted') = m + d
      /\ \A i \in 1..m : emitted'[i] = emitted[i]
      /\ \A i \in (m + 1)..(m + d) : emitted'[i] = new[i - m]
  BY <1>1, <1>2, <1>3, Joined
<1>6. /\ Len(waiting') = k + d
      /\ \A i \in 1..k : waiting'[i] = waiting[i]
      /\ \A i \in (k + 1)..(k + d) : waiting'[i] = new[i - k]
  BY <1>1, <1>2, <1>3, Joined
<1>7. \A i \in 1..d : new[i].n = m + i
  BY <1>1
<1>8. \A a \in LoggedArtifacts : a.n \in Nat
  BY KeysOf
<1> HIDE DEF m, k, d
<1>9. \A i \in 1..(k + d) : \/ i \in 1..k /\ waiting'[i] = waiting[i]
                            \/ i \in (k + 1)..(k + d) /\ waiting'[i].n = m + (i - k)
  <2> SUFFICES ASSUME NEW i \in 1..(k + d)
               PROVE  \/ i \in 1..k /\ waiting'[i] = waiting[i]
                      \/ i \in (k + 1)..(k + d) /\ waiting'[i].n = m + (i - k)
    OBVIOUS
  <2>1. CASE i \in 1..k
    BY <1>6, <2>1
  <2>2. CASE i \in (k + 1)..(k + d)
    <3>1. i - k \in 1..d
      BY <1>4, <2>2
    <3>2. QED
      BY <1>6, <1>7, <2>2, <3>1
  <2>3. QED
    BY <1>4, <2>1, <2>2
<1>10. PoolOrdered'
  <2>1. ASSUME NEW i \in 1..(m + d) PROVE emitted'[i].n = i
    <3>1. CASE i \in 1..m
      BY <1>3, <1>5, <3>1 DEF PoolOrdered, m
    <3>2. CASE i \in (m + 1)..(m + d)
      <4>1. i - m \in 1..d /\ m + (i - m) = i
        BY <1>4, <3>2
      <4>2. QED
        BY <1>5, <1>7, <3>2, <4>1
    <3>3. QED
      BY <1>4, <3>1, <3>2
  <2>2. \A i \in 1..k : waiting[i].n <= m /\ waiting[i].n \in Nat
    BY <1>3, <1>8 DEF PoolOrdered, m, k
  <2>3. ASSUME NEW i \in 1..(k + d) PROVE waiting'[i].n <= m + d
    BY <1>4, <1>9, <2>2, SMTT(30)
  <2>4. ASSUME NEW i \in 1..(k + d), NEW j \in 1..(k + d), i < j
        PROVE  waiting'[i].n < waiting'[j].n
    <3>1. CASE j \in 1..k /\ waiting'[j] = waiting[j]
      <4>1. i \in 1..k /\ waiting'[i] = waiting[i]
        BY <1>4, <1>9, <2>4, <3>1
      <4>2. QED
        BY <1>3, <2>4, <3>1, <4>1 DEF PoolOrdered, k
    <3>2. CASE j \in (k + 1)..(k + d) /\ waiting'[j].n = m + (j - k)
      <4>1. CASE i \in 1..k /\ waiting'[i] = waiting[i]
        BY <1>4, <2>2, <3>2, <4>1
      <4>2. CASE i \in (k + 1)..(k + d) /\ waiting'[i].n = m + (i - k)
        BY <1>4, <2>4, <3>2, <4>2
      <4>3. QED
        BY <1>9, <4>1, <4>2
    <3>3. QED
      BY <1>9, <3>1, <3>2
  <2>5. ASSUME NEW v \in Nat, v <= m, \A i \in 1..k : v < waiting[i].n
        PROVE  v <= m + d /\ \A i \in 1..(k + d) : v < waiting'[i].n
    BY <1>4, <1>9, <2>5
  <2>6. ASSUME NEW b \in busy
        PROVE  b.n <= m + d /\ \A i \in 1..(k + d) : b.n < waiting'[i].n
    BY <1>3, <1>8, <2>5 DEF PoolOrdered, m, k
  <2>7. ASSUME NEW j \in 1..Len(log.rows)
        PROVE  log.rows[j].n <= m + d /\ \A i \in 1..(k + d) : log.rows[j].n < waiting'[i].n
    <3> DEFINE v == log.rows[j].n
    <3>1. log.rows[j] \in LoggedArtifacts
      BY <1>3
    <3>2. v \in Nat
      BY <1>8, <3>1
    <3>3. v <= m /\ \A i \in 1..k : v < waiting[i].n
      BY <1>3 DEF PoolOrdered, m, k
    <3> HIDE DEF v
    <3>4. v <= m + d /\ \A i \in 1..(k + d) : v < waiting'[i].n
      BY <2>5, <3>2, <3>3
    <3>5. QED
      BY <3>4 DEF v
  <2>8. QED
    BY <1>2, <1>5, <1>6, <2>1, <2>3, <2>4, <2>6, <2>7 DEF PoolOrdered
<1>11. PoolByKey'
  BY <1>2, <1>3 DEF PoolByKey
<1>12. PoolKeeps'
  <2> SUFFICES ASSUME NEW i \in 1..(m + d), NaturalKey(emitted'[i]) \notin disturbed
               PROVE  \/ emitted'[i] \in busy
                      \/ \E j \in 1..(k + d) : waiting'[j] = emitted'[i]
                      \/ Logged(emitted'[i], log.rows)
    BY <1>2, <1>5, <1>6 DEF PoolKeeps
  <2>1. CASE i \in 1..m
    <3>1. emitted'[i] = emitted[i]
      BY <1>5, <2>1
    <3>2. \A j \in 1..k : j \in 1..(k + d) /\ waiting'[j] = waiting[j]
      BY <1>4, <1>6
    <3>3. QED
      BY <1>3, <2>1, <3>1, <3>2 DEF PoolKeeps, m, k
  <2>2. CASE i \in (m + 1)..(m + d)
    <3> DEFINE j == k + (i - m)
    <3>1. j \in 1..(k + d) /\ j \in (k + 1)..(k + d) /\ j - k = i - m
      BY <1>4, <2>2
    <3> HIDE DEF j
    <3>2. waiting'[j] = emitted'[i]
      BY <1>5, <1>6, <2>2, <3>1
    <3>3. QED
      BY <3>1, <3>2
  <2>3. QED
    BY <1>4, <2>1, <2>2
<1>13. QED
  BY <1>10, <1>11, <1>12

LEMMA PoolConnects ==
  ASSUME PoolInv, pooled, GetsConnection
  PROVE  PoolOrdered' /\ PoolByKey' /\ PoolKeeps'
<1> DEFINE h == Head(waiting)  k == Len(waiting)
<1>1. /\ emitted \in Seq(LoggedArtifacts) /\ waiting \in Seq(LoggedArtifacts)
      /\ log.rows \in Seq(LoggedArtifacts) /\ busy \subseteq LoggedArtifacts
      /\ PoolOrdered /\ PoolByKey /\ PoolKeeps
  BY DEF PoolInv, LogTyped
<1>2. /\ waiting # <<>> /\ waiting' = Tail(waiting) /\ busy' = busy \union {h}
      /\ disturbed' = disturbed \union
           (({NaturalKey(a) : a \in busy} \intersect {NaturalKey(h)}) \ {NoKey})
      /\ UNCHANGED <<emitted, log>>
  BY DEF GetsConnection
<1>3. /\ k \in Nat \ {0} /\ h = waiting[1] /\ h \in LoggedArtifacts /\ 1 \in 1..k
      /\ Len(waiting') = k - 1
      /\ \A i \in 1..(k - 1) : waiting'[i] = waiting[i + 1] /\ i + 1 \in 1..k /\ 1 < i + 1
      /\ \A i \in 1..k : i = 1 \/ (i - 1 \in 1..(k - 1) /\ waiting'[i - 1] = waiting[i])
  BY <1>1, <1>2
<1> HIDE DEF h, k
<1>4. PoolOrdered'
  <2>1. h.n <= Len(emitted) /\ \A i \in 1..(k - 1) : h.n < waiting'[i].n
    BY <1>1, <1>3 DEF PoolOrdered, k
  <2>2. \A i, j \in 1..(k - 1) : i < j => waiting'[i].n < waiting'[j].n
    <3>1. \A i, j \in 1..(k - 1) : i < j => i + 1 < j + 1
      BY <1>3
    <3>2. QED
      BY <1>1, <1>3, <3>1 DEF PoolOrdered, k
  <2>3. QED
    BY <1>1, <1>2, <1>3, <2>1, <2>2 DEF PoolOrdered, k
<1>5. PoolByKey'
  <2>1. \A j \in 1..Len(log.rows) : log.rows[j].n < h.n
    BY <1>1, <1>3 DEF PoolOrdered, k
  <2>2. \A b \in busy : NaturalKey(b) = NaturalKey(h) /\ NaturalKey(b) # NoKey => NaturalKey(b) \in disturbed'
    BY <1>2
  <2>3. disturbed \subseteq disturbed'
    BY <1>2
  <2>4. QED
    BY <1>1, <1>2, <2>1, <2>2, <2>3 DEF PoolByKey
<1>6. PoolKeeps'
  <2> SUFFICES ASSUME NEW i \in 1..Len(emitted), NaturalKey(emitted[i]) \notin disturbed
               PROVE  \/ emitted[i] \in busy'
                      \/ \E j \in 1..(k - 1) : waiting'[j] = emitted[i]
                      \/ Logged(emitted[i], log.rows)
    BY <1>2, <1>3 DEF PoolKeeps
  <2>1. CASE \E j \in 1..k : waiting[j] = emitted[i]
    BY <1>2, <1>3, <2>1
  <2>2. QED
    BY <1>1, <1>2, <2>1 DEF PoolKeeps, k
<1>7. QED
  BY <1>4, <1>5, <1>6

LEMMA PoolAppends ==
  ASSUME PoolInv, pooled, NEW a \in busy, Appended(a), LogTyped'
  PROVE  PoolOrdered' /\ PoolByKey' /\ PoolKeeps'
<1> DEFINE r == log.rows  s == log'.rows
<1>1. /\ r \in Seq(LoggedArtifacts) /\ s \in Seq(LoggedArtifacts) /\ busy \subseteq LoggedArtifacts
      /\ emitted \in Seq(LoggedArtifacts) /\ log = [rows |-> r, index |-> <<>>]
      /\ PoolOrdered /\ PoolByKey /\ PoolKeeps /\ a \in LoggedArtifacts
  <2>1. pooled'
    BY DEF Appended
  <2>2. QED
    BY <2>1 DEF PoolInv, LogTyped
<1>2. busy' = busy \ {a} /\ UNCHANGED <<emitted, waiting, disturbed>>
      /\ s = AppendPg([rows |-> r, index |-> <<>>], a).rows
  BY <1>1 DEF Appended
<1> HIDE DEF r, s
<1>3. /\ Logged(a, s)
      /\ \A j \in 1..Len(s) : s[j] = a \/ (j \in 1..Len(r) /\ s[j] = r[j])
      /\ \A e \in LoggedArtifacts :
           /\ Logged(e, r)
           /\ NaturalKey(a) = NoKey \/ \A j \in 1..Len(r) :
                NaturalKey(r[j]) = NaturalKey(a) /\ NaturalKey(a) = NaturalKey(e) => r[j].n < a.n
           => Logged(e, s)
  BY <1>1, <1>2, AppendPgLogs
<1>4. PoolOrdered'
  BY <1>1, <1>2, <1>3 DEF PoolOrdered, r, s
<1>5. PoolByKey'
  BY <1>1, <1>2, <1>3 DEF PoolByKey, r, s
<1>6. PoolKeeps'
  <2> SUFFICES ASSUME NEW i \in 1..Len(emitted), NaturalKey(emitted[i]) \notin disturbed
               PROVE  \/ emitted[i] \in busy \ {a}
                      \/ \E j \in 1..Len(waiting) : waiting[j] = emitted[i]
                      \/ Logged(emitted[i], s)
    BY <1>2 DEF PoolKeeps, s
  <2>1. CASE Logged(emitted[i], r)
    <3>1. NaturalKey(a) = NoKey \/ \A j \in 1..Len(r) :
            NaturalKey(r[j]) = NaturalKey(a) /\ NaturalKey(a) = NaturalKey(emitted[i]) => r[j].n < a.n
      BY <1>1 DEF PoolByKey, r
    <3>2. QED
      BY <1>1, <1>3, <2>1, <3>1
  <2>2. QED
    BY <1>1, <1>3, <2>1 DEF PoolKeeps, r
<1>7. QED
  BY <1>4, <1>5, <1>6

LEMMA PoolFails ==
  ASSUME PoolInv, pooled, NEW a \in busy, AppendFails(a)
  PROVE  PoolOrdered' /\ PoolByKey' /\ PoolKeeps'
<1>1. PoolOrdered /\ PoolByKey /\ PoolKeeps
  BY DEF PoolInv
<1>2. /\ busy' = busy \ {a} /\ disturbed' = disturbed \union {NaturalKey(a)}
      /\ UNCHANGED <<emitted, waiting, log>>
  BY DEF AppendFails
<1>3. PoolOrdered'
  BY <1>1, <1>2 DEF PoolOrdered
<1>4. PoolByKey'
  BY <1>1, <1>2 DEF PoolByKey
<1>5. PoolKeeps'
  BY <1>1, <1>2 DEF PoolKeeps
<1>6. QED
  BY <1>3, <1>4, <1>5

LEMMA PoolStep == PoolInv /\ LogNext => PoolInv'
<1> SUFFICES ASSUME PoolInv, LogNext PROVE PoolInv'
  OBVIOUS
<1>1. LogTyped' /\ pooled' = pooled
  <2>1. pooled' = pooled
    BY DEF LogNext, TickStarts, TickEnds, OrderQueued, OrderJudged, GetsConnection, Appended, AppendFails
  <2>2. QED
    BY <2>1, LogTypeStep DEF PoolInv
<1> SUFFICES ASSUME pooled PROVE PoolOrdered' /\ PoolByKey' /\ PoolKeeps'
  BY <1>1 DEF PoolInv
<1>2. CASE TickStarts \/ TickEnds \/ \E o \in 1..OrderCount : OrderQueued(o) \/ OrderJudged(o)
  <2>1. UNCHANGED <<busy, disturbed>> /\ \E shown \in Seq(Emittable) : AddArtifacts(shown)
    BY <1>2, RunsShow DEF PoolInv
  <2>2. QED
    BY <2>1, PoolAdds
<1>3. CASE GetsConnection
  BY <1>3, PoolConnects
<1>4. CASE \E a \in busy : Appended(a) \/ AppendFails(a)
  BY <1>1, <1>4, PoolAppends, PoolFails
<1>5. QED
  BY <1>2, <1>3, <1>4 DEF LogNext

LEMMA PoolInvariant == LogSpec => []PoolInv
<1>1. PoolInv /\ UNCHANGED logVars => PoolInv'
  BY DEF PoolInv, LogTyped, PoolOrdered, PoolByKey, PoolKeeps, logVars
<1>2. QED
  BY <1>1, PoolInit, PoolStep, PTL DEF LogSpec

\* Appends that nobody waits for, over a pool whose statements end in any order: the
\* table never has two rows of a key, and when no append is left it holds every
\* artifact whose key was not disturbed, an order in its last version (addArtifact
\* and appendPg), for any number of connections and orders.
THEOREM LogSettlesOnTheLast == LogSpec => []LogSettles
<1>1. PoolInv => LogSettles
  <2> SUFFICES ASSUME PoolInv, pooled PROVE LogSettles
    BY DEF LogSettles
  <2>1. /\ DOMAIN emitted = 1..Len(emitted) /\ DOMAIN log.rows = 1..Len(log.rows)
        /\ PoolKeeps /\ OncePerKey(log.rows)
    BY DEF PoolInv, LogTyped
  <2>2. ASSUME NEW i \in DOMAIN log.rows, NEW j \in DOMAIN log.rows, i # j,
               NaturalKey(log.rows[i]) = NaturalKey(log.rows[j])
        PROVE  NaturalKey(log.rows[i]) = NoKey
    BY <2>1, <2>2 DEF OncePerKey
  <2>3. ASSUME waiting = <<>>, busy = {}, NEW i \in DOMAIN emitted,
               NaturalKey(emitted[i]) \notin disturbed
        PROVE  \E j \in DOMAIN log.rows :
                 /\ NaturalKey(log.rows[j]) = NaturalKey(emitted[i])
                 /\ ConflictStrategy(emitted[i]) = "do-update" => log.rows[j].n >= emitted[i].n
                 /\ ConflictStrategy(emitted[i]) = "no-key" => log.rows[j] = emitted[i]
    <3>1. 1..Len(waiting) = {}
      BY <2>3
    <3>2. Logged(emitted[i], log.rows)
      BY <2>1, <2>3, <3>1 DEF PoolKeeps
    <3>3. QED
      BY <2>1, <3>2 DEF Logged
  <2>4. QED
    BY <2>2, <2>3 DEF LogSettles
<1>2. QED
  BY <1>1, PoolInvariant, PTL

-----------------------------------------------------------------------------
\* The page: what the drawer makes of the mirror.

\* The last of its key in a sequence of artifacts, or one without a key.
LastOfKey(a, q) ==
  \E p \in 1..Len(q) :
    /\ q[p] = a
    /\ NaturalKey(a) = NoKey \/ \A r \in (p + 1)..Len(q) : NaturalKey(q[r]) # NaturalKey(a)

LEMMA LastJoined ==
  ASSUME NEW q \in Seq(LoggedArtifacts), NEW t \in Seq(LoggedArtifacts), NEW a, LastOfKey(a, q),
         NaturalKey(a) = NoKey \/ \A r \in 1..Len(t) : NaturalKey(t[r]) # NaturalKey(a)
  PROVE  LastOfKey(a, q \o t)
<1> DEFINE m == Len(q)  d == Len(t)  s == q \o t
<1>1. /\ m \in Nat /\ d \in Nat /\ Len(s) = m + d
      /\ \A i \in 1..m : s[i] = q[i]
      /\ \A i \in (m + 1)..(m + d) : s[i] = t[i - m]
  BY Joined
<1>2. PICK p \in 1..m :
        /\ q[p] = a
        /\ NaturalKey(a) = NoKey \/ \A r \in (p + 1)..m : NaturalKey(q[r]) # NaturalKey(a)
  BY DEF LastOfKey
<1>3. NaturalKey(a) = NoKey \/ \A r \in 1..d : NaturalKey(t[r]) # NaturalKey(a)
  OBVIOUS
<1> HIDE DEF m, d, s
<1>4. p \in 1..Len(s) /\ s[p] = a
  BY <1>1, <1>2
<1>5. ASSUME NaturalKey(a) # NoKey, NEW r \in (p + 1)..Len(s) PROVE NaturalKey(s[r]) # NaturalKey(a)
  <2>1. CASE r \in (p + 1)..m
    <3>1. s[r] = q[r]
      BY <1>1, <1>2, <2>1
    <3>2. QED
      BY <1>2, <1>5, <2>1, <3>1
  <2>2. CASE r \in (m + 1)..(m + d)
    <3>1. r - m \in 1..d /\ s[r] = t[r - m]
      BY <1>1, <2>2
    <3>2. QED
      BY <1>3, <1>5, <3>1
  <2>3. QED
    BY <1>1, <1>2, <1>5, <2>1, <2>2
<1>6. LastOfKey(a, s)
  BY <1>4, <1>5 DEF LastOfKey
<1>7. QED
  BY <1>6 DEF s

LEMMA LastAppended ==
  ASSUME NEW q \in Seq(LoggedArtifacts), NEW e \in LoggedArtifacts
  PROVE  /\ LastOfKey(e, Append(q, e))
         /\ \A a : LastOfKey(a, q) /\ (NaturalKey(a) = NoKey \/ NaturalKey(e) # NaturalKey(a))
                     => LastOfKey(a, Append(q, e))
<1> DEFINE m == Len(q)  s == Append(q, e)
<1>1. m \in Nat /\ Len(s) = m + 1 /\ s[m + 1] = e /\ \A i \in 1..m : s[i] = q[i]
  OBVIOUS
<1> HIDE DEF s
<1>2. LastOfKey(e, s)
  <2>1. m + 1 \in 1..Len(s) /\ ((m + 1) + 1)..Len(s) = {}
    BY <1>1
  <2>2. QED
    BY <1>1, <2>1 DEF LastOfKey
<1>3. ASSUME NEW a, LastOfKey(a, q), NaturalKey(a) = NoKey \/ NaturalKey(e) # NaturalKey(a)
      PROVE  LastOfKey(a, s)
  <2>1. PICK p \in 1..m :
          /\ q[p] = a
          /\ NaturalKey(a) = NoKey \/ \A r \in (p + 1)..m : NaturalKey(q[r]) # NaturalKey(a)
    BY <1>3 DEF LastOfKey
  <2> HIDE DEF m
  <2>2. p \in 1..Len(s) /\ s[p] = a
    BY <1>1, <2>1
  <2>3. ASSUME NaturalKey(a) # NoKey, NEW r \in (p + 1)..Len(s) PROVE NaturalKey(s[r]) # NaturalKey(a)
    <3>1. CASE r = m + 1
      BY <1>1, <1>3, <2>3, <3>1
    <3>2. CASE r # m + 1
      <4>1. r \in 1..m /\ r \in (p + 1)..m
        BY <1>1, <2>3, <3>2
      <4>2. QED
        BY <1>1, <2>1, <2>3, <4>1
    <3>3. QED
      BY <3>1, <3>2
  <2>4. QED
    BY <2>2, <2>3 DEF LastOfKey
<1>4. QED
  BY <1>2, <1>3 DEF s

\* One step of dedupeArtifacts.
Drawers == {q \in Seq(LoggedArtifacts) : OncePerKey(q)}

LEMMA DedupeStep ==
  ASSUME NEW out \in Drawers, NEW a \in LoggedArtifacts
  PROVE  LET new == DedupeArtifact(out, a) IN
         /\ new \in Drawers
         /\ \E k \in 1..Len(new) : new[k] = a
         /\ \A j \in 1..Len(out) :
              (NaturalKey(out[j]) = NoKey \/ NaturalKey(out[j]) # NaturalKey(a)) =>
                \E k \in 1..Len(new) : new[k] = out[j]
<1> DEFINE same == PositionsOf(out, NaturalKey(a))  new == DedupeArtifact(out, a)
           t == [i \in DOMAIN out |-> IF i \in same THEN a ELSE out[i]]
<1>1. PICK n \in Nat : n = Len(out) /\ DOMAIN out = 1..n /\ out \in [1..n -> LoggedArtifacts]
  BY LenProperties DEF Drawers
<1>2. OncePerKey(out) /\ out \in Seq(LoggedArtifacts)
  BY DEF Drawers
<1>3. same = {i \in 1..n : NaturalKey(out[i]) = NaturalKey(a)}
  BY <1>1 DEF PositionsOf
<1>4. CASE NaturalKey(a) = NoKey \/ same = {}
  <2> DEFINE s == Append(out, a)
  <2>1. new = s
    BY <1>4 DEF DedupeArtifact
  <2>2. s \in Seq(LoggedArtifacts) /\ Len(s) = n + 1 /\ s[n + 1] = a /\ \A i \in 1..n : s[i] = out[i]
    BY <1>1, <1>2
  <2> HIDE DEF s
  <2>3. OncePerKey(s)
    BY <1>1, <1>2, <1>3, <1>4, <2>2 DEF OncePerKey
  <2>4. n + 1 \in 1..Len(s) /\ \A j \in 1..n : j \in 1..Len(s)
    BY <1>1, <2>2
  <2> HIDE DEF new
  <2>5. QED
    BY <1>1, <2>1, <2>2, <2>3, <2>4 DEF Drawers, new
<1>5. CASE ~(NaturalKey(a) = NoKey \/ same = {})
  <2>1. new = t
    BY <1>5 DEF DedupeArtifact
  <2>2. t \in [1..n -> LoggedArtifacts]
    BY <1>1
  <2>3. t \in Seq(LoggedArtifacts) /\ Len(t) = n
        /\ \A i \in 1..n : t[i] = IF i \in same THEN a ELSE out[i]
    BY <1>1, <2>2, SeqOfFcn
  <2> HIDE DEF t
  <2>4. \A i \in 1..n : NaturalKey(t[i]) = NaturalKey(out[i])
    BY <1>3, <2>3
  <2>5. OncePerKey(t)
    BY <1>1, <1>2, <2>3, <2>4 DEF OncePerKey
  <2>6. PICK i \in 1..n : i \in same
    BY <1>3, <1>5
  <2>7. t[i] = a
    BY <2>3, <2>6
  <2>8. ASSUME NEW j \in 1..n, NaturalKey(out[j]) = NoKey \/ NaturalKey(out[j]) # NaturalKey(a)
        PROVE  t[j] = out[j]
    <3>1. j \notin same
      BY <1>3, <1>5, <2>8
    <3>2. QED
      BY <2>3, <3>1
  <2> HIDE DEF new
  <2>9. QED
    BY <1>1, <2>1, <2>3, <2>5, <2>7, <2>8 DEF Drawers, new
<1>6. QED
  BY <1>4, <1>5

\* A version takes a slot of its own, or the slot of its key.
LEMMA DedupeKeys ==
  ASSUME NEW out \in Drawers, NEW a \in LoggedArtifacts
  PROVE  LET new == DedupeArtifact(out, a) IN
         \/ /\ Len(new) = Len(out) + 1 /\ NaturalKey(new[Len(out) + 1]) = NaturalKey(a)
            /\ \A j \in 1..Len(out) : NaturalKey(new[j]) = NaturalKey(out[j])
            /\ NaturalKey(a) = NoKey \/ \A j \in 1..Len(out) : NaturalKey(out[j]) # NaturalKey(a)
         \/ /\ Len(new) = Len(out)
            /\ \A j \in 1..Len(out) : NaturalKey(new[j]) = NaturalKey(out[j])
            /\ \E j \in 1..Len(out) : NaturalKey(out[j]) = NaturalKey(a)
<1> DEFINE same == PositionsOf(out, NaturalKey(a))  new == DedupeArtifact(out, a)
           t == [i \in DOMAIN out |-> IF i \in same THEN a ELSE out[i]]
<1>1. PICK n \in Nat : n = Len(out) /\ DOMAIN out = 1..n /\ out \in [1..n -> LoggedArtifacts]
  BY LenProperties DEF Drawers
<1>2. same = {i \in 1..n : NaturalKey(out[i]) = NaturalKey(a)} /\ out \in Seq(LoggedArtifacts)
  BY <1>1 DEF PositionsOf, Drawers
<1>3. CASE NaturalKey(a) = NoKey \/ same = {}
  <2> DEFINE s == Append(out, a)
  <2>1. Len(s) = n + 1 /\ s[n + 1] = a /\ \A i \in 1..n : s[i] = out[i]
    BY <1>1, <1>2
  <2>2. new = s
    BY <1>3 DEF DedupeArtifact
  <2> HIDE DEF s, new
  <2>3. QED
    BY <1>1, <1>2, <1>3, <2>1, <2>2 DEF new
<1>4. CASE ~(NaturalKey(a) = NoKey \/ same = {})
  <2>1. t \in [1..n -> LoggedArtifacts]
    BY <1>1
  <2>2. Len(t) = n /\ \A i \in 1..n : NaturalKey(t[i]) = NaturalKey(out[i])
    BY <1>1, <1>2, <2>1, SeqOfFcn
  <2>3. new = t
    BY <1>4 DEF DedupeArtifact
  <2>4. \E j \in 1..n : NaturalKey(out[j]) = NaturalKey(a)
    BY <1>2, <1>4
  <2> HIDE DEF t, new
  <2>5. QED
    BY <1>1, <2>2, <2>3, <2>4 DEF new
<1>5. QED
  BY <1>3, <1>4

\* The keys of the first i artifacts have slots, in the order of their first appearance.
Slots(out, q, i) ==
  /\ \A s \in 1..Len(out) : NaturalKey(out[s]) # NoKey =>
       \E p \in 1..i : NaturalKey(q[p]) = NaturalKey(out[s])
  /\ \A p \in 1..i : NaturalKey(q[p]) # NoKey =>
       \E s \in 1..Len(out) : NaturalKey(out[s]) = NaturalKey(q[p])
  /\ \A s, t \in 1..Len(out) : s < t /\ NaturalKey(out[s]) # NoKey /\ NaturalKey(out[t]) # NoKey =>
       \E p \in 1..i : /\ NaturalKey(q[p]) = NaturalKey(out[s])
                       /\ \A o \in 1..p : NaturalKey(q[o]) # NaturalKey(out[t])

LEMMA SlotStep ==
  ASSUME NEW out \in Drawers, NEW q \in Seq(LoggedArtifacts), NEW i \in Nat, i + 1 \in 1..Len(q),
         Slots(out, q, i)
  PROVE  Slots(DedupeArtifact(out, q[i + 1]), q, i + 1)
<1> DEFINE k == i + 1  a == q[k]  new == DedupeArtifact(out, a)  n == Len(out)
           K(x) == NaturalKey(x)
<1>1. /\ k \in Nat /\ k \in 1..k /\ a \in LoggedArtifacts /\ n \in Nat
      /\ \A p \in 1..i : p \in 1..k
      /\ \A p \in 1..k : p = k \/ p \in 1..i
      /\ \A p \in 1..i : \A o \in 1..p : o \in 1..i
  BY DEF Drawers
<1>2. \/ /\ Len(new) = n + 1 /\ K(new[n + 1]) = K(a) /\ \A j \in 1..n : K(new[j]) = K(out[j])
         /\ K(a) = NoKey \/ \A j \in 1..n : K(out[j]) # K(a)
      \/ /\ Len(new) = n /\ \A j \in 1..n : K(new[j]) = K(out[j])
         /\ \E j \in 1..n : K(out[j]) = K(a)
  BY <1>1, DedupeKeys
<1>3. /\ \A s \in 1..n : K(out[s]) # NoKey => \E p \in 1..i : K(q[p]) = K(out[s])
      /\ \A p \in 1..i : K(q[p]) # NoKey => \E s \in 1..n : K(out[s]) = K(q[p])
      /\ \A s, t \in 1..n : s < t /\ K(out[s]) # NoKey /\ K(out[t]) # NoKey =>
           \E p \in 1..i : K(q[p]) = K(out[s]) /\ \A o \in 1..p : K(q[o]) # K(out[t])
  BY DEF Slots
<1> HIDE DEF new, n, k
<1>4. CASE /\ Len(new) = n + 1 /\ K(new[n + 1]) = K(a) /\ \A j \in 1..n : K(new[j]) = K(out[j])
           /\ K(a) = NoKey \/ \A j \in 1..n : K(out[j]) # K(a)
  <2>1. /\ n + 1 \in 1..(n + 1) /\ \A j \in 1..n : j \in 1..(n + 1)
        /\ \A j \in 1..(n + 1) : j = n + 1 \/ j \in 1..n
    BY <1>1
  <2>2. ASSUME NEW s \in 1..(n + 1), K(new[s]) # NoKey PROVE \E p \in 1..k : K(q[p]) = K(new[s])
    <3>1. CASE s = n + 1
      BY <1>1, <1>4, <3>1
    <3>2. CASE s \in 1..n
      <4>1. K(new[s]) = K(out[s])
        BY <1>4, <3>2
      <4>2. PICK p \in 1..i : K(q[p]) = K(out[s])
        BY <1>3, <2>2, <3>2, <4>1
      <4>3. p \in 1..k
        BY <1>1
      <4>4. QED
        BY <4>1, <4>2, <4>3
    <3>3. QED
      BY <2>1, <3>1, <3>2
  <2>3. ASSUME NEW p \in 1..k, K(q[p]) # NoKey PROVE \E s \in 1..(n + 1) : K(new[s]) = K(q[p])
    <3>1. CASE p = k
      BY <1>4, <2>1, <3>1
    <3>2. CASE p \in 1..i
      <4>1. PICK s \in 1..n : K(out[s]) = K(q[p])
        BY <1>3, <2>3, <3>2
      <4>2. s \in 1..(n + 1) /\ K(new[s]) = K(q[p])
        BY <1>4, <2>1, <4>1
      <4>3. QED
        BY <4>2
    <3>3. QED
      BY <1>1, <3>1, <3>2
  <2>4. ASSUME NEW s \in 1..(n + 1), NEW t \in 1..(n + 1), s < t, K(new[s]) # NoKey, K(new[t]) # NoKey
        PROVE  \E p \in 1..k : K(q[p]) = K(new[s]) /\ \A o \in 1..p : K(q[o]) # K(new[t])
    <3>1. s \in 1..n /\ K(new[s]) = K(out[s])
      BY <1>1, <1>4, <2>4
    <3>2. CASE t \in 1..n
      <4>1. K(new[t]) = K(out[t])
        BY <1>4, <3>2
      <4>2. PICK p \in 1..i : K(q[p]) = K(out[s]) /\ \A o \in 1..p : K(q[o]) # K(out[t])
        BY <1>3, <2>4, <3>1, <3>2, <4>1
      <4>3. QED
        BY <1>1, <3>1, <4>1, <4>2
    <3>3. CASE t = n + 1
      <4>1. K(new[t]) = K(a) /\ \A j \in 1..n : K(out[j]) # K(a)
        BY <1>4, <2>4, <3>3
      <4>2. PICK p \in 1..i : K(q[p]) = K(out[s])
        BY <1>3, <2>4, <3>1
      <4>3. \A o \in 1..p : K(q[o]) # K(a)
        <5> SUFFICES ASSUME NEW o \in 1..p, K(q[o]) = K(a) PROVE FALSE
          OBVIOUS
        <5>1. o \in 1..i /\ K(q[o]) # NoKey
          BY <1>1, <2>4, <4>1
        <5>2. QED
          BY <1>3, <4>1, <5>1
      <4>4. QED
        BY <1>1, <3>1, <4>1, <4>2, <4>3
    <3>4. QED
      BY <2>1, <3>2, <3>3
  <2>5. QED
    BY <1>4, <2>2, <2>3, <2>4 DEF Slots, new, a, k
<1>5. CASE /\ Len(new) = n /\ \A j \in 1..n : K(new[j]) = K(out[j])
           /\ \E j \in 1..n : K(out[j]) = K(a)
  <2>1. ASSUME NEW s \in 1..n, K(new[s]) # NoKey PROVE \E p \in 1..k : K(q[p]) = K(new[s])
    BY <1>1, <1>3, <1>5, <2>1
  <2>2. ASSUME NEW p \in 1..k, K(q[p]) # NoKey PROVE \E s \in 1..n : K(new[s]) = K(q[p])
    <3>1. CASE p = k
      BY <1>5, <3>1
    <3>2. CASE p \in 1..i
      BY <1>3, <1>5, <2>2, <3>2
    <3>3. QED
      BY <1>1, <3>1, <3>2
  <2>3. ASSUME NEW s \in 1..n, NEW t \in 1..n, s < t, K(new[s]) # NoKey, K(new[t]) # NoKey
        PROVE  \E p \in 1..k : K(q[p]) = K(new[s]) /\ \A o \in 1..p : K(q[o]) # K(new[t])
    <3>1. K(new[s]) = K(out[s]) /\ K(new[t]) = K(out[t])
      BY <1>5
    <3>2. PICK p \in 1..i : K(q[p]) = K(out[s]) /\ \A o \in 1..p : K(q[o]) # K(out[t])
      BY <1>3, <2>3, <3>1
    <3>3. QED
      BY <1>1, <3>1, <3>2
  <2>4. QED
    BY <1>5, <2>1, <2>2, <2>3 DEF Slots, new, a, k
<1>6. QED
  BY <1>2, <1>4, <1>5

\* dedupeArtifacts has a row for each key, the last one received, in the slot of the first.
LEMMA Deduped ==
  ASSUME NEW q \in Seq(LoggedArtifacts)
  PROVE  /\ FoldLeft(DedupeArtifact, <<>>, q) \in Drawers
         /\ Slots(FoldLeft(DedupeArtifact, <<>>, q), q, Len(q))
         /\ \A a : LastOfKey(a, q) =>
              \E k \in 1..Len(FoldLeft(DedupeArtifact, <<>>, q)) : FoldLeft(DedupeArtifact, <<>>, q)[k] = a
<1> DEFINE st == [p \in Drawers \X LoggedArtifacts |-> DedupeArtifact(p[1], p[2])]
           b == <<>>
<1>1. st \in [Drawers \X LoggedArtifacts -> Drawers] /\ b \in Drawers
  <2>1. b \in Drawers
    BY DEF Drawers, OncePerKey
  <2>2. QED
    BY <2>1, DedupeStep
<1>2. PICK n \in Nat : n = Len(q) /\ DOMAIN q = 1..n /\ q \in [1..n -> LoggedArtifacts]
  BY LenProperties
<1> HIDE DEF st, b
<1>3. PICK g : Iterates(g, Drawers, b, st, n, q)
  BY <1>1, <1>2, FoldIter
<1> DEFINE Unfolds(f) ==
             f = [s \in SUBSET (1..n) |->
                    IF s = {} THEN b ELSE DedupeArtifact(f[s \ {Top(s)}], q[Top(s)])]
<1>4. Unfolds(g) /\ g \in [SUBSET (1..n) -> Drawers]
  <2>1. ASSUME NEW s \in SUBSET (1..n), s # {}
        PROVE  g[s] = DedupeArtifact(g[s \ {Top(s)}], q[Top(s)])
    <3>1. Top(s) \in 1..n
      BY <2>1, TopIn
    <3>2. g[s \ {Top(s)}] \in Drawers /\ q[Top(s)] \in LoggedArtifacts
      BY <1>2, <1>3, <3>1 DEF Iterates
    <3>3. QED
      BY <1>3, <2>1, <3>2 DEF st, Iterates
  <2>2. QED
    BY <1>3, <2>1 DEF Iterates
<1> DEFINE f == CHOOSE f : Unfolds(f)
<1>5. Unfolds(f)
  BY <1>4, Zenon
<1>6. FoldLeft(DedupeArtifact, <<>>, q) = f[1..n]
  BY <1>2, Zenon DEF FoldLeft, MapThenFoldSet, Top, Max, b
<1> HIDE DEF f
<1> DEFINE Holds(i, j) ==
             NaturalKey(q[j]) = NoKey \/ (\A r \in (j + 1)..i : NaturalKey(q[r]) # NaturalKey(q[j])) =>
               \E k \in 1..Len(f[1..i]) : f[1..i][k] = q[j]
           P == {i \in 0..n : /\ f[1..i] \in Drawers /\ Slots(f[1..i], q, i)
                              /\ \A j \in 1..i : Holds(i, j)}
<1>7. 0 \in P
  <2>1. 1..0 = {}
    OBVIOUS
  <2>2. f[1..0] = b
    BY <1>2, <1>5, <2>1
  <2>3. Slots(b, q, 0)
    BY <2>1 DEF Slots, b
  <2>4. QED
    BY <1>1, <1>2, <2>1, <2>2, <2>3
<1>8. ASSUME NEW i \in 0..(n - 1), i \in P PROVE i + 1 \in P
  <2> DEFINE k == i + 1  new == f[1..k]  old == f[1..i]
  <2>1. /\ k \in 1..n /\ k \in Nat \ {0} /\ k - 1 = i /\ k \in 0..n /\ q[k] \in LoggedArtifacts
        /\ i \in Nat /\ i < k /\ \A j \in 1..k : j = k \/ j \in 1..i
    BY <1>2
  <2> HIDE DEF k
  <2>2. Top(1..k) = k /\ 1..k # {} /\ (1..k) \ {k} = 1..i /\ 1..k \in SUBSET (1..n)
    BY <2>1, TopOfInterval, SMTT(30)
  <2>3. new = DedupeArtifact(old, q[k])
    BY <1>5, <2>2
  <2>4. old \in Drawers /\ Slots(old, q, i) /\ \A j \in 1..i : Holds(i, j)
    BY <1>8
  <2>5. /\ new \in Drawers
        /\ \E m \in 1..Len(new) : new[m] = q[k]
        /\ \A j \in 1..Len(old) :
             (NaturalKey(old[j]) = NoKey \/ NaturalKey(old[j]) # NaturalKey(q[k])) =>
               \E m \in 1..Len(new) : new[m] = old[j]
    <3> DEFINE d == DedupeArtifact(old, q[k])
    <3> HIDE DEF old
    <3>1. /\ d \in Drawers
          /\ \E m \in 1..Len(d) : d[m] = q[k]
          /\ \A j \in 1..Len(old) :
               (NaturalKey(old[j]) = NoKey \/ NaturalKey(old[j]) # NaturalKey(q[k])) =>
                 \E m \in 1..Len(d) : d[m] = old[j]
      BY <2>1, <2>4, DedupeStep
    <3>2. new = d
      BY <2>3
    <3> HIDE DEF d, new
    <3>3. QED
      BY <3>1, <3>2
  <2>6. ASSUME NEW j \in 1..k PROVE Holds(k, j)
    <3>1. CASE j = k
      BY <2>5, <3>1
    <3>2. CASE j \in 1..i
      <4> SUFFICES ASSUME NaturalKey(q[j]) = NoKey
                            \/ \A r \in (j + 1)..k : NaturalKey(q[r]) # NaturalKey(q[j])
                   PROVE  \E m \in 1..Len(new) : new[m] = q[j]
        OBVIOUS
      <4>1. /\ k \in (j + 1)..k
            /\ \A r \in (j + 1)..i : r \in (j + 1)..k
        BY <2>1, <3>2
      <4>2. PICK m \in 1..Len(old) : old[m] = q[j]
        BY <2>4, <3>2, <4>1
      <4>3. NaturalKey(old[m]) = NoKey \/ NaturalKey(old[m]) # NaturalKey(q[k])
        BY <4>1, <4>2
      <4>4. PICK l \in 1..Len(new) : new[l] = old[m]
        BY <2>5, <4>3
      <4>5. QED
        BY <4>2, <4>4
    <3>3. QED
      BY <2>1, <3>1, <3>2
  <2> HIDE DEF Holds
  <2>7. Slots(new, q, k)
    <3>1. i + 1 \in 1..Len(q)
      BY <1>2
    <3>2. Slots(DedupeArtifact(old, q[i + 1]), q, i + 1)
      BY <2>1, <2>4, <3>1, SlotStep
    <3>3. QED
      BY <2>3, <3>2 DEF k
  <2>8. k \in P
    BY <2>1, <2>5, <2>6, <2>7
  <2>9. QED
    BY <2>8 DEF k
<1> HIDE DEF P
<1>9. 0..n \subseteq P
  BY <1>2, <1>7, <1>8, BoundedInduction
<1>10. f[1..n] \in Drawers /\ Slots(f[1..n], q, n) /\ \A j \in 1..n : Holds(n, j)
  <2> HIDE DEF f, Holds
  <2>1. n \in 0..n
    BY <1>2
  <2>2. n \in P
    BY <1>9, <2>1
  <2>3. QED
    BY <2>2, Zenon DEF P
<1>11. QED
  BY <1>2, <1>6, <1>10 DEF LastOfKey

-----------------------------------------------------------------------------
\* The types of the page's state.
PageTyped ==
  /\ y \in Nat /\ reduced \in BOOLEAN
  /\ hydration \in {"idle", "asked", "served", "landed", "failed", "aborted"}
  /\ fetched \in Seq(LoggedArtifacts) /\ mirror \in Seq(LoggedArtifacts)
  /\ stream \in {"down", "up", "gone"} /\ read \in 0 .. Len(emitted)
  /\ losses \in 0 .. MaxLosses /\ fetches \in 0 .. MaxFetches

\* The mirror keeps what the stream has told, hydrated keys aside.
MirrorKeeps ==
  \A i \in 1..read :
    LET key == NaturalKey(emitted[i]) IN
    \/ key # NoKey /\ key \in hydrated
    \/ key # NoKey /\ \E j \in (i + 1)..read : NaturalKey(emitted[j]) = key
    \/ LastOfKey(emitted[i], mirror)

\* It has a place for every key of which the stream has told, ...
MirrorHas ==
  \A i \in 1..read :
    LET key == NaturalKey(emitted[i]) IN
    \/ key \in hydrated \union {NoKey}
    \/ \E q \in 1..Len(mirror) : NaturalKey(mirror[q]) = key

\* ... and before a place of a key, one for each key that the run showed earlier.
MirrorOrdered ==
  \A p \in 1..Len(mirror) :
    LET key == NaturalKey(mirror[p]) IN
    key \notin hydrated \union {NoKey} =>
      /\ \E i \in 1..Len(emitted) : NaturalKey(emitted[i]) = key
      /\ \A j \in 1..Len(emitted) :
           \/ \E i \in 1..j : NaturalKey(emitted[i]) = key
           \/ NaturalKey(emitted[j]) \in hydrated \union {NoKey}
           \/ \E q \in 1..(p - 1) : NaturalKey(mirror[q]) = NaturalKey(emitted[j])

MirrorInv == MirrorKeeps /\ MirrorHas /\ MirrorOrdered

PageInv == LogTyped /\ PageTyped /\ MirrorInv

LEMMA ReverseOf ==
  ASSUME NEW S, NEW q \in Seq(S)
  PROVE  /\ Reverse(q) \in Seq(S) /\ Len(Reverse(q)) = Len(q)
         /\ \A i \in 1..Len(q) : Reverse(q)[i] = q[Len(q) - i + 1] /\ Len(q) - i + 1 \in 1..Len(q)
<1>1. PICK n \in Nat : n = Len(q) /\ DOMAIN q = 1..n /\ q \in [1..n -> S]
  BY LenProperties
<1>2. Reverse(q) = [i \in 1..n |-> q[(n - i) + 1]]
  BY <1>1 DEF Reverse
<1>3. Reverse(q) \in [1..n -> S]
  BY <1>1, <1>2
<1>4. QED
  BY <1>1, <1>2, <1>3, SeqOfFcn

LEMMA ListedRows ==
  ASSUME log.rows \in Seq(LoggedArtifacts)
  PROVE  ListRecent(Limit) \in Seq(LoggedArtifacts)
<1> DEFINE n == Len(log.rows)  from == IF n > Limit THEN n - Limit + 1 ELSE 1
           recent == SubSeq(log.rows, from, n)
<1>1. n \in Nat /\ Limit \in Nat \ {0}
  BY DashboardAssumption
<1>2. from \in 1..(n + 1)
  BY <1>1
<1>3. \A i \in from..n : log.rows[i] \in LoggedArtifacts
  BY <1>1, <1>2
<1> HIDE DEF from, n
<1>4. recent \in Seq(LoggedArtifacts)
  BY <1>1, <1>2, <1>3, SubSeqProperties DEF n
<1> HIDE DEF recent
<1>5. Reverse(recent) \in Seq(LoggedArtifacts)
  BY <1>4, ReverseOf
<1>6. QED
  BY <1>5 DEF recent, from, n, ListRecent

LEMMA RowsListed ==
  ASSUME LogTyped PROVE log.rows \in Seq(LoggedArtifacts)
<1>1. CASE pooled
  BY <1>1 DEF LogTyped
<1>2. CASE ~pooled
  <2>1. PICK r \in RingRows : log = Ring(r)
    BY <1>2 DEF LogTyped, Rings
  <2>2. QED
    BY <2>1 DEF Ring, RingRows
<1>3. QED
  BY <1>1, <1>2 DEF LogTyped

\* A step of the runs or of the log only adds to what was emitted.
LEMMA EmittedGrows ==
  ASSUME LogTyped, LogNext
  PROVE  /\ emitted' \in Seq(LoggedArtifacts) /\ Len(emitted) <= Len(emitted')
         /\ \A i \in 1..Len(emitted) : emitted'[i] = emitted[i]
<1>1. emitted \in Seq(LoggedArtifacts) /\ Len(emitted) \in Nat
  BY DEF LogTyped
<1>2. ASSUME NEW shown \in Seq(Emittable), AddArtifacts(shown)
      PROVE  /\ emitted' \in Seq(LoggedArtifacts) /\ Len(emitted) <= Len(emitted')
             /\ \A i \in 1..Len(emitted) : emitted'[i] = emitted[i]
  <2> DEFINE new == NewArtifacts(shown, Len(emitted))
  <2>1. new \in Seq(LoggedArtifacts) /\ Len(new) \in Nat
    BY <1>1, NewTyped
  <2>2. emitted' = emitted \o new
    BY <1>2 DEF AddArtifacts, NewArtifacts
  <2> HIDE DEF new
  <2>3. /\ Len(emitted') = Len(emitted) + Len(new)
        /\ \A i \in 1..Len(emitted) : emitted'[i] = emitted[i]
    BY <1>1, <2>1, <2>2, Joined
  <2>4. emitted' \in Seq(LoggedArtifacts)
    BY <1>1, <2>1, <2>2
  <2>5. QED
    BY <1>1, <2>1, <2>3, <2>4
<1>3. \/ emitted' = emitted
      \/ \E shown \in Seq(Emittable) : AddArtifacts(shown)
  <2>1. CASE TickStarts \/ TickEnds \/ \E o \in 1..OrderCount : OrderQueued(o) \/ OrderJudged(o)
    BY <2>1, RunsShow
  <2>2. CASE GetsConnection \/ \E a \in busy : Appended(a) \/ AppendFails(a)
    BY <2>2 DEF GetsConnection, Appended, AppendFails
  <2>3. QED
    BY <2>1, <2>2 DEF LogNext
<1>4. QED
  BY <1>1, <1>2, <1>3

LEMMA PageInit == DashboardInit => PageInv
<1> SUFFICES ASSUME DashboardInit PROVE PageInv
  OBVIOUS
<1>1. LogTyped
  BY LogTypeInit DEF DashboardInit
<1>2. Len(emitted) = 0
  BY DEF DashboardInit, LogInit
<1>3. PageTyped
  BY <1>2, DashboardAssumption DEF DashboardInit, PageTyped
<1>4. MirrorInv
  BY DEF DashboardInit, MirrorInv, MirrorKeeps, MirrorHas, MirrorOrdered
<1>5. QED
  BY <1>1, <1>3, <1>4 DEF PageInv

LEMMA LogPageStep ==
  ASSUME PageInv, LogNext, UNCHANGED pageVars
  PROVE  PageInv'
<1>1. LogTyped'
  BY LogTypeStep DEF PageInv
<1>2. /\ Len(emitted) <= Len(emitted') /\ Len(emitted) \in Nat /\ Len(emitted') \in Nat
      /\ \A i \in 1..Len(emitted) : emitted'[i] = emitted[i]
  BY <1>1, EmittedGrows DEF PageInv, LogTyped
<1>3. PageTyped'
  BY <1>2 DEF PageInv, PageTyped, pageVars
<1>4. MirrorKeeps'
  <2>1. read \in 0..Len(emitted) /\ UNCHANGED <<read, mirror, hydrated>> /\ MirrorKeeps
    BY DEF PageInv, PageTyped, MirrorInv, pageVars
  <2>2. \A i \in 1..read : emitted'[i] = emitted[i] /\ \A j \in (i + 1)..read : emitted'[j] = emitted[j]
    BY <1>2, <2>1
  <2>3. ASSUME NEW i \in 1..read
        PROVE  \/ NaturalKey(emitted'[i]) # NoKey /\ NaturalKey(emitted'[i]) \in hydrated
               \/ NaturalKey(emitted'[i]) # NoKey
                    /\ \E j \in (i + 1)..read : NaturalKey(emitted'[j]) = NaturalKey(emitted'[i])
               \/ LastOfKey(emitted'[i], mirror)
    BY <2>1, <2>2 DEF MirrorKeeps
  <2>4. QED
    BY <2>1, <2>3 DEF MirrorKeeps
<1>5. MirrorHas'
  <2>1. read \in 0..Len(emitted) /\ UNCHANGED <<read, mirror, hydrated>> /\ MirrorHas
    BY DEF PageInv, PageTyped, MirrorInv, pageVars
  <2>2. \A i \in 1..read : emitted'[i] = emitted[i]
    BY <1>2, <2>1
  <2>3. QED
    BY <2>1, <2>2 DEF MirrorHas
<1>6. MirrorOrdered'
  <2> DEFINE m == Len(emitted)  key(p) == NaturalKey(mirror[p])
  <2>1. UNCHANGED <<mirror, hydrated>> /\ MirrorOrdered
    BY DEF PageInv, MirrorInv, pageVars
  <2> SUFFICES ASSUME NEW p \in 1..Len(mirror), key(p) \notin hydrated \union {NoKey}
               PROVE  /\ \E i \in 1..Len(emitted') : NaturalKey(emitted'[i]) = key(p)
                      /\ \A j \in 1..Len(emitted') :
                           \/ \E i \in 1..j : NaturalKey(emitted'[i]) = key(p)
                           \/ NaturalKey(emitted'[j]) \in hydrated \union {NoKey}
                           \/ \E q \in 1..(p - 1) : NaturalKey(mirror[q]) = NaturalKey(emitted'[j])
    BY <2>1 DEF MirrorOrdered
  <2>2. PICK i \in 1..m : NaturalKey(emitted[i]) = key(p)
    BY <2>1 DEF MirrorOrdered
  <2>3. i \in 1..Len(emitted') /\ NaturalKey(emitted'[i]) = key(p)
    BY <1>2, <2>2
  <2>4. ASSUME NEW j \in 1..Len(emitted')
        PROVE  \/ \E o \in 1..j : NaturalKey(emitted'[o]) = key(p)
               \/ NaturalKey(emitted'[j]) \in hydrated \union {NoKey}
               \/ \E q \in 1..(p - 1) : NaturalKey(mirror[q]) = NaturalKey(emitted'[j])
    <3>1. CASE j \in 1..m
      <4>1. \A o \in 1..j : o \in 1..m /\ emitted'[o] = emitted[o]
        BY <1>2, <3>1
      <4>2. j \in 1..j
        BY <3>1
      <4>3. QED
        BY <2>1, <3>1, <4>1, <4>2 DEF MirrorOrdered
    <3>2. CASE j > m
      <4>1. i \in 1..j
        BY <1>2, <2>2, <3>2
      <4>2. QED
        BY <2>3, <4>1
    <3>3. QED
      BY <1>2, <3>1, <3>2
  <2>5. QED
    BY <2>3, <2>4
<1>7. QED
  BY <1>1, <1>3, <1>4, <1>5, <1>6 DEF PageInv, MirrorInv

\* The effect leaves the fetch, and the rows it was answered, in one of their states.
LEMMA EffectTyped ==
  ASSUME NEW at, NEW changed, RunEffect(at, changed), PageTyped
  PROVE  /\ hydration' \in {"idle", "asked", "served", "landed", "failed", "aborted"}
         /\ fetched' \in Seq(LoggedArtifacts)
BY DEF RunEffect, PageTyped

LEMMA PageStep ==
  ASSUME PageInv, DashboardNext
  PROVE  PageInv'
<1> USE DashboardAssumption
<1>1. CASE LogNext /\ UNCHANGED pageVars
  BY <1>1, LogPageStep
<1>2. LogTyped /\ PageTyped /\ MirrorInv /\ MirrorKeeps /\ MirrorHas /\ MirrorOrdered /\ Len(emitted) \in Nat /\ emitted \in Seq(LoggedArtifacts)
  BY DEF PageInv, LogTyped, MirrorInv
<1>3. ASSUME UNCHANGED logVars, PageTyped', MirrorInv' PROVE PageInv'
  BY <1>2, <1>3 DEF PageInv, LogTyped, logVars
<1>4. ASSUME UNCHANGED <<emitted, mirror, read, hydrated>> PROVE MirrorInv'
  BY <1>2, <1>4 DEF MirrorInv, MirrorKeeps, MirrorHas, MirrorOrdered
<1>5. ASSUME NEW at \in Nat, ScrollTo(at) PROVE PageInv'
  <2>1. hydration' \in {"idle", "asked", "served", "landed", "failed", "aborted"}
        /\ fetched' \in Seq(LoggedArtifacts)
    BY <1>2, <1>5, EffectTyped DEF ScrollTo
  <2>2. y' = at /\ UNCHANGED <<logVars, reduced, mirror, stream, read, hydrated, losses, fetches>>
    BY <1>5 DEF ScrollTo
  <2>3. PageTyped' /\ MirrorInv'
    BY <1>2, <1>4, <2>1, <2>2 DEF PageTyped, logVars
  <2>4. QED
    BY <1>3, <2>2, <2>3
<1>6. CASE Scroll
  BY <1>5, <1>6 DEF Scroll
<1>7. CASE Jump
  <2>1. PICK i \in 0..Evidence : ScrollTo(ChapterScrollTarget(i))
    BY <1>7 DEF Jump
  <2>2. ChapterScrollTarget(i) \in Nat
    BY DEF ChapterScrollTarget, Slot, Evidence
  <2>3. QED
    BY <1>5, <2>1, <2>2
<1>8. CASE ServeArtifacts
  <2>1. fetched' \in Seq(LoggedArtifacts)
    BY <1>2, <1>8, ListedRows, RowsListed DEF ServeArtifacts
  <2>2. fetches' \in 0 .. MaxFetches
    BY <1>2, <1>8 DEF ServeArtifacts, PageTyped
  <2>3. hydration' = "served" /\ UNCHANGED <<logVars, y, reduced, mirror, stream, read, hydrated, losses>>
    BY <1>8 DEF ServeArtifacts
  <2>4. PageTyped' /\ MirrorInv'
    BY <1>2, <1>4, <2>1, <2>2, <2>3 DEF PageTyped, logVars
  <2>5. QED
    BY <1>3, <2>3, <2>4
<1>9. CASE FetchFails
  <2>1. hydration' = "failed"
        /\ UNCHANGED <<logVars, y, reduced, fetched, mirror, stream, read, hydrated, losses, fetches>>
    BY <1>9 DEF FetchFails
  <2>2. PageTyped' /\ MirrorInv'
    BY <1>2, <1>4, <2>1 DEF PageTyped, logVars
  <2>3. QED
    BY <1>3, <2>1, <2>2
<1>10. CASE Hydrate
  <2> DEFINE t == Reverse(fetched)
             keys == {NaturalKey(fetched[i]) : i \in DOMAIN fetched}
  <2>1. /\ hydration' = "landed" /\ mirror' = mirror \o t
        /\ hydrated' = hydrated \union keys /\ fetched' = <<>>
        /\ UNCHANGED <<logVars, y, reduced, stream, read, losses, fetches>>
    BY <1>10 DEF Hydrate
  <2>2. /\ mirror \in Seq(LoggedArtifacts) /\ fetched \in Seq(LoggedArtifacts)
        /\ DOMAIN fetched = 1..Len(fetched)
    BY <1>2 DEF PageTyped
  <2>3. t \in Seq(LoggedArtifacts) /\ \A r \in 1..Len(t) : NaturalKey(t[r]) \in keys
    <3>1. /\ t \in Seq(LoggedArtifacts) /\ Len(t) = Len(fetched)
          /\ \A r \in 1..Len(fetched) : t[r] = fetched[Len(fetched) - r + 1]
                                        /\ Len(fetched) - r + 1 \in 1..Len(fetched)
      BY <2>2, ReverseOf
    <3> HIDE DEF t
    <3>2. QED
      BY <2>2, <3>1
  <2> HIDE DEF t, keys
  <2>4. mirror' \in Seq(LoggedArtifacts)
    BY <2>1, <2>2, <2>3
  <2>5. PageTyped'
    BY <1>2, <2>1, <2>4 DEF PageTyped, logVars
  <2>6. MirrorKeeps'
    <3> SUFFICES ASSUME NEW i \in 1..read,
                        ~(NaturalKey(emitted[i]) # NoKey /\ NaturalKey(emitted[i]) \in hydrated'),
                        ~(NaturalKey(emitted[i]) # NoKey
                           /\ \E j \in (i + 1)..read : NaturalKey(emitted[j]) = NaturalKey(emitted[i]))
                 PROVE  LastOfKey(emitted[i], mirror')
      BY <2>1 DEF MirrorKeeps, logVars
    <3>1. LastOfKey(emitted[i], mirror)
      BY <1>2, <2>1 DEF MirrorKeeps
    <3>2. NaturalKey(emitted[i]) = NoKey \/ \A r \in 1..Len(t) : NaturalKey(t[r]) # NaturalKey(emitted[i])
      BY <2>1, <2>3
    <3>3. QED
      BY <2>1, <2>2, <2>3, <3>1, <3>2, LastJoined
  <2>7. /\ Len(mirror') = Len(mirror) + Len(t) /\ Len(mirror) \in Nat /\ Len(t) \in Nat
        /\ \A p \in 1..Len(mirror) : p \in 1..Len(mirror') /\ mirror'[p] = mirror[p]
        /\ \A p \in (Len(mirror) + 1)..(Len(mirror) + Len(t)) : mirror'[p] = t[p - Len(mirror)]
    <3>1. Len(mirror) \in Nat /\ Len(t) \in Nat
      BY <2>2, <2>3
    <3>2. /\ Len(mirror') = Len(mirror) + Len(t)
          /\ \A p \in 1..Len(mirror) : mirror'[p] = mirror[p]
          /\ \A p \in (Len(mirror) + 1)..(Len(mirror) + Len(t)) : mirror'[p] = t[p - Len(mirror)]
      BY <2>1, <2>2, <2>3, Joined
    <3>3. QED
      BY <3>1, <3>2
  <2>8. MirrorHas'
    BY <1>2, <2>1, <2>7 DEF MirrorHas, logVars
  <2>9. MirrorOrdered'
    <3>0. emitted' = emitted
      BY <2>1 DEF logVars
    <3> SUFFICES ASSUME NEW p \in 1..Len(mirror'), NaturalKey(mirror'[p]) \notin hydrated' \union {NoKey}
                 PROVE  LET key == NaturalKey(mirror'[p]) IN
                        /\ \E i \in 1..Len(emitted) : NaturalKey(emitted[i]) = key
                        /\ \A j \in 1..Len(emitted) :
                             \/ \E i \in 1..j : NaturalKey(emitted[i]) = key
                             \/ NaturalKey(emitted[j]) \in hydrated' \union {NoKey}
                             \/ \E q \in 1..(p - 1) : NaturalKey(mirror'[q]) = NaturalKey(emitted[j])
      BY <3>0 DEF MirrorOrdered
    <3>1. p \in 1..Len(mirror)
      <4>1. ASSUME p \in (Len(mirror) + 1)..(Len(mirror) + Len(t)) PROVE FALSE
        <5>1. p - Len(mirror) \in 1..Len(t)
          BY <2>7, <4>1
        <5>2. NaturalKey(mirror'[p]) \in keys
          BY <2>3, <2>7, <4>1, <5>1
        <5>3. QED
          BY <2>1, <5>2
      <4>2. QED
        BY <2>7, <4>1
    <3>2. \A q \in 1..(p - 1) : q \in 1..Len(mirror)
      BY <2>7, <3>1
    <3>3. NaturalKey(mirror[p]) \notin hydrated \union {NoKey} /\ mirror'[p] = mirror[p]
      BY <2>1, <2>7, <3>1
    <3>4. QED
      BY <1>2, <2>1, <2>7, <3>1, <3>2, <3>3 DEF MirrorOrdered
  <2>10. QED
    BY <1>3, <2>1, <2>5, <2>6, <2>8, <2>9 DEF MirrorInv
<1>11. CASE OpenStream
  <2>1. stream' = "up" /\ read' = 0
        /\ UNCHANGED <<logVars, y, reduced, hydration, fetched, mirror, hydrated, losses, fetches>>
    BY <1>11 DEF OpenStream
  <2>2. PageTyped'
    BY <1>2, <2>1 DEF PageTyped, logVars
  <2>3. MirrorKeeps' /\ MirrorHas'
    BY <2>1 DEF MirrorKeeps, MirrorHas
  <2>4. MirrorOrdered'
    BY <1>2, <2>1 DEF MirrorOrdered, logVars
  <2>5. QED
    BY <1>3, <2>1, <2>2, <2>3, <2>4 DEF MirrorInv
<1>12. CASE DropStream
  <2>1. stream' = "down" /\ losses' \in 0 .. MaxLosses
        /\ UNCHANGED <<logVars, y, reduced, hydration, fetched, mirror, read, hydrated, fetches>>
    BY <1>2, <1>12 DEF DropStream, PageTyped
  <2>2. PageTyped' /\ MirrorInv'
    BY <1>2, <1>4, <2>1 DEF PageTyped, logVars
  <2>3. QED
    BY <1>3, <2>1, <2>2
<1>13. CASE PushArtifact
  <2> DEFINE e == emitted[read + 1]
  <2>1. /\ read < Len(emitted) /\ read' = read + 1 /\ mirror' = Append(mirror, e)
        /\ UNCHANGED <<logVars, y, reduced, stream, hydrated, losses, fetches>>
    BY <1>13 DEF PushArtifact
  <2>2. hydration' \in {"idle", "asked", "served", "landed", "failed", "aborted"}
        /\ fetched' \in Seq(LoggedArtifacts)
    BY <1>2, <1>13, EffectTyped DEF PushArtifact
  <2>3. /\ read \in Nat /\ read + 1 \in 1..Len(emitted) /\ e \in LoggedArtifacts
        /\ mirror \in Seq(LoggedArtifacts) /\ 1..(read + 1) = 1..read \union {read + 1}
    BY <1>2, <2>1 DEF PageTyped
  <2> HIDE DEF e
  <2>4. PageTyped'
    BY <1>2, <2>1, <2>2, <2>3 DEF PageTyped, logVars
  <2>5. MirrorKeeps'
    <3> SUFFICES ASSUME NEW i \in 1..(read + 1),
                        ~(NaturalKey(emitted[i]) # NoKey /\ NaturalKey(emitted[i]) \in hydrated),
                        ~(NaturalKey(emitted[i]) # NoKey
                           /\ \E j \in (i + 1)..(read + 1) : NaturalKey(emitted[j]) = NaturalKey(emitted[i]))
                 PROVE  LastOfKey(emitted[i], mirror')
      BY <2>1 DEF MirrorKeeps, logVars
    <3>1. CASE i = read + 1
      BY <2>1, <2>3, <3>1, LastAppended DEF e
    <3>2. CASE i \in 1..read
      <4>1. read + 1 \in (i + 1)..(read + 1) /\ \A j \in (i + 1)..read : j \in (i + 1)..(read + 1)
        BY <2>3, <3>2
      <4>2. LastOfKey(emitted[i], mirror)
        BY <1>2, <3>2, <4>1 DEF MirrorKeeps
      <4>3. NaturalKey(emitted[i]) = NoKey \/ NaturalKey(e) # NaturalKey(emitted[i])
        BY <4>1 DEF e
      <4>4. QED
        BY <2>1, <2>3, <4>2, <4>3, LastAppended
    <3>3. QED
      BY <2>3, <3>1, <3>2
  <2> DEFINE m == Len(mirror)
  <2>6. /\ m \in Nat /\ Len(mirror') = m + 1 /\ mirror'[m + 1] = e /\ m + 1 \in 1..(m + 1)
        /\ \A p \in 1..m : p \in 1..(m + 1) /\ mirror'[p] = mirror[p]
        /\ \A p \in 1..(m + 1) : p = m + 1 \/ p \in 1..m
    BY <2>1, <2>3
  <2> HIDE DEF m
  <2>7. MirrorHas'
    <3> SUFFICES ASSUME NEW i \in 1..(read + 1),
                        NaturalKey(emitted[i]) \notin hydrated \union {NoKey}
                 PROVE  \E q \in 1..(m + 1) : NaturalKey(mirror'[q]) = NaturalKey(emitted[i])
      BY <2>1, <2>6 DEF MirrorHas, logVars
    <3>1. CASE i = read + 1
      BY <2>6, <3>1 DEF e
    <3>2. CASE i \in 1..read
      <4>1. \E q \in 1..m : NaturalKey(mirror[q]) = NaturalKey(emitted[i])
        BY <1>2, <3>2 DEF MirrorHas, m
      <4>2. QED
        BY <2>6, <4>1
    <3>3. QED
      BY <2>3, <3>1, <3>2
  <2>8. MirrorOrdered'
    <3> SUFFICES ASSUME NEW p \in 1..(m + 1), NaturalKey(mirror'[p]) \notin hydrated \union {NoKey}
                 PROVE  LET key == NaturalKey(mirror'[p]) IN
                        /\ \E i \in 1..Len(emitted) : NaturalKey(emitted[i]) = key
                        /\ \A j \in 1..Len(emitted) :
                             \/ \E i \in 1..j : NaturalKey(emitted[i]) = key
                             \/ NaturalKey(emitted[j]) \in hydrated \union {NoKey}
                             \/ \E q \in 1..(p - 1) : NaturalKey(mirror'[q]) = NaturalKey(emitted[j])
      BY <2>1, <2>6, SMTT(30) DEF MirrorOrdered, logVars
    <3>1. CASE p = m + 1
      <4>1. NaturalKey(mirror'[p]) = NaturalKey(emitted[read + 1])
        BY <2>6, <3>1 DEF e
      <4>2. ASSUME NEW j \in 1..Len(emitted)
            PROVE  \/ \E i \in 1..j : NaturalKey(emitted[i]) = NaturalKey(mirror'[p])
                   \/ NaturalKey(emitted[j]) \in hydrated \union {NoKey}
                   \/ \E q \in 1..(p - 1) : NaturalKey(mirror'[q]) = NaturalKey(emitted[j])
        <5>1. CASE j \in 1..read
          <6>1. 1..(p - 1) = 1..m
            BY <2>6, <3>1
          <6>2. \/ NaturalKey(emitted[j]) \in hydrated \union {NoKey}
                \/ \E q \in 1..m : NaturalKey(mirror[q]) = NaturalKey(emitted[j])
            BY <1>2, <5>1 DEF MirrorHas, m
          <6>3. QED
            BY <2>6, <6>1, <6>2
        <5>2. CASE j > read
          <6>1. read + 1 \in 1..j
            BY <2>3, <5>2
          <6>2. QED
            BY <4>1, <6>1
        <5>3. QED
          BY <2>3, <5>1, <5>2
      <4>3. QED
        BY <2>3, <4>1, <4>2
    <3>2. CASE p \in 1..m
      <4>1. mirror'[p] = mirror[p] /\ \A q \in 1..(p - 1) : q \in 1..m /\ mirror'[q] = mirror[q]
        BY <2>6, <3>2
      <4>2. QED
        BY <1>2, <3>2, <4>1 DEF MirrorOrdered, m
    <3>3. QED
      BY <2>6, <3>1, <3>2
  <2>9. QED
    BY <1>3, <2>1, <2>4, <2>5, <2>7, <2>8 DEF MirrorInv
<1>14. CASE Reload
  <2>1. /\ losses' \in 0 .. MaxLosses /\ y' = 0 /\ mirror' = <<>> /\ stream' = "gone" /\ read' = 0
        /\ hydration' = "idle" /\ fetched' = <<>> /\ UNCHANGED <<logVars, reduced, fetches>>
    BY <1>2, <1>14 DEF Reload, PageTyped
  <2>2. PageTyped'
    BY <1>2, <2>1 DEF PageTyped, logVars
  <2>3. MirrorInv'
    BY <2>1 DEF MirrorInv, MirrorKeeps, MirrorHas, MirrorOrdered
  <2>4. QED
    BY <1>3, <2>1, <2>2, <2>3
<1>15. QED
  BY <1>1, <1>6, <1>7, <1>8, <1>9, <1>10, <1>11, <1>12, <1>13, <1>14 DEF DashboardNext

LEMMA PageInvariant == DashboardSpec => []PageInv
<1>1. PageInv /\ UNCHANGED <<logVars, pageVars>> => PageInv'
  BY DEF PageInv, LogTyped, PageTyped, MirrorInv, MirrorKeeps, MirrorHas, MirrorOrdered, logVars,
         pageVars
<1>2. QED
  BY <1>1, PageInit, PageStep, PTL DEF DashboardSpec

LEMMA PageTypes == PageInv => DashboardTypeOK
<1> SUFFICES ASSUME PageInv PROVE DashboardTypeOK
  OBVIOUS
<1>1. log.index \in [DOMAIN log.index -> 1 .. RingSize]
  <2>1. CASE pooled
    <3>1. log.index = <<>>
      BY <2>1 DEF PageInv, LogTyped
    <3>2. QED
      BY <3>1
  <2>2. CASE ~pooled
    <3>1. PICK r \in RingRows : log = Ring(r)
      BY <2>2 DEF PageInv, LogTyped, Rings
    <3>2. /\ r \in Seq(LoggedArtifacts) /\ OncePerKey(r) /\ Len(r) <= RingSize /\ Len(r) \in Nat
          /\ log.index = IndexRows(r) /\ RingSize \in Nat
      BY <3>1, LogAssumption DEF Ring, RingRows
    <3>3. ASSUME NEW key \in DOMAIN IndexRows(r) PROVE IndexRows(r)[key] \in 1 .. RingSize
      <4>1. PICK i \in 1..Len(r) : key = NaturalKey(r[i]) /\ key # NoKey
        <5>1. key \in KeysOfRows(r)
          BY <3>2, <3>3, IndexOf
        <5>2. QED
          BY <5>1 DEF KeysOfRows
      <4>2. IndexRows(r)[key] = i
        BY <3>2, <4>1, IndexOf
      <4>3. QED
        BY <3>2, <4>2
    <3>4. IndexRows(r) = [key \in DOMAIN IndexRows(r) |-> IndexRows(r)[key]]
      BY DEF IndexRows
    <3>5. QED
      BY <3>2, <3>3, <3>4
  <2>3. QED
    BY <2>1, <2>2 DEF PageInv, LogTyped
<1>2. log.rows \in Seq(LoggedArtifacts)
  BY RowsListed DEF PageInv
<1>3. QED
  BY <1>1, <1>2 DEF PageInv, LogTyped, PageTyped, DashboardTypeOK

-----------------------------------------------------------------------------
\* The rows of a tab.
RealRow(a, tab) == [of |-> a, chain |-> tab]
RealRows(tab) == {RealRow(a, tab) : a \in {a \in LoggedArtifacts : TabOf(a) = tab}}

LEMMA TabsOf ==
  ASSUME NEW a \in LoggedArtifacts, TabOf(a) # "none"
  PROVE  /\ TabOf(a) \in Tabs /\ NaturalKey(a) # NoKey
         /\ MapArtifactToEvidenceRow(a) = RealRow(a, TabOf(a))
<1>1. a.kind \in Kinds
  BY DEF LoggedArtifacts
<1>2. a.kind \notin {"heartbeat-tick", "heartbeat-decision"}
  BY DEF TabOf
<1>3. NaturalKey(a) # NoKey
  BY <1>2, KeysOf
<1>4. CASE a.kind = "shill-order"
  BY <1>3, <1>4 DEF TabOf, Tabs, MapArtifactToEvidenceRow, EvidenceRow, RealRow
<1>5. CASE a.kind = "x402-tx"
  BY <1>3, <1>5 DEF TabOf, Tabs, MapArtifactToEvidenceRow, EvidenceRow, RealRow
<1>6. CASE a.kind \in {"tweet-url", "shill-tweet"}
  BY <1>3, <1>6 DEF TabOf, Tabs, MapArtifactToEvidenceRow, EvidenceRow, RealRow
<1>7. QED
  BY <1>1, <1>2, <1>4, <1>5, <1>6 DEF Kinds

\* Rows for artifacts among the first i of q: in their order, and none left out unless
\* the rows are full of earlier ones.
RowsOf(rows, tab, q, i) ==
  /\ rows \in Seq(RealRows(tab)) /\ Len(rows) <= TabRows
  /\ \A k \in 1..Len(rows) : \E p \in 1..i : rows[k].of = q[p]
  /\ \A k, l \in 1..Len(rows) : \A p, o \in 1..i :
       k < l /\ rows[k].of = q[p] /\ rows[l].of = q[o] => p < o
  /\ \A p \in 1..i : TabOf(q[p]) = tab =>
       \/ \E k \in 1..Len(rows) : rows[k].of = q[p]
       \/ /\ Len(rows) = TabRows
          /\ \A k \in 1..Len(rows) : \A o \in 1..i : rows[k].of = q[o] => o < p

LEMMA RowIsReal ==
  ASSUME NEW tab \in Tabs, NEW x \in RealRows(tab)
  PROVE  x.of \in LoggedArtifacts /\ TabOf(x.of) = tab /\ x.chain = tab /\ IsReal(x)
BY DEF RealRows, RealRow, IsReal, LoggedArtifacts

LEMMA AddRowTyped ==
  ASSUME NEW tab \in Tabs, NEW rows \in Seq(RealRows(tab)), NEW a \in LoggedArtifacts
  PROVE  AddRow(tab, rows, a) \in Seq(RealRows(tab))
<1>1. CASE Len(rows) < TabRows /\ TabOf(a) = tab
  <2>1. MapArtifactToEvidenceRow(a) \in RealRows(tab)
    BY <1>1, TabsOf DEF RealRows, Tabs
  <2>2. QED
    BY <1>1, <2>1 DEF AddRow
<1>2. CASE ~(Len(rows) < TabRows /\ TabOf(a) = tab)
  BY <1>2 DEF AddRow
<1>3. QED
  BY <1>1, <1>2

LEMMA AddRowShows ==
  ASSUME NEW tab \in Tabs, NEW q \in Seq(LoggedArtifacts), OncePerKey(q),
         NEW i \in Nat, i + 1 \in 1..Len(q), NEW rows, RowsOf(rows, tab, q, i)
  PROVE  RowsOf(AddRow(tab, rows, q[i + 1]), tab, q, i + 1)
<1> DEFINE h == i + 1  a == q[h]  n == Len(rows)
<1>1. /\ a \in LoggedArtifacts /\ h \in Nat /\ h \in 1..Len(q) /\ h \in 1..h
      /\ \A p \in 1..i : p \in 1..h /\ p \in 1..Len(q) /\ p < h /\ p # h
      /\ \A p \in 1..h : p = h \/ p \in 1..i
  OBVIOUS
<1>2. /\ rows \in Seq(RealRows(tab)) /\ n \in Nat /\ n <= TabRows /\ TabRows \in Nat
      /\ \A l \in 1..n : rows[l].of \in LoggedArtifacts /\ TabOf(rows[l].of) = tab
      /\ \A k \in 1..n : \E p \in 1..i : rows[k].of = q[p]
      /\ \A k, l \in 1..n : \A p, o \in 1..i :
           k < l /\ rows[k].of = q[p] /\ rows[l].of = q[o] => p < o
      /\ \A p \in 1..i : TabOf(q[p]) = tab =>
           \/ \E k \in 1..n : rows[k].of = q[p]
           \/ n = TabRows /\ \A k \in 1..n : \A o \in 1..i : rows[k].of = q[o] => o < p
  <2>1. rows \in Seq(RealRows(tab)) /\ n <= TabRows
    BY DEF RowsOf
  <2>2. \A l \in 1..n : rows[l] \in RealRows(tab)
    BY <2>1
  <2>3. \A l \in 1..n : rows[l].of \in LoggedArtifacts /\ TabOf(rows[l].of) = tab
    BY <2>2, RowIsReal
  <2>4. n \in Nat /\ TabRows \in Nat
    BY <2>1, DashboardAssumption
  <2>5. QED
    BY <2>1, <2>3, <2>4 DEF RowsOf
<1> HIDE DEF h, a, n
\* A row's artifact is at one place of q, before the one that is added.
<1>3. \A k \in 1..n : \A o \in 1..h : rows[k].of = q[o] => o \in 1..i
  <2> SUFFICES ASSUME NEW k \in 1..n, rows[k].of = a PROVE FALSE
    BY <1>1 DEF a
  <2>1. PICK p \in 1..i : a = q[p]
    BY <1>2
  <2>2. TabOf(a) # "none"
    BY <1>2 DEF Tabs
  <2>3. NaturalKey(a) # NoKey
    BY <1>1, <2>2, TabsOf
  <2>4. QED
    BY <1>1, <2>1, <2>3 DEF OncePerKey, a
<1>4. ASSUME TabOf(a) # tab \/ n >= TabRows PROVE RowsOf(rows, tab, q, h)
  <2>1. \A k \in 1..n : \E p \in 1..h : rows[k].of = q[p]
    BY <1>1, <1>2
  <2>2. \A k, l \in 1..n : \A p, o \in 1..h :
          k < l /\ rows[k].of = q[p] /\ rows[l].of = q[o] => p < o
    BY <1>2, <1>3
  <2>3. ASSUME NEW p \in 1..h, TabOf(q[p]) = tab
        PROVE  \/ \E k \in 1..n : rows[k].of = q[p]
               \/ n = TabRows /\ \A k \in 1..n : \A o \in 1..h : rows[k].of = q[o] => o < p
    <3>1. CASE p \in 1..i
      BY <1>2, <1>3, <2>3, <3>1
    <3>2. CASE p = h
      <4>1. n = TabRows
        BY <1>2, <1>4, <2>3, <3>2 DEF a
      <4>2. QED
        BY <1>1, <1>3, <3>2, <4>1
    <3>3. QED
      BY <1>1, <3>1, <3>2
  <2>4. QED
    BY <1>2, <2>1, <2>2, <2>3 DEF RowsOf, n
<1>5. CASE TabOf(a) # tab \/ n >= TabRows
  <2>1. AddRow(tab, rows, a) = rows
    BY <1>2, <1>5 DEF AddRow, n
  <2>2. QED
    BY <1>4, <1>5, <2>1 DEF a, h
<1>6. CASE TabOf(a) = tab /\ n < TabRows
  <2> DEFINE s == Append(rows, MapArtifactToEvidenceRow(a))
  <2>1. MapArtifactToEvidenceRow(a) = RealRow(a, tab)
    BY <1>1, <1>6, TabsOf DEF Tabs
  <2>2. AddRow(tab, rows, a) = s
    BY <1>6 DEF AddRow, n
  <2>3. RealRow(a, tab) \in RealRows(tab) /\ RealRow(a, tab).of = a
    BY <1>1, <1>6 DEF RealRows, RealRow
  <2>4. /\ s \in Seq(RealRows(tab)) /\ Len(s) = n + 1 /\ s[n + 1].of = a
        /\ \A l \in 1..n : s[l] = rows[l]
    BY <1>2, <2>1, <2>3 DEF n
  <2> HIDE DEF s
  <2>5. /\ n + 1 \in 1..(n + 1) /\ \A l \in 1..n : l \in 1..(n + 1)
        /\ \A l \in 1..(n + 1) : l = n + 1 \/ l \in 1..n
        /\ \A l \in 1..(n + 1) : ~(n + 1 < l)
        /\ n + 1 <= TabRows
    BY <1>2, <1>6
  <2>6. \A k \in 1..(n + 1) : \E p \in 1..h : s[k].of = q[p]
    BY <1>1, <1>2, <2>4, <2>5 DEF a
  <2>7. ASSUME NEW k \in 1..(n + 1), NEW l \in 1..(n + 1), NEW p \in 1..h, NEW o \in 1..h,
               k < l, s[k].of = q[p], s[l].of = q[o]
        PROVE  p < o
    <3>1. k \in 1..n /\ rows[k].of = q[p] /\ p \in 1..i
      <4>1. k \in 1..n
        BY <2>5, <2>7
      <4>2. QED
        BY <1>3, <2>4, <2>7, <4>1
    <3>2. CASE l \in 1..n
      <4>1. rows[l].of = q[o] /\ o \in 1..i
        BY <1>3, <2>4, <2>7, <3>2
      <4>2. QED
        BY <1>2, <2>7, <3>1, <3>2, <4>1
    <3>3. CASE l = n + 1
      <4>1. q[o] = a
        BY <2>4, <2>7, <3>3
      <4>2. o = h
        <5>1. NaturalKey(a) # NoKey
          BY <1>1, <1>6, TabsOf DEF Tabs
        <5>2. o \in 1..Len(q)
          BY <1>1
        <5>3. QED
          BY <1>1, <4>1, <5>1, <5>2 DEF OncePerKey, a
      <4>3. QED
        BY <1>1, <3>1, <4>2
    <3>4. QED
      BY <2>5, <3>2, <3>3
  <2>8. ASSUME NEW p \in 1..h, TabOf(q[p]) = tab
        PROVE  \E k \in 1..(n + 1) : s[k].of = q[p]
    <3>1. CASE p = h
      BY <2>4, <2>5, <3>1 DEF a
    <3>2. CASE p \in 1..i
      <4>1. PICK k \in 1..n : rows[k].of = q[p]
        BY <1>2, <1>6, <2>8, <3>2
      <4>2. QED
        BY <2>4, <2>5, <4>1
    <3>3. QED
      BY <1>1, <3>1, <3>2
  <2>9. RowsOf(s, tab, q, h)
    BY <2>4, <2>5, <2>6, <2>7, <2>8 DEF RowsOf
  <2>10. QED
    BY <2>2, <2>9 DEF a, h
<1>7. QED
  BY <1>2, <1>5, <1>6

LEMMA RealRowsOf ==
  ASSUME NEW tab \in Tabs, NEW artifacts, NEW q \in Seq(LoggedArtifacts), q = Reverse(artifacts),
         OncePerKey(q)
  PROVE  RowsOf(RealRowsForTab(tab, artifacts), tab, q, Len(q))
<1> DEFINE T == Seq(RealRows(tab))
           st == [p \in T \X LoggedArtifacts |-> AddRow(tab, p[1], p[2])]
           b == <<>>
<1>1. st \in [T \X LoggedArtifacts -> T] /\ b \in T
  BY AddRowTyped
<1>2. PICK n \in Nat : n = Len(q) /\ DOMAIN q = 1..n /\ q \in [1..n -> LoggedArtifacts]
  BY LenProperties
<1> HIDE DEF st, b, T
<1>3. PICK g : Iterates(g, T, b, st, n, q)
  BY <1>1, <1>2, FoldIter
<1> DEFINE Unfolds(f) ==
             f = [s \in SUBSET (1..n) |->
                    IF s = {} THEN b ELSE AddRow(tab, f[s \ {Top(s)}], q[Top(s)])]
<1>4. Unfolds(g) /\ g \in [SUBSET (1..n) -> T]
  <2>1. ASSUME NEW s \in SUBSET (1..n), s # {}
        PROVE  g[s] = AddRow(tab, g[s \ {Top(s)}], q[Top(s)])
    <3>1. Top(s) \in 1..n
      BY <2>1, TopIn
    <3>2. g[s \ {Top(s)}] \in T /\ q[Top(s)] \in LoggedArtifacts
      BY <1>2, <1>3, <3>1 DEF Iterates
    <3>3. QED
      BY <1>3, <2>1, <3>2 DEF st, Iterates
  <2>2. QED
    BY <1>3, <2>1 DEF Iterates
<1> DEFINE f == CHOOSE f : Unfolds(f)
<1>5. Unfolds(f)
  BY <1>4, Zenon
<1>6. RealRowsForTab(tab, artifacts) = f[1..n]
  BY <1>2, Zenon DEF RealRowsForTab, FoldLeft, MapThenFoldSet, Top, Max, b
<1> HIDE DEF f
<1> DEFINE P == {i \in 0..n : RowsOf(f[1..i], tab, q, i)}
<1>7. 0 \in P
  <2>1. 1..0 = {} /\ Len(<<>>) = 0
    OBVIOUS
  <2>2. f[1..0] = <<>>
    BY <1>2, <1>5, <2>1 DEF b
  <2>3. RowsOf(<<>>, tab, q, 0)
    BY <2>1, DashboardAssumption DEF RowsOf
  <2>4. QED
    BY <1>2, <2>2, <2>3
<1>8. ASSUME NEW i \in 0..(n - 1), i \in P PROVE i + 1 \in P
  <2>1. /\ i + 1 \in 1..n /\ i + 1 \in Nat \ {0} /\ (i + 1) - 1 = i /\ i + 1 \in 0..n /\ i \in Nat
        /\ i + 1 \in 1..Len(q)
    BY <1>2
  <2>2. Top(1..(i + 1)) = i + 1 /\ 1..(i + 1) # {} /\ (1..(i + 1)) \ {i + 1} = 1..i
        /\ 1..(i + 1) \in SUBSET (1..n)
    BY <2>1, TopOfInterval, SMTT(30)
  <2>3. f[1..(i + 1)] = AddRow(tab, f[1..i], q[i + 1])
    BY <1>5, <2>2
  <2>4. RowsOf(f[1..i], tab, q, i)
    BY <1>8
  <2>5. RowsOf(AddRow(tab, f[1..i], q[i + 1]), tab, q, i + 1)
    BY <2>1, <2>4, AddRowShows
  <2>6. QED
    BY <2>1, <2>3, <2>5
<1> HIDE DEF P
<1>9. 0..n \subseteq P
  BY <1>2, <1>7, <1>8, BoundedInduction
<1>10. QED
  BY <1>2, <1>6, <1>9 DEF P

RecordedRows(tab) == {EvidenceRow(Recorded(i), tab) : i \in Nat}

LEMMA RecordedOf ==
  ASSUME NEW tab \in Tabs, NEW n \in Nat
  PROVE  /\ FirstRows(FallbackOnchainTabs(tab), n) \in Seq(RecordedRows(tab))
         /\ Len(FirstRows(FallbackOnchainTabs(tab), n)) <= n
<1> DEFINE recorded == CASE tab = "BNB" -> 4 [] tab = "BASE" -> 2 [] OTHER -> 1
           all == FallbackOnchainTabs(tab)
           last == IF Len(all) > n THEN n ELSE Len(all)
<1>1. recorded \in Nat
  BY DEF Tabs
<1>2. all = [i \in 1 .. recorded |-> EvidenceRow(Recorded(i), tab)]
  BY DEF FallbackOnchainTabs
<1> HIDE DEF recorded, all
<1>3. all \in [1..recorded -> RecordedRows(tab)]
  <2>1. ASSUME NEW i \in 1..recorded PROVE EvidenceRow(Recorded(i), tab) \in RecordedRows(tab)
    <3>1. i \in Nat
      BY <1>1
    <3>2. QED
      BY <3>1, Zenon DEF RecordedRows
  <2>2. QED
    BY <1>2, <2>1
<1>4. all \in Seq(RecordedRows(tab)) /\ Len(all) = recorded
  BY <1>1, <1>3, SeqOfFcn
<1>5. last \in Nat /\ last <= Len(all) /\ last <= n
  BY <1>1, <1>4
<1> HIDE DEF last
<1>6. \A i \in 1..last : all[i] \in RecordedRows(tab)
  BY <1>1, <1>4, <1>5
<1>7. SubSeq(all, 1, last) \in Seq(RecordedRows(tab)) /\ Len(SubSeq(all, 1, last)) = last
  BY <1>5, <1>6, SubSeqProperties
<1>8. QED
  BY <1>5, <1>7 DEF FirstRows, last, all

LEMMA RecordedAre ==
  ASSUME NEW tab \in Tabs, NEW x \in RecordedRows(tab)
  PROVE  x.chain = tab /\ ~IsReal(x)
BY DEF RecordedRows, EvidenceRow, Recorded, IsReal, Kinds

\* A tab lists what the drawer has for it, from the last slot to the first and before
\* what was recorded, as far as there is room.
TabListed(t, tab, merged) ==
  /\ Len(t) <= TabRows /\ DOMAIN t = 1..Len(t) /\ \A k \in DOMAIN t : t[k].chain = tab
  /\ \A k \in DOMAIN t : IsReal(t[k]) =>
       \E m \in 1..Len(merged) : t[k].of = merged[m] /\ TabOf(merged[m]) = tab
  /\ \A k, l \in DOMAIN t : k < l /\ IsReal(t[l]) =>
       /\ IsReal(t[k])
       /\ \A m, o \in 1..Len(merged) : t[k].of = merged[m] /\ t[l].of = merged[o] => o < m
  /\ \A m \in 1..Len(merged) : TabOf(merged[m]) = tab =>
       \/ \E k \in DOMAIN t : t[k].of = merged[m]
       \/ /\ Len(t) = TabRows
          /\ \A k \in DOMAIN t :
               IsReal(t[k]) /\ \A o \in 1..Len(merged) : t[k].of = merged[o] => m < o

LEMMA TabLists ==
  ASSUME NEW tab \in Tabs, MergedArtifacts \in Drawers
  PROVE  TabListed(RowsForTab(tab), tab, MergedArtifacts)
<1> DEFINE merged == MergedArtifacts  q == Reverse(merged)
           real == RealRowsForTab(tab, merged)
           rest == FirstRows(FallbackOnchainTabs(tab), TabRows - Len(real))
           t == real \o rest  n == Len(real)  d == Len(rest)  z == Len(merged)
           S == RealRows(tab) \union RecordedRows(tab)
<1>1. /\ merged \in Seq(LoggedArtifacts) /\ OncePerKey(merged) /\ z \in Nat
  BY DEF Drawers
<1>2. /\ q \in Seq(LoggedArtifacts) /\ Len(q) = z
      /\ \A i \in 1..z : q[i] = merged[z - i + 1] /\ z - i + 1 \in 1..z
  BY <1>1, ReverseOf
<1> HIDE DEF merged, q, z
<1>3. /\ \A m \in 1..z : z - m + 1 \in 1..z /\ q[z - m + 1] = merged[m]
      /\ \A m, o \in 1..z : z - m + 1 < z - o + 1 => o < m
      /\ \A m, o \in 1..z : z - m + 1 = z - o + 1 => m = o
  <2>1. \A m \in 1..z : z - m + 1 \in 1..z /\ z - (z - m + 1) + 1 = m
    BY <1>1
  <2>2. \A m \in 1..z : q[z - m + 1] = merged[m]
    <3> SUFFICES ASSUME NEW m \in 1..z PROVE q[z - m + 1] = merged[m]
      OBVIOUS
    <3> DEFINE i == z - m + 1
    <3>1. i \in 1..z /\ z - i + 1 = m
      BY <2>1
    <3> HIDE DEF i
    <3>2. q[i] = merged[m]
      BY <1>2, <3>1
    <3>3. QED
      BY <3>2 DEF i
  <2>3. \A m, o \in 1..z : /\ z - m + 1 < z - o + 1 => o < m
                           /\ z - m + 1 = z - o + 1 => m = o
    BY <1>1
  <2>4. QED
    BY <2>1, <2>2, <2>3
<1>4. OncePerKey(q)
  <2> SUFFICES ASSUME NEW i \in 1..z, NEW j \in 1..z,
                      NaturalKey(q[i]) = NaturalKey(q[j]), NaturalKey(q[i]) # NoKey
               PROVE  i = j
    BY <1>2 DEF OncePerKey
  <2>1. z - i + 1 = z - j + 1
    <3> DEFINE a == z - i + 1  b == z - j + 1
    <3>1. /\ a \in 1..z /\ b \in 1..z /\ merged[a] = q[i] /\ merged[b] = q[j]
      BY <1>2
    <3> HIDE DEF a, b
    <3>2. a = b
      BY <1>1, <3>1 DEF OncePerKey, z
    <3>3. QED
      BY <3>2 DEF a, b
  <2>2. QED
    BY <1>1, <2>1
<1>5. RowsOf(real, tab, q, Len(q))
  BY <1>2, <1>4, RealRowsOf DEF q
<1> HIDE DEF real
<1>6. /\ real \in Seq(RealRows(tab)) /\ n \in Nat /\ TabRows - n \in Nat /\ TabRows \in Nat
      /\ \A k \in 1..n : \E p \in 1..z : real[k].of = q[p]
      /\ \A k, l \in 1..n : \A p, o \in 1..z :
           k < l /\ real[k].of = q[p] /\ real[l].of = q[o] => p < o
      /\ \A p \in 1..z : TabOf(q[p]) = tab =>
           \/ \E k \in 1..n : real[k].of = q[p]
           \/ n = TabRows /\ \A k \in 1..n : \A o \in 1..z : real[k].of = q[o] => o < p
  BY <1>2, <1>5, DashboardAssumption DEF RowsOf
<1>7. rest \in Seq(RecordedRows(tab)) /\ d \in Nat /\ d <= TabRows - n
  <2> DEFINE room == TabRows - n  first == FirstRows(FallbackOnchainTabs(tab), room)
  <2>1. room \in Nat
    BY <1>6
  <2> HIDE DEF room, n, rest
  <2>2. first \in Seq(RecordedRows(tab)) /\ Len(first) <= room
    BY <2>1, RecordedOf
  <2>3. rest = first
    BY DEF rest, n, room
  <2> HIDE DEF first
  <2>4. rest \in Seq(RecordedRows(tab)) /\ Len(rest) <= room /\ Len(rest) \in Nat
    BY <2>2, <2>3
  <2>5. QED
    BY <2>4 DEF room
<1> HIDE DEF rest
<1>8. /\ Len(t) = n + d /\ DOMAIN t = 1..(n + d)
      /\ \A i \in 1..n : t[i] = real[i]
      /\ \A i \in (n + 1)..(n + d) : t[i] = rest[i - n]
  <2>1. real \in Seq(S) /\ rest \in Seq(S)
    BY <1>6, <1>7
  <2>2. t \in Seq(S)
    BY <2>1
  <2> HIDE DEF S
  <2>3. /\ Len(t) = n + d
        /\ \A i \in 1..n : t[i] = real[i]
        /\ \A i \in (n + 1)..(n + d) : t[i] = rest[i - n]
    BY <2>1, Joined
  <2>4. DOMAIN t = 1..Len(t)
    BY <2>2
  <2>5. QED
    BY <2>3, <2>4
<1> HIDE DEF t, n, d
<1>9. \A i \in 1..n : /\ t[i].chain = tab /\ IsReal(t[i]) /\ TabOf(t[i].of) = tab
                      /\ i \in DOMAIN t /\ t[i].of = real[i].of
  <2>1. \A i \in 1..n : real[i] \in RealRows(tab)
    BY <1>6 DEF n
  <2>2. \A i \in 1..n : i \in 1..(n + d)
    BY <1>6, <1>7
  <2>3. QED
    BY <1>8, <2>1, <2>2, RowIsReal
<1>10. \A i \in (n + 1)..(n + d) : t[i].chain = tab /\ ~IsReal(t[i])
  <2>1. \A i \in 1..d : rest[i] \in RecordedRows(tab)
    BY <1>7 DEF d
  <2>2. \A i \in (n + 1)..(n + d) : i - n \in 1..d
    BY <1>6, <1>7
  <2>3. QED
    BY <1>8, <2>1, <2>2, RecordedAre
<1>11. \A k \in DOMAIN t : k \in 1..n \/ k \in (n + 1)..(n + d)
  BY <1>6, <1>7, <1>8
<1>12. \A k \in DOMAIN t : IsReal(t[k]) <=> k \in 1..n
  BY <1>9, <1>10, <1>11
<1>13. Len(t) <= TabRows /\ DOMAIN t = 1..Len(t) /\ \A k \in DOMAIN t : t[k].chain = tab
  <2>1. Len(t) <= TabRows
    BY <1>6, <1>7, <1>8
  <2>2. QED
    BY <1>8, <1>9, <1>10, <1>11, <2>1
<1>14. ASSUME NEW k \in DOMAIN t, IsReal(t[k])
       PROVE  \E m \in 1..z : t[k].of = merged[m] /\ TabOf(merged[m]) = tab
  <2>1. k \in 1..n
    BY <1>12, <1>14
  <2>2. PICK p \in 1..z : t[k].of = q[p]
    BY <1>6, <1>9, <2>1
  <2>3. z - p + 1 \in 1..z /\ q[p] = merged[z - p + 1]
    BY <1>2
  <2>4. QED
    BY <1>9, <2>1, <2>2, <2>3
<1>15. ASSUME NEW k \in DOMAIN t, NEW l \in DOMAIN t, k < l, IsReal(t[l])
       PROVE  /\ IsReal(t[k])
              /\ \A m, o \in 1..z : t[k].of = merged[m] /\ t[l].of = merged[o] => o < m
  <2>1. l \in 1..n /\ k \in 1..n
    BY <1>6, <1>8, <1>12, <1>15
  <2>2. ASSUME NEW m \in 1..z, NEW o \in 1..z, t[k].of = merged[m], t[l].of = merged[o] PROVE o < m
    <3>1. /\ z - m + 1 \in 1..z /\ z - o + 1 \in 1..z
          /\ real[k].of = q[z - m + 1] /\ real[l].of = q[z - o + 1]
      BY <1>3, <1>9, <2>1, <2>2
    <3> DEFINE a == z - m + 1  b == z - o + 1
    <3>2. a < b
      <4>1. /\ a \in 1..z /\ b \in 1..z /\ real[k].of = q[a] /\ real[l].of = q[b]
        BY <3>1
      <4> HIDE DEF a, b
      <4>2. QED
        BY <1>6, <1>15, <2>1, <4>1
    <3>3. QED
      BY <1>3, <3>2
  <2>3. QED
    BY <1>12, <2>1, <2>2
<1>16. ASSUME NEW m \in 1..z, TabOf(merged[m]) = tab
       PROVE  \/ \E k \in DOMAIN t : t[k].of = merged[m]
              \/ /\ Len(t) = TabRows
                 /\ \A k \in DOMAIN t : IsReal(t[k]) /\ \A o \in 1..z : t[k].of = merged[o] => m < o
  <2> DEFINE p == z - m + 1
  <2>1. p \in 1..z /\ q[p] = merged[m]
    BY <1>3
  <2>2. CASE \E k \in 1..n : real[k].of = q[p]
    BY <1>9, <2>1, <2>2
  <2>3. CASE n = TabRows /\ \A k \in 1..n : \A o \in 1..z : real[k].of = q[o] => o < p
    <3>1. d = 0
      BY <1>6, <1>7, <2>3
    <3>2. Len(t) = TabRows /\ DOMAIN t = 1..n
      BY <1>6, <1>8, <2>3, <3>1
    <3>3. ASSUME NEW k \in 1..n, NEW o \in 1..z, t[k].of = merged[o] PROVE m < o
      <4>1. z - o + 1 \in 1..z /\ real[k].of = q[z - o + 1]
        BY <1>3, <1>9, <3>3
      <4>2. z - o + 1 < p
        BY <2>3, <4>1
      <4>3. QED
        BY <1>3, <4>2
    <3>4. QED
      BY <1>12, <3>2, <3>3
  <2> HIDE DEF p
  <2>4. QED
    BY <1>6, <1>16, <2>1, <2>2, <2>3
<1>17. TabListed(t, tab, merged)
  BY <1>13, <1>14, <1>15, <1>16 DEF TabListed, z
<1>18. t = RowsForTab(tab)
  BY DEF RowsForTab, t, rest, real, merged
<1>19. QED
  BY <1>17, <1>18 DEF merged

LEMMA FirstIs ==
  ASSUME emitted \in Seq(LoggedArtifacts), NEW key, \E i \in 1..Len(emitted) : NaturalKey(emitted[i]) = key
  PROVE  /\ FirstShown(key) \in 1..Len(emitted) /\ NaturalKey(emitted[FirstShown(key)]) = key
         /\ \A j \in 1..Len(emitted) : NaturalKey(emitted[j]) = key => FirstShown(key) <= j
<1> DEFINE T == PositionsOf(emitted, key)
<1>1. T = {i \in 1..Len(emitted) : NaturalKey(emitted[i]) = key}
  BY DEF PositionsOf
<1>2. T \subseteq Nat /\ T # {}
  BY <1>1
<1> HIDE DEF T
<1>3. PICK x \in T : \A j \in T : ~(<<j, x>> \in LessThan)
  BY <1>2, WFMin, LessThanWF
<1>4. ASSUME NEW j \in T PROVE x <= j
  <2>1. ~(<<j, x>> \in LessThan) /\ j \in Nat /\ x \in Nat
    BY <1>2, <1>3
  <2>2. LessThan = {p \in Nat \X Nat : p[1] < p[2]}
    BY DEF LessThan
  <2>3. j < x => <<j, x>> \in LessThan
    BY <2>1, <2>2
  <2>4. QED
    BY <2>1, <2>3
<1>5. FirstShown(key) \in T /\ \A j \in T : FirstShown(key) <= j
  <2>1. FirstShown(key) = CHOOSE i \in T : \A j \in T : i <= j
    BY DEF FirstShown, T
  <2>2. QED
    BY <1>4, <2>1
<1>6. QED
  BY <1>1, <1>5

\* The slots of the drawer are in the order in which the run showed their keys.
LEMMA SlotsOfTheRun ==
  ASSUME emitted \in Seq(LoggedArtifacts), mirror \in Seq(LoggedArtifacts), MirrorOrdered,
         NEW out \in Drawers, Slots(out, mirror, Len(mirror)),
         NEW s \in 1..Len(out), NEW t \in 1..Len(out), s < t,
         NaturalKey(out[s]) # NoKey, Live(out[s]), NaturalKey(out[t]) # NoKey, Live(out[t])
  PROVE  After(out[t], out[s])
<1> DEFINE ks == NaturalKey(out[s])  kt == NaturalKey(out[t])
<1>1. ks \notin hydrated \union {NoKey} /\ kt \notin hydrated \union {NoKey}
  BY DEF Live
<1>2. PICK p \in 1..Len(mirror) :
        NaturalKey(mirror[p]) = ks /\ \A o \in 1..p : NaturalKey(mirror[o]) # kt
  BY DEF Slots
<1>3. PICK r \in 1..Len(mirror) : NaturalKey(mirror[r]) = kt
  BY DEF Slots
<1> HIDE DEF ks, kt
<1>4. /\ \E i \in 1..Len(emitted) : NaturalKey(emitted[i]) = ks
      /\ \E i \in 1..Len(emitted) : NaturalKey(emitted[i]) = kt
  BY <1>1, <1>2, <1>3 DEF MirrorOrdered
<1> DEFINE fs == FirstShown(ks)  ft == FirstShown(kt)
<1>5. /\ fs \in 1..Len(emitted) /\ NaturalKey(emitted[fs]) = ks
      /\ \A j \in 1..Len(emitted) : NaturalKey(emitted[j]) = ks => fs <= j
  BY <1>4, FirstIs
<1>6. ft \in 1..Len(emitted) /\ NaturalKey(emitted[ft]) = kt
  BY <1>4, FirstIs
<1> HIDE DEF fs, ft
<1>7. \/ \E i \in 1..ft : NaturalKey(emitted[i]) = ks
      \/ \E o \in 1..(p - 1) : NaturalKey(mirror[o]) = kt
  BY <1>1, <1>2, <1>6 DEF MirrorOrdered
<1>8. \A o \in 1..(p - 1) : o \in 1..p
  BY <1>2
<1>9. PICK i \in 1..ft : NaturalKey(emitted[i]) = ks
  BY <1>2, <1>7, <1>8
<1>10. i \in 1..Len(emitted) /\ i <= ft
  BY <1>6, <1>9
<1>11. fs <= ft
  BY <1>5, <1>6, <1>9, <1>10
<1>12. ks # kt
  <2>1. p \in 1..p
    BY <1>2
  <2>2. QED
    BY <1>2, <2>1
<1>13. fs < ft
  BY <1>5, <1>6, <1>11, <1>12
<1>14. QED
  BY <1>5, <1>6, <1>13 DEF After, fs, ft, ks, kt

LEMMA NewestShown == PageInv => ShownNewest
<1> SUFFICES ASSUME PageInv PROVE ShownNewest
  OBVIOUS
<1> DEFINE merged == MergedArtifacts
<1>1. /\ mirror \in Seq(LoggedArtifacts) /\ MirrorKeeps /\ MirrorOrdered
      /\ emitted \in Seq(LoggedArtifacts) /\ Len(emitted) \in Nat /\ DOMAIN emitted = 1..Len(emitted)
  BY DEF PageInv, PageTyped, LogTyped, MirrorInv
<1>2. /\ merged \in Drawers /\ Slots(merged, mirror, Len(mirror))
      /\ \A a : LastOfKey(a, mirror) => \E k \in 1..Len(merged) : merged[k] = a
  BY <1>1, Deduped DEF MergedArtifacts
<1>3. \A s, t \in 1..Len(merged) :
        /\ s < t /\ NaturalKey(merged[s]) # NoKey /\ Live(merged[s])
        /\ NaturalKey(merged[t]) # NoKey /\ Live(merged[t])
        => After(merged[t], merged[s])
  <2> HIDE DEF merged
  <2>1. QED
    BY <1>1, <1>2, SlotsOfTheRun
<1>4. ASSUME CaughtUp, NEW i \in 1..Len(emitted), Newest(i), Live(emitted[i])
      PROVE  \E k \in 1..Len(merged) : merged[k] = emitted[i]
  <2>1. LastOfKey(emitted[i], mirror)
    BY <1>1, <1>4 DEF MirrorKeeps, CaughtUp, Newest, Live
  <2>2. QED
    BY <1>2, <2>1
<1>5. merged \in Seq(LoggedArtifacts) /\ OncePerKey(merged) /\ DOMAIN merged = 1..Len(merged)
  BY <1>2 DEF Drawers
<1>6. DrawerShows
  <2> DEFINE rows == ArtifactsTab
  <2>1. DOMAIN rows = 1..Len(merged) /\ \A k \in 1..Len(merged) : rows[k].of = merged[k]
    <3>1. \A a : MapArtifactToFooterRow(a).of = a
      BY DEF MapArtifactToFooterRow, EvidenceRow
    <3>2. QED
      BY <1>5, <3>1 DEF ArtifactsTab
  <2> HIDE DEF rows, merged
  <2>2. \A k, l \in DOMAIN rows :
          k < l /\ NaturalKey(rows[k].of) = NaturalKey(rows[l].of) => NaturalKey(rows[k].of) = NoKey
    BY <1>5, <2>1 DEF OncePerKey
  <2>3. CaughtUp => \A i \in DOMAIN emitted : Newest(i) /\ Live(emitted[i]) =>
                      \E k \in DOMAIN rows : rows[k].of = emitted[i]
    BY <1>1, <1>4, <2>1
  <2>4. QED
    BY <2>2, <2>3 DEF DrawerShows, rows
<1>7. ASSUME NEW tab \in Tabs PROVE TabShows(tab)
  <2> DEFINE rows == RowsForTab(tab)
  <2>1. TabListed(rows, tab, merged)
    BY <1>2, TabLists
  <2> HIDE DEF rows, merged
  <2>2. \A m \in 1..Len(merged) : TabOf(merged[m]) = tab => NaturalKey(merged[m]) # NoKey
    <3>1. \A m \in 1..Len(merged) : merged[m] \in LoggedArtifacts
      BY <1>5
    <3>2. tab # "none"
      BY DEF Tabs
    <3>3. QED
      BY <3>1, <3>2, TabsOf
  <2>3. ASSUME NEW k \in DOMAIN rows, NEW l \in DOMAIN rows, k < l, IsReal(rows[l])
        PROVE  IsReal(rows[k]) /\ (Live(rows[k].of) /\ Live(rows[l].of) => After(rows[k].of, rows[l].of))
    <3>1. IsReal(rows[k])
      BY <2>1, <2>3 DEF TabListed
    <3>2. PICK m \in 1..Len(merged) : rows[k].of = merged[m] /\ TabOf(merged[m]) = tab
      BY <2>1, <3>1 DEF TabListed
    <3>3. PICK o \in 1..Len(merged) : rows[l].of = merged[o] /\ TabOf(merged[o]) = tab
      BY <2>1, <2>3 DEF TabListed
    <3>4. o < m
      BY <2>1, <2>3, <3>2, <3>3 DEF TabListed
    <3>5. QED
      BY <1>3, <2>2, <3>1, <3>2, <3>3, <3>4
  <2>4. ASSUME CaughtUp, NEW i \in DOMAIN emitted, Newest(i), Live(emitted[i]), TabOf(emitted[i]) = tab
        PROVE  \/ \E k \in DOMAIN rows : rows[k].of = emitted[i]
               \/ /\ Len(rows) = TabRows
                  /\ \A k \in DOMAIN rows :
                       IsReal(rows[k]) /\ (Live(rows[k].of) => After(rows[k].of, emitted[i]))
    <3>1. PICK m \in 1..Len(merged) : merged[m] = emitted[i]
      BY <1>1, <1>4, <2>4
    <3>2. CASE \E k \in DOMAIN rows : rows[k].of = merged[m]
      BY <3>1, <3>2
    <3>3. CASE /\ Len(rows) = TabRows
               /\ \A k \in DOMAIN rows :
                    IsReal(rows[k]) /\ \A o \in 1..Len(merged) : rows[k].of = merged[o] => m < o
      <4>1. ASSUME NEW k \in DOMAIN rows, Live(rows[k].of) PROVE After(rows[k].of, emitted[i])
        <5>1. PICK o \in 1..Len(merged) : rows[k].of = merged[o] /\ TabOf(merged[o]) = tab
          BY <2>1, <3>3 DEF TabListed
        <5>2. m < o
          BY <3>3, <5>1
        <5>3. QED
          BY <1>3, <2>2, <2>4, <3>1, <4>1, <5>1, <5>2
      <4>2. QED
        BY <3>3, <4>1
    <3>4. QED
      BY <2>1, <2>4, <3>1, <3>2, <3>3 DEF TabListed
  <2>5. QED
    BY <2>1, <2>3, <2>4 DEF TabShows, TabListed, rows
<1>8. QED
  BY <1>6, <1>7 DEF ShownNewest

\* The state of the log and of the page is of the declared types.
THEOREM DashboardTypeCorrect == DashboardSpec => []DashboardTypeOK
BY PageInvariant, PageTypes, PTL

\* Through replays, reconnections and hydrations, which repeat and overtake what the
\* mirror holds (dedupeArtifacts in useRunStateContext.tsx, rowsForTab and the fetch in
\* ch12-evidence.tsx), a page that is up to date has the newest version of every
\* artifact in its drawer, and in a tab the artifacts whose keys the run showed last, for
\* any number of orders, rows of a tab and rows of the fetch.
THEOREM PageShowsTheNewest == DashboardSpec => []ShownNewest
BY PageInvariant, NewestShown, PTL

-----------------------------------------------------------------------------
\* The parts share no variable: a behaviour of the whole is one of each part.
LEMMA Parts ==
  Spec => ChatSpec /\ LogSpec /\ DashboardSpec /\ AgentSpec /\ TweetSpec
<1>1. Init => ChatInit /\ LogInit /\ DashboardInit /\ AgentInit /\ TweetInit
  BY DEF Init, DashboardInit
<1>2. [Next]_allVars => /\ [ChatNext]_chatVars /\ [LogNext]_logVars
                        /\ [DashboardNext]_<<logVars, pageVars>>
                        /\ [AgentNext]_agentVars /\ [TweetNext]_tweetVars
  <2>1. CASE UNCHANGED allVars
    BY <2>1 DEF allVars
  <2>2. CASE Next
    <3>1. CASE ChatNext /\ UNCHANGED <<logVars, pageVars, agentVars, tweetVars>>
      BY <3>1
    <3>2. CASE LogNext /\ UNCHANGED pageVars /\ UNCHANGED <<chatVars, agentVars, tweetVars>>
      BY <3>2 DEF DashboardNext
    <3>3. CASE DashboardNext /\ UNCHANGED <<chatVars, agentVars, tweetVars>>
      <4>1. LogNext \/ UNCHANGED logVars
        BY <3>3 DEF DashboardNext, Scroll, Jump, ScrollTo, ServeArtifacts, FetchFails, Hydrate,
                    OpenStream, DropStream, PushArtifact, Reload
      <4>2. QED
        BY <3>3, <4>1
    <3>4. CASE AgentNext /\ UNCHANGED <<chatVars, logVars, pageVars, tweetVars>>
      BY <3>4
    <3>5. CASE TweetNext /\ UNCHANGED <<chatVars, logVars, pageVars, agentVars>>
      BY <3>5
    <3>6. QED
      BY <2>2, <3>1, <3>2, <3>3, <3>4, <3>5 DEF Next
  <2>3. QED
    BY <2>1, <2>2
<1>3. QED
  BY <1>1, <1>2, PTL DEF Spec, ChatSpec, LogSpec, DashboardSpec, AgentSpec, TweetSpec

\* The state of all that the dashboard run explores is of the declared types, ...
THEOREM WholeTypeCorrect == Spec => []TypeOK
<1>1. ChatTypeOK /\ DashboardTypeOK /\ AgentTypeOK /\ TweetTypeOK => TypeOK
  BY DEF TypeOK
<1>2. QED
  BY <1>1, Parts, ChatTypeCorrect, DashboardTypeCorrect, AgentTypeCorrect, TweetTypeCorrect, PTL

\* ... and every safety invariant of that run holds in it.
THEOREM WholeIsSafe ==
  Spec => [](/\ RequestsWellFormed /\ GroupsFaithful /\ FeedComplete /\ OpenFeedHasReason
             /\ RingIndexed /\ LogSettles /\ ShownNewest /\ TicksGuarded /\ TweetsSafe)
BY Parts, RequestsAreAnswered, ChatShowsTheCalls, ChatShowsEveryTick, FeedClosesBehindTheLoop,
   RingStaysIndexed, LogSettlesOnTheLast, PageShowsTheNewest, GuardHolds, OnlySafeTweets, PTL

=============================================================================
