------------------------- MODULE QuotaJournalProofs -------------------------
(***************************************************************************)
(* Proofs about the quota journal, for every set of agents, rules, limits, *)
(* demands and reservations, every retention period that covers a day and  *)
(* the lag of the callers, and every time bound.                           *)
(***************************************************************************)
EXTENDS QuotaJournal, FiniteSetTheorems, SequenceTheorems, TLAPS

(***************************************************************************)
(* Sums of units and sliding windows: fewer rows respect the limits as     *)
(* well, and a row that fits above the rows charged since one span ago     *)
(* fits into every window it falls in.                                     *)
(***************************************************************************)

\* A finite set of rows has finitely many coins.
LEMMA CoinsFinite ==
    ASSUME NEW S \in SUBSET Row, IsFiniteSet(S)
    PROVE  IsFiniteSet(Coins(S))
<1> DEFINE T == {{r} \X (1 .. r.units) : r \in S}
           f == [r \in S |-> {r} \X (1 .. r.units)]
<1>1. f \in Surjection(S, T)
  BY DEF Surjection
<1>2. IsFiniteSet(T)
  BY <1>1, FS_Surjection
<1>3. ASSUME NEW t \in T PROVE IsFiniteSet(t)
  <2>1. PICK r \in S : t = {r} \X (1 .. r.units)
    OBVIOUS
  <2>2. r.units \in Nat
    BY DEF Row
  <2>3. IsFiniteSet({r})
    BY FS_Singleton
  <2>4. IsFiniteSet(1 .. r.units)
    BY <2>2, FS_Interval
  <2>5. QED
    BY <2>1, <2>3, <2>4, FS_Product
<1>4. IsFiniteSet(UNION T)
  BY <1>2, <1>3, FS_UNION
<1>5. QED
  BY <1>4 DEF Coins

\* A sum of units is a natural number.
LEMMA UnitsType ==
    ASSUME NEW S \in SUBSET Row, IsFiniteSet(S)
    PROVE  UnitsIn(S) \in Nat
BY CoinsFinite, FS_CardinalityType DEF UnitsIn

\* Fewer rows, fewer units.
LEMMA UnitsMonotone ==
    ASSUME NEW S \in SUBSET Row, IsFiniteSet(S), NEW T \in SUBSET S
    PROVE  UnitsIn(T) <= UnitsIn(S)
<1>1. Coins(T) \subseteq Coins(S)
  BY DEF Coins
<1>2. QED
  BY <1>1, CoinsFinite, FS_Subset DEF UnitsIn

\* The numbers from 1 to n are n.
LEMMA IntervalSize ==
    ASSUME NEW n \in Nat
    PROVE  IsFiniteSet(1 .. n) /\ Cardinality(1 .. n) = n
<1>1. 1 \in Int /\ n \in Int
  OBVIOUS
<1>2. IsFiniteSet(1 .. n) /\ Cardinality(1 .. n) = (IF 1 > n THEN 0 ELSE n - 1 + 1)
  BY <1>1, FS_Interval
<1>3. (IF 1 > n THEN 0 ELSE n - 1 + 1) = n
  OBVIOUS
<1>4. QED
  BY <1>2, <1>3

\* One row more adds at most its own units.
LEMMA UnitsAdd ==
    ASSUME NEW S \in SUBSET Row, IsFiniteSet(S), NEW q \in Row
    PROVE  UnitsIn(S \cup {q}) <= UnitsIn(S) + q.units
<1> DEFINE C == {q} \X (1 .. q.units)
<1>1. q.units \in Nat
  BY DEF Row
<1>2. IsFiniteSet(C) /\ Cardinality(C) = q.units
  <2>1. IsFiniteSet({q}) /\ Cardinality({q}) = 1
    BY FS_Singleton
  <2>2. IsFiniteSet(1 .. q.units) /\ Cardinality(1 .. q.units) = q.units
    BY <1>1, IntervalSize
  <2>3. IsFiniteSet(C) /\ Cardinality(C) = Cardinality({q}) * Cardinality(1 .. q.units)
    BY <2>1, <2>2, FS_Product
  <2>4. QED
    BY <2>1, <2>2, <2>3, <1>1
<1>3. Coins(S \cup {q}) = Coins(S) \cup C
  BY DEF Coins
<1>4. IsFiniteSet(Coins(S))
  BY CoinsFinite
<1>5. /\ Cardinality(Coins(S) \cup C) =
            Cardinality(Coins(S)) + Cardinality(C) - Cardinality(Coins(S) \cap C)
      /\ IsFiniteSet(Coins(S) \cap C)
  BY <1>2, <1>4, FS_Union, FS_Intersection
<1>6. Cardinality(Coins(S)) \in Nat /\ Cardinality(Coins(S) \cap C) \in Nat
  BY <1>4, <1>5, FS_CardinalityType
<1>7. Cardinality(Coins(S) \cup C) <= Cardinality(Coins(S)) + q.units
  BY <1>1, <1>2, <1>5, <1>6
<1>8. QED
  BY <1>3, <1>7 DEF UnitsIn

\* One row more adds at most one to a count.
LEMMA CountAdd ==
    ASSUME NEW S, IsFiniteSet(S), NEW q
    PROVE  /\ IsFiniteSet(S \cup {q})
           /\ Cardinality(S) \in Nat
           /\ Cardinality(S \cup {q}) <= Cardinality(S) + 1
<1>1. Cardinality(S) \in Nat
  BY FS_CardinalityType
<1>2. /\ IsFiniteSet(S \cup {q})
      /\ Cardinality(S \cup {q}) = IF q \in S THEN Cardinality(S) ELSE Cardinality(S) + 1
  BY FS_AddElement
<1>3. QED
  BY <1>1, <1>2

\* The two windows last a natural number of instants, at most a day.
LEMMA SpanType == \A w \in Windows : Span(w) \in Nat \ {0} /\ Span(w) <= DayMs
BY WindowAssumption DEF Windows, Span

-----------------------------------------------------------------------------
\* Rows taken away never break a limit.
LEMMA LimitsMonotone ==
    ASSUME NEW S \in SUBSET Row, IsFiniteSet(S), NEW T \in SUBSET S, WithinLimits(S)
    PROVE  WithinLimits(T)
<1>1. ValueWithin(T)
  <2> SUFFICES ASSUME NEW a \in Agents, NEW u \in Rules, NEW w \in Windows,
                      ValueCap[a][u][w] # NoLimit, NEW first \in OfRule(T, a, u)
               PROVE  UnitsIn(Window(OfAsset(T, a, u, ValueCap[a][u][w].asset), Span(w), first.at))
                         <= ValueCap[a][u][w].units
    BY DEF ValueWithin
  <2> DEFINE x == ValueCap[a][u][w].asset
             V == Window(OfAsset(T, a, u, x), Span(w), first.at)
             W == Window(OfAsset(S, a, u, x), Span(w), first.at)
  <2>1. V \in SUBSET W /\ W \in SUBSET S
    BY DEF Window, OfAsset, OfRule
  <2>2. IsFiniteSet(W) /\ W \in SUBSET Row
    BY <2>1, FS_Subset
  <2>3. UnitsIn(V) <= UnitsIn(W)
    BY <2>1, <2>2, UnitsMonotone
  <2>4. first \in OfRule(S, a, u)
    BY DEF OfRule
  <2>5. UnitsIn(W) <= ValueCap[a][u][w].units
    BY <2>4 DEF WithinLimits, ValueWithin
  <2>6. UnitsIn(V) \in Nat /\ UnitsIn(W) \in Nat /\ ValueCap[a][u][w].units \in Nat
    <3>1. V \in SUBSET Row /\ IsFiniteSet(V)
      BY <2>1, <2>2, FS_Subset
    <3>2. ValueCap[a][u][w] \in [asset : Assets, units : Nat]
      BY LimitAssumption
    <3>3. QED
      BY <2>2, <3>1, <3>2, UnitsType
  <2>7. QED
    BY <2>3, <2>5, <2>6
<1>2. CountWithin(T)
  <2> SUFFICES ASSUME NEW a \in Agents, NEW u \in Rules, NEW w \in Windows,
                      CountCap[a][u][w] # NoLimit, NEW first \in OfRule(T, a, u)
               PROVE  Cardinality(Window(OfRule(T, a, u), Span(w), first.at)) <= CountCap[a][u][w]
    BY DEF CountWithin
  <2> DEFINE V == Window(OfRule(T, a, u), Span(w), first.at)
             W == Window(OfRule(S, a, u), Span(w), first.at)
  <2>1. V \in SUBSET W /\ W \in SUBSET S
    BY DEF Window, OfRule
  <2>2. IsFiniteSet(W)
    BY <2>1, FS_Subset
  <2>3. IsFiniteSet(V) /\ Cardinality(V) <= Cardinality(W)
    BY <2>1, <2>2, FS_Subset
  <2>4. first \in OfRule(S, a, u)
    BY DEF OfRule
  <2>5. Cardinality(W) <= CountCap[a][u][w]
    BY <2>4 DEF WithinLimits, CountWithin
  <2>6. Cardinality(V) \in Nat /\ Cardinality(W) \in Nat
    BY <2>2, <2>3, FS_CardinalityType
  <2>7. CountCap[a][u][w] \in Nat
    BY LimitAssumption
  <2>8. QED
    BY <2>3, <2>5, <2>6, <2>7
<1>3. RecipientsWithin(T)
  <2> SUFFICES ASSUME NEW a \in Agents, NEW u \in Rules, RecipientCap[a][u] # NoLimit,
                      NEW first \in OfRule(T, a, u)
               PROVE  Cardinality(Window(ToRecipient(T, a, u, first.recipient), HourMs, first.at))
                         <= RecipientCap[a][u]
    BY DEF RecipientsWithin
  <2> DEFINE V == Window(ToRecipient(T, a, u, first.recipient), HourMs, first.at)
             W == Window(ToRecipient(S, a, u, first.recipient), HourMs, first.at)
  <2>1. V \in SUBSET W /\ W \in SUBSET S
    BY DEF Window, ToRecipient, OfRule
  <2>2. IsFiniteSet(W)
    BY <2>1, FS_Subset
  <2>3. IsFiniteSet(V) /\ Cardinality(V) <= Cardinality(W)
    BY <2>1, <2>2, FS_Subset
  <2>4. first \in OfRule(S, a, u)
    BY DEF OfRule
  <2>5. Cardinality(W) <= RecipientCap[a][u]
    BY <2>4 DEF WithinLimits, RecipientsWithin
  <2>6. Cardinality(V) \in Nat /\ Cardinality(W) \in Nat
    BY <2>2, <2>3, FS_CardinalityType
  <2>7. RecipientCap[a][u] \in Nat
    BY LimitAssumption
  <2>8. QED
    BY <2>3, <2>5, <2>6, <2>7
<1>4. SpacedOut(T)
  BY DEF WithinLimits, SpacedOut
<1>5. QED
  BY <1>1, <1>2, <1>3, <1>4 DEF WithinLimits
-----------------------------------------------------------------------------
\* The journal looks at the rows B of its table; the rows of S outside B were
\* pruned, and are more than a day older than the new row q.
OldOutside(S, B, q) == \A r \in S \ B : r.at + DayMs <= q.at

\* Every row that shares a window with q was charged less than one span before
\* q, or later: the query `created_at > now - span` sees it.
LEMMA WindowSeen ==
    ASSUME NEW S \in SUBSET Row, NEW B \in SUBSET S, NEW q \in Row, OldOutside(S, B, q)
    PROVE  \A r \in S, span \in Nat, t \in Nat :
              (span <= DayMs /\ t <= q.at /\ q.at < t + span /\ t <= r.at)
                 => (r \in B /\ r.at + span > q.at)
<1> SUFFICES ASSUME NEW r \in S, NEW span \in Nat, NEW t \in Nat,
                    span <= DayMs, t <= q.at, q.at < t + span, t <= r.at
             PROVE  r \in B /\ r.at + span > q.at
  OBVIOUS
<1>1. r.at \in Nat /\ q.at \in Nat
  BY DEF Row
<1>2. r.at + span > q.at
  BY <1>1
<1>3. r \in B
  BY <1>1, <1>2, WindowAssumption DEF OldOutside
<1>4. QED
  BY <1>2, <1>3

\* A row that passes the check of checkWindow() keeps every value window.
LEMMA ValueAdd ==
    ASSUME NEW S \in SUBSET Row, IsFiniteSet(S), NEW B \in SUBSET S, NEW q \in Row,
           OldOutside(S, B, q), ValueWithin(S),
           \A w \in Windows : ValueCap[q.agent][q.rule][w] # NoLimit =>
              /\ ValueCap[q.agent][q.rule][w].asset = q.asset
              /\ UnitsIn(Since(OfAsset(B, q.agent, q.rule, q.asset), Span(w), q.at)) + q.units
                    <= ValueCap[q.agent][q.rule][w].units
    PROVE  ValueWithin(S \cup {q})
<1> SUFFICES ASSUME NEW a \in Agents, NEW u \in Rules, NEW w \in Windows,
                    ValueCap[a][u][w] # NoLimit, NEW first \in OfRule(S \cup {q}, a, u)
             PROVE  UnitsIn(Window(OfAsset(S \cup {q}, a, u, ValueCap[a][u][w].asset),
                                   Span(w), first.at)) <= ValueCap[a][u][w].units
  BY DEF ValueWithin
<1> DEFINE cap == ValueCap[a][u][w]
           x == cap.asset
           V == Window(OfAsset(S \cup {q}, a, u, x), Span(w), first.at)
<1>1. /\ cap \in [asset : Assets, units : Nat] /\ cap.units \in Nat
      /\ Span(w) \in Nat \ {0} /\ Span(w) <= DayMs
      /\ first \in Row /\ first.at \in Nat /\ q.at \in Nat /\ q.units \in Nat
  BY LimitAssumption, SpanType DEF OfRule, Row
<1>2. CASE q \in V
  <2> DEFINE K == Since(OfAsset(B, a, u, x), Span(w), q.at)
  <2>1. q.agent = a /\ q.rule = u /\ q.asset = x /\ first.at <= q.at /\ q.at < first.at + Span(w)
    BY <1>2 DEF Window, OfAsset, OfRule
  <2>2. V \ {q} \subseteq K
    <3> SUFFICES ASSUME NEW r \in V \ {q} PROVE r \in K
      OBVIOUS
    <3>1. r \in S /\ r.agent = a /\ r.rule = u /\ r.asset = x /\ first.at <= r.at
      BY DEF Window, OfAsset, OfRule
    <3>2. r \in B /\ r.at + Span(w) > q.at
      <4>1. Span(w) \in Nat
        BY <1>1
      <4>2. QED
        BY <1>1, <2>1, <3>1, <4>1, WindowSeen
    <3>3. QED
      BY <3>1, <3>2 DEF Since, OfAsset, OfRule
  <2>3. K \in SUBSET Row /\ IsFiniteSet(K)
    <3>1. K \in SUBSET S
      BY DEF Since, OfAsset, OfRule
    <3>2. QED
      BY <3>1, FS_Subset
  <2>4. UnitsIn(K \cup {q}) <= UnitsIn(K) + q.units
    BY <2>3, UnitsAdd
  <2>5. V \in SUBSET (K \cup {q}) /\ IsFiniteSet(K \cup {q}) /\ K \cup {q} \in SUBSET Row
    BY <2>2, <2>3, FS_AddElement
  <2>6. UnitsIn(V) <= UnitsIn(K \cup {q})
    BY <2>5, UnitsMonotone
  <2>7. UnitsIn(K) + q.units <= cap.units
    BY <2>1
  <2>8. UnitsIn(V) \in Nat /\ UnitsIn(K) \in Nat /\ UnitsIn(K \cup {q}) \in Nat
    <3>1. V \in SUBSET Row /\ IsFiniteSet(V)
      BY <2>5, FS_Subset
    <3>2. QED
      BY <2>3, <2>5, <3>1, UnitsType
  <2>9. QED
    BY <1>1, <2>4, <2>6, <2>7, <2>8
<1>3. CASE q \notin V
  <2>1. first # q
    <3> SUFFICES ASSUME first = q PROVE FALSE
      OBVIOUS
    <3>1. q.agent = a /\ q.rule = u
      BY DEF OfRule
    <3>2. q.asset = x
      BY <3>1
    <3>3. q \in V
      BY <1>1, <3>1, <3>2 DEF Window, OfAsset, OfRule
    <3>4. QED
      BY <1>3, <3>3
  <2>2. first \in OfRule(S, a, u)
    BY <2>1 DEF OfRule
  <2>3. V = Window(OfAsset(S, a, u, x), Span(w), first.at)
    BY <1>3 DEF Window, OfAsset, OfRule
  <2>4. QED
    BY <2>2, <2>3 DEF ValueWithin
<1>4. QED
  BY <1>2, <1>3
\* A row that passes the count check keeps every count window.
LEMMA CountWithinAdd ==
    ASSUME NEW S \in SUBSET Row, IsFiniteSet(S), NEW B \in SUBSET S, NEW q \in Row,
           OldOutside(S, B, q), CountWithin(S),
           \A w \in Windows : CountCap[q.agent][q.rule][w] # NoLimit =>
              Cardinality(Since(OfRule(B, q.agent, q.rule), Span(w), q.at))
                 < CountCap[q.agent][q.rule][w]
    PROVE  CountWithin(S \cup {q})
<1> SUFFICES ASSUME NEW a \in Agents, NEW u \in Rules, NEW w \in Windows,
                    CountCap[a][u][w] # NoLimit, NEW first \in OfRule(S \cup {q}, a, u)
             PROVE  Cardinality(Window(OfRule(S \cup {q}, a, u), Span(w), first.at))
                       <= CountCap[a][u][w]
  BY DEF CountWithin
<1> DEFINE V == Window(OfRule(S \cup {q}, a, u), Span(w), first.at)
<1>1. /\ CountCap[a][u][w] \in Nat
      /\ Span(w) \in Nat \ {0} /\ Span(w) <= DayMs
      /\ first.at \in Nat /\ q.at \in Nat
  BY LimitAssumption, SpanType DEF OfRule, Row
<1>2. CASE q \in V
  <2> DEFINE K == Since(OfRule(B, a, u), Span(w), q.at)
  <2>1. q.agent = a /\ q.rule = u /\ first.at <= q.at /\ q.at < first.at + Span(w)
    BY <1>2 DEF Window, OfRule
  <2>2. V \ {q} \subseteq K
    <3> SUFFICES ASSUME NEW r \in V \ {q} PROVE r \in K
      OBVIOUS
    <3>1. r \in S /\ r.agent = a /\ r.rule = u /\ first.at <= r.at
      BY DEF Window, OfRule
    <3>2. r \in B /\ r.at + Span(w) > q.at
      <4>1. Span(w) \in Nat
        BY <1>1
      <4>2. QED
        BY <1>1, <2>1, <3>1, <4>1, WindowSeen
    <3>3. QED
      BY <3>1, <3>2 DEF Since, OfRule
  <2>3. IsFiniteSet(K)
    <3>1. K \in SUBSET S
      BY DEF Since, OfRule
    <3>2. QED
      BY <3>1, FS_Subset
  <2>4. /\ IsFiniteSet(K \cup {q}) /\ Cardinality(K) \in Nat
        /\ Cardinality(K \cup {q}) <= Cardinality(K) + 1
    BY <2>3, CountAdd
  <2>5. V \in SUBSET (K \cup {q})
    BY <2>2
  <2>6. IsFiniteSet(V) /\ Cardinality(V) <= Cardinality(K \cup {q})
    BY <2>4, <2>5, FS_Subset
  <2>7. Cardinality(V) \in Nat /\ Cardinality(K \cup {q}) \in Nat
    BY <2>4, <2>6, FS_CardinalityType
  <2>8. Cardinality(K) < CountCap[a][u][w]
    BY <2>1
  <2>9. QED
    BY <1>1, <2>4, <2>6, <2>7, <2>8
<1>3. CASE q \notin V
  <2>1. first # q
    BY <1>1, <1>3 DEF Window, OfRule
  <2>2. first \in OfRule(S, a, u)
    BY <2>1 DEF OfRule
  <2>3. V = Window(OfRule(S, a, u), Span(w), first.at)
    BY <1>3 DEF Window, OfRule
  <2>4. QED
    BY <2>2, <2>3 DEF CountWithin
<1>4. QED
  BY <1>2, <1>3

\* A row that passes the recipient check keeps every window of its recipient.
LEMMA RecipientsWithinAdd ==
    ASSUME NEW S \in SUBSET Row, IsFiniteSet(S), NEW B \in SUBSET S, NEW q \in Row,
           OldOutside(S, B, q), RecipientsWithin(S),
           RecipientCap[q.agent][q.rule] # NoLimit =>
              Cardinality(Since(ToRecipient(B, q.agent, q.rule, q.recipient), HourMs, q.at))
                 < RecipientCap[q.agent][q.rule]
    PROVE  RecipientsWithin(S \cup {q})
<1> SUFFICES ASSUME NEW a \in Agents, NEW u \in Rules, RecipientCap[a][u] # NoLimit,
                    NEW first \in OfRule(S \cup {q}, a, u)
             PROVE  Cardinality(Window(ToRecipient(S \cup {q}, a, u, first.recipient),
                                       HourMs, first.at)) <= RecipientCap[a][u]
  BY DEF RecipientsWithin
<1> DEFINE p == first.recipient
           V == Window(ToRecipient(S \cup {q}, a, u, p), HourMs, first.at)
<1>1. /\ RecipientCap[a][u] \in Nat
      /\ HourMs \in Nat \ {0} /\ HourMs \in Nat /\ HourMs <= DayMs
      /\ first.at \in Nat /\ q.at \in Nat
  BY LimitAssumption, WindowAssumption DEF OfRule, Row
<1>2. CASE q \in V
  <2> DEFINE K == Since(ToRecipient(B, a, u, p), HourMs, q.at)
  <2>1. /\ q.agent = a /\ q.rule = u /\ q.recipient = p
        /\ first.at <= q.at /\ q.at < first.at + HourMs
    BY <1>2 DEF Window, ToRecipient, OfRule
  <2>2. V \ {q} \subseteq K
    <3> SUFFICES ASSUME NEW r \in V \ {q} PROVE r \in K
      OBVIOUS
    <3>1. r \in S /\ r.agent = a /\ r.rule = u /\ r.recipient = p /\ first.at <= r.at
      BY DEF Window, ToRecipient, OfRule
    <3>2. r \in B /\ r.at + HourMs > q.at
      BY <1>1, <2>1, <3>1, WindowSeen
    <3>3. QED
      BY <3>1, <3>2 DEF Since, ToRecipient, OfRule
  <2>3. IsFiniteSet(K)
    <3>1. K \in SUBSET S
      BY DEF Since, ToRecipient, OfRule
    <3>2. QED
      BY <3>1, FS_Subset
  <2>4. /\ IsFiniteSet(K \cup {q}) /\ Cardinality(K) \in Nat
        /\ Cardinality(K \cup {q}) <= Cardinality(K) + 1
    BY <2>3, CountAdd
  <2>5. V \in SUBSET (K \cup {q})
    BY <2>2
  <2>6. IsFiniteSet(V) /\ Cardinality(V) <= Cardinality(K \cup {q})
    BY <2>4, <2>5, FS_Subset
  <2>7. Cardinality(V) \in Nat /\ Cardinality(K \cup {q}) \in Nat
    BY <2>4, <2>6, FS_CardinalityType
  <2>8. Cardinality(K) < RecipientCap[a][u]
    BY <2>1
  <2>9. QED
    BY <1>1, <2>4, <2>6, <2>7, <2>8
<1>3. CASE q \notin V
  <2>1. first # q
    BY <1>1, <1>3 DEF Window, ToRecipient, OfRule
  <2>2. first \in OfRule(S, a, u)
    BY <2>1 DEF OfRule
  <2>3. V = Window(ToRecipient(S, a, u, p), HourMs, first.at)
    BY <1>3 DEF Window, ToRecipient, OfRule
  <2>4. QED
    BY <2>2, <2>3 DEF RecipientsWithin
<1>4. QED
  BY <1>2, <1>3

\* A row with no earlier row of its recipient within the cooldown is spaced out.
LEMMA SpacedOutAdd ==
    ASSUME NEW S \in SUBSET Row, NEW B \in SUBSET S, NEW q \in Row,
           OldOutside(S, B, q), SpacedOut(S),
           Cooldown[q.agent][q.rule] # NoLimit =>
              Since(ToRecipient(B, q.agent, q.rule, q.recipient),
                    Cooldown[q.agent][q.rule], q.at) = {}
    PROVE  SpacedOut(S \cup {q})
<1> SUFFICES ASSUME NEW e \in S \cup {q}, NEW f \in S \cup {q}, e # f,
                    e.agent = f.agent, e.rule = f.rule, e.recipient = f.recipient,
                    Cooldown[e.agent][e.rule] # NoLimit, e.at <= f.at
             PROVE  e.at + Cooldown[e.agent][e.rule] <= f.at
  BY DEF SpacedOut
<1> DEFINE cool == Cooldown[e.agent][e.rule]
<1>1. /\ e \in Row /\ f \in Row /\ e.at \in Nat /\ f.at \in Nat
      /\ e.agent \in Agents /\ e.rule \in Rules
  BY DEF Row
<1>2. cool \in Nat /\ cool <= DayMs /\ DayMs \in Nat \ {0}
  BY <1>1, LimitAssumption, WindowAssumption
<1>3. CASE e \in S /\ f \in S
  BY <1>3 DEF SpacedOut
<1>4. CASE e \in S /\ f = q
  <2>1. CASE e \in B
    <3>1. e \notin Since(ToRecipient(B, q.agent, q.rule, q.recipient), cool, q.at)
      BY <1>4
    <3>2. ~(e.at + cool > q.at)
      BY <1>4, <2>1, <3>1 DEF Since, ToRecipient, OfRule
    <3>3. QED
      BY <1>1, <1>2, <1>4, <3>2
  <2>2. CASE e \notin B
    <3>1. e.at + DayMs <= f.at
      BY <1>4, <2>2 DEF OldOutside
    <3>2. QED
      BY <1>1, <1>2, <3>1
  <2>3. QED
    BY <2>1, <2>2
<1>5. CASE e = q /\ f \in S
  <2>1. f \in B
    BY <1>1, <1>2, <1>5 DEF OldOutside
  <2>2. f \notin Since(ToRecipient(B, q.agent, q.rule, q.recipient), cool, q.at)
    BY <1>5
  <2>3. ~(f.at + cool > q.at)
    BY <1>5, <2>1, <2>2 DEF Since, ToRecipient, OfRule
  <2>4. QED
    BY <1>1, <1>2, <1>5, <2>3
<1>6. QED
  BY <1>3, <1>4, <1>5

-----------------------------------------------------------------------------
(* The journal. *)

\* A batch is a sequence of at most MaxBatch demands.
LEMMA BatchType ==
    ASSUME NEW d \in Batches
    PROVE  /\ d \in Seq(Demands) /\ Len(d) \in Nat /\ Len(d) <= MaxBatch
           /\ \A i \in 1 .. Len(d) : d[i] \in Demands
<1>1. PICK k \in 1 .. MaxBatch : d \in [1 .. k -> Demands]
  BY DEF Batches
<1>2. k \in Nat /\ k <= MaxBatch
  BY DemandAssumption
<1>3. d \in Seq(Demands)
  BY <1>1, <1>2, SeqDef
<1>4. Len(d) = k
  BY <1>1, <1>2, <1>3, LenProperties
<1>5. QED
  BY <1>1, <1>2, <1>3, <1>4

\* The row a demand inserts is a row of the table.
LEMMA NewRowType ==
    ASSUME NEW t \in TxType, t.next <= Len(t.demands)
    PROVE  /\ NewRow(t) \in Row
           /\ NewRow(t).rid = t.rid /\ NewRow(t).agent = t.agent /\ NewRow(t).at = t.now
           /\ t.next + 1 \in 1 .. MaxBatch + 1
<1> DEFINE d == t.demands[t.next]
<1>1. /\ t.demands \in Batches /\ t.next \in 1 .. MaxBatch + 1 /\ t.now \in Nat
      /\ t.rid \in Reservations /\ t.agent \in Agents
  BY DEF TxType
<1>2. Len(t.demands) \in Nat /\ Len(t.demands) <= MaxBatch /\ t.next \in 1 .. Len(t.demands)
  BY <1>1, BatchType, DemandAssumption
<1>3. d \in Demands
  BY <1>1, <1>2, BatchType
<1>4. d \in [rule : Rules, recipient : Recipients \cup {NoRecipient}, asset : Assets, units : Nat]
  BY <1>3, DemandAssumption
<1>5. t.next \in Nat /\ t.next + 1 \in 1 .. MaxBatch + 1
  BY <1>2, DemandAssumption
<1>6. QED
  BY <1>1, <1>4, <1>5 DEF NewRow, Row

\* TypeOK is an invariant on its own.
LEMMA TypeStep == TypeOK /\ [Next]_vars => TypeOK'
<1> SUFFICES ASSUME TypeOK, [Next]_vars PROVE TypeOK'
  OBVIOUS
<1> USE DEF TypeOK
<1>1. ASSUME NEW rid \in Reservations, NEW agent \in Agents, NEW demands \in Batches,
             NEW lag \in 0 .. MaxLag, lag <= clock,
             BeginReserve(rid, agent, demands, clock - lag)
      PROVE  TypeOK'
  <2> DEFINE T == {r \in rows : r.at + RetentionMs >= clock - lag}
  <2>1. clock - lag \in Nat
    BY <1>1, RetentionAssumption
  <2>2. T \in SUBSET Row /\ IsFiniteSet(T)
    BY FS_Subset
  <2>3. 1 \in 1 .. MaxBatch + 1
    BY DemandAssumption
  <2>4. tx' \in TxType /\ tx'.table = T
    BY <1>1, <2>1, <2>2, <2>3 DEF BeginReserve, TxType
  <2>5. QED
    BY <1>1, <2>2, <2>4 DEF BeginReserve
<1>2. CASE InsertDemand
  <2>1. tx \in TxType /\ IsFiniteSet(tx.table)
    BY <1>2 DEF InsertDemand
  <2>2. NewRow(tx) \in Row /\ tx.next + 1 \in 1 .. MaxBatch + 1
    BY <1>2, <2>1, NewRowType DEF InsertDemand
  <2>3. IsFiniteSet(tx.table \cup {NewRow(tx)})
    BY <2>1, FS_AddElement
  <2>4. tx' \in TxType /\ tx'.table = tx.table \cup {NewRow(tx)}
    BY <1>2, <2>1, <2>2 DEF InsertDemand, TxType
  <2>5. QED
    BY <1>2, <2>3, <2>4 DEF InsertDemand
<1>3. CASE RefuseDemand
  BY <1>3 DEF RefuseDemand
<1>4. CASE EndReserve
  <2>1. tx \in TxType /\ IsFiniteSet(tx.table)
    BY <1>4 DEF EndReserve
  <2>2. tx.rid \in Reservations /\ tx.table \in SUBSET Row
    BY <2>1 DEF TxType
  <2>3. IsFiniteSet(rows \ tx.table)
    BY FS_Subset
  <2>4. IsFiniteSet(pruned \cup (rows \ tx.table))
    BY <2>3, FS_Union
  <2>5. QED
    BY <1>4, <2>1, <2>2, <2>4 DEF EndReserve, Fates
<1>5. ASSUME NEW rid \in Reservations, NEW agent \in Agents, NEW digest \in Digests,
             Commit(rid, agent, digest)
      PROVE  TypeOK'
  BY <1>5 DEF Commit, Fates
<1>6. ASSUME NEW rid \in Reservations, Release(rid)
      PROVE  TypeOK'
  BY <1>6 DEF Release, Fates
<1>7. CASE Crash
  BY <1>7 DEF Crash
<1>8. CASE Tick
  BY <1>8 DEF Tick
<1>9. CASE UNCHANGED vars
  BY <1>9 DEF vars
<1>10. QED
  BY <1>1, <1>2, <1>3, <1>4, <1>5, <1>6, <1>7, <1>8, <1>9 DEF Next

\* Type correctness: the table, the working copy and the settlements keep
\* their types in every behaviour of the journal.
THEOREM JournalTypeOK == Spec => []TypeOK
<1>1. Init => TypeOK
  BY FS_EmptySet DEF Init, TypeOK, Fates
<1>2. QED
  BY <1>1, TypeStep, PTL DEF Spec
-----------------------------------------------------------------------------
\* Pruned rows are out of reach of every instant that can still be passed.
LEMMA PruningStep == TypeOK /\ PruningIsLate /\ [Next]_vars => PruningIsLate'
<1> SUFFICES ASSUME TypeOK, PruningIsLate, [Next]_vars PROVE PruningIsLate'
  OBVIOUS
<1> USE DEF PruningIsLate
<1>0. /\ clock \in Nat
      /\ \A r \in Row : r.at \in Nat
      /\ rows \subseteq Row /\ pruned \subseteq Row
      /\ tx # NoTx => tx \in TxType /\ tx.table \subseteq Row /\ tx.now \in Nat
      /\ RetentionMs \in Nat /\ MaxLag \in Nat /\ DayMs \in Nat /\ DayMs + MaxLag <= RetentionMs
  BY RetentionAssumption, WindowAssumption DEF TypeOK, TxType, Row
<1>1. ASSUME NEW rid \in Reservations, NEW agent \in Agents, NEW demands \in Batches,
             NEW lag \in 0 .. MaxLag, lag <= clock,
             BeginReserve(rid, agent, demands, clock - lag)
      PROVE  PruningIsLate'
  <2>1. /\ tx'.now = clock - lag /\ tx'.table = {r \in rows : r.at + RetentionMs >= clock - lag}
        /\ rows' = rows /\ pruned' = pruned /\ clock' = clock
    BY <1>1 DEF BeginReserve
  <2>2. \A r \in pruned : r.at + DayMs <= clock - lag
    BY <1>0, <1>1
  <2>3. \A r \in rows \ tx'.table : r.at + RetentionMs < clock - lag
    BY <1>0, <1>1, <2>1
  <2>4. clock - lag <= clock /\ tx'.table \ rows = {}
    BY <1>0, <2>1
  <2>5. QED
    BY <2>1, <2>2, <2>3, <2>4
<1>2. CASE InsertDemand
  <2>1. tx # NoTx /\ tx.next <= Len(tx.demands)
    BY <1>2 DEF InsertDemand
  <2>2. /\ tx'.now = tx.now /\ tx'.rid = tx.rid /\ tx'.agent = tx.agent
        /\ tx'.table = tx.table \cup {NewRow(tx)}
        /\ rows' = rows /\ pruned' = pruned /\ clock' = clock
    BY <1>0, <1>2, <2>1 DEF InsertDemand, TxType
  <2>3. NewRow(tx).rid = tx.rid /\ NewRow(tx).agent = tx.agent /\ NewRow(tx).at = tx.now
    BY <1>0, <2>1, NewRowType
  <2>4. QED
    BY <2>1, <2>2, <2>3
<1>3. CASE RefuseDemand
  BY <1>3 DEF RefuseDemand
<1>4. CASE EndReserve
  <2>1. /\ tx # NoTx /\ tx' = NoTx /\ clock' = clock
        /\ pruned' = pruned \cup (rows \ tx.table)
    BY <1>4 DEF EndReserve
  <2>2. \A r \in rows \ tx.table : r.at + RetentionMs < clock
    BY <1>0, <2>1
  <2>3. QED
    BY <2>1, <2>2
<1>5. ASSUME NEW rid \in Reservations, NEW agent \in Agents, NEW digest \in Digests,
             Commit(rid, agent, digest)
      PROVE  PruningIsLate'
  BY <1>5 DEF Commit
<1>6. ASSUME NEW rid \in Reservations, Release(rid)
      PROVE  PruningIsLate'
  BY <1>6 DEF Release
<1>7. CASE Crash
  BY <1>7 DEF Crash
<1>8. CASE Tick
  BY <1>0, <1>8 DEF Tick
<1>9. CASE UNCHANGED vars
  BY <1>9 DEF vars
<1>10. QED
  BY <1>1, <1>2, <1>3, <1>4, <1>5, <1>6, <1>7, <1>8, <1>9 DEF Next

\* Rows, held ids and the running transaction agree with the states of their
\* reservations.
LEMMA FatesStep == TypeOK /\ PruningIsLate /\ FatesAgree /\ [Next]_vars => FatesAgree'
<1> SUFFICES ASSUME TypeOK, PruningIsLate, FatesAgree, [Next]_vars PROVE FatesAgree'
  OBVIOUS
<1> USE DEF FatesAgree, Charged
<1>0. /\ fate \in [Reservations -> Fates]
      /\ \A r \in Row : r.rid \in Reservations
      /\ rows \subseteq Row /\ pruned \subseteq Row /\ holding \subseteq Reservations
      /\ tx # NoTx => tx \in TxType /\ tx.table \subseteq Row /\ tx.rid \in Reservations
  BY DEF TypeOK, TxType, Row
<1>1. ASSUME NEW rid \in Reservations, NEW agent \in Agents, NEW demands \in Batches,
             NEW lag \in 0 .. MaxLag, lag <= clock,
             BeginReserve(rid, agent, demands, clock - lag)
      PROVE  FatesAgree'
  BY <1>1 DEF BeginReserve
<1>2. CASE InsertDemand
  <2>1. tx # NoTx /\ tx'.rid = tx.rid /\ UNCHANGED <<rows, pruned, fate, holding>>
    BY <1>0, <1>2 DEF InsertDemand, TxType
  <2>2. QED
    BY <2>1
<1>3. CASE RefuseDemand
  BY <1>3 DEF RefuseDemand
<1>4. CASE EndReserve
  <2>1. /\ tx # NoTx /\ tx' = NoTx /\ rows' = tx.table
        /\ pruned' = pruned \cup (rows \ tx.table)
        /\ fate' = [fate EXCEPT ![tx.rid] = "reserved"]
        /\ holding' = holding \cup {tx.rid}
    BY <1>4 DEF EndReserve
  <2>2. \A r \in rows' \cup pruned' : r \in Charged \/ r.rid = tx.rid
    BY <2>1 DEF PruningIsLate
  <2>3. rows' \cup pruned' \subseteq Row
    BY <1>0, <2>1
  <2>4. \A r \in rows' \cup pruned' : fate'[r.rid] # "none"
    BY <1>0, <2>1, <2>2, <2>3
  <2>5. \A rid \in holding' : fate'[rid] = "reserved"
    BY <1>0, <2>1
  <2>6. QED
    BY <2>1, <2>4, <2>5
<1>5. ASSUME NEW rid \in Reservations, NEW agent \in Agents, NEW digest \in Digests,
             Commit(rid, agent, digest)
      PROVE  FatesAgree'
  BY <1>0, <1>5 DEF Commit
<1>6. ASSUME NEW rid \in Reservations, Release(rid)
      PROVE  FatesAgree'
  BY <1>0, <1>6 DEF Release
<1>7. CASE Crash
  BY <1>7 DEF Crash
<1>8. CASE Tick
  BY <1>8 DEF Tick
<1>9. CASE UNCHANGED vars
  BY <1>9 DEF vars
<1>10. QED
  BY <1>1, <1>2, <1>3, <1>4, <1>5, <1>6, <1>7, <1>8, <1>9 DEF Next
-----------------------------------------------------------------------------
\* A demand that passes every check can be charged: the limits hold over the
\* live rows, the rows of the running transaction and the new row.
LEMMA AdmittedFits ==
    ASSUME NEW S \in SUBSET Row, IsFiniteSet(S), NEW B \in SUBSET S, NEW q \in Row,
           OldOutside(S, B, q), WithinLimits(S),
           NEW T, Live(T) = B, NEW agent, NEW d,
           q.agent = agent, q.rule = d.rule, q.recipient = d.recipient,
           q.asset = d.asset, q.units = d.units,
           Admits(T, agent, d, q.at)
    PROVE  WithinLimits(S \cup {q})
<1>1. ValueWithin(S \cup {q})
  <2>1. \A w \in Windows : ValueCap[q.agent][q.rule][w] # NoLimit =>
          /\ ValueCap[q.agent][q.rule][w].asset = q.asset
          /\ UnitsIn(Since(OfAsset(B, q.agent, q.rule, q.asset), Span(w), q.at)) + q.units
                <= ValueCap[q.agent][q.rule][w].units
    BY DEF Admits, ValueFits
  <2>2. QED
    BY <2>1, ValueAdd DEF WithinLimits
<1>2. CountWithin(S \cup {q})
  <2>1. \A w \in Windows : CountCap[q.agent][q.rule][w] # NoLimit =>
          Cardinality(Since(OfRule(B, q.agent, q.rule), Span(w), q.at)) < CountCap[q.agent][q.rule][w]
    BY DEF Admits, CountFits
  <2>2. QED
    BY <2>1, CountWithinAdd DEF WithinLimits
<1>3. RecipientsWithin(S \cup {q})
  <2>1. RecipientCap[q.agent][q.rule] # NoLimit =>
          Cardinality(Since(ToRecipient(B, q.agent, q.rule, q.recipient), HourMs, q.at))
             < RecipientCap[q.agent][q.rule]
    BY DEF Admits, RecipientFits
  <2>2. QED
    BY <2>1, RecipientsWithinAdd DEF WithinLimits
<1>4. SpacedOut(S \cup {q})
  <2>1. Cooldown[q.agent][q.rule] # NoLimit =>
          Since(ToRecipient(B, q.agent, q.rule, q.recipient), Cooldown[q.agent][q.rule], q.at) = {}
    BY DEF Admits, CooldownOver
  <2>2. QED
    BY <2>1, SpacedOutAdd DEF WithinLimits
<1>5. QED
  BY <1>1, <1>2, <1>3, <1>4 DEF WithinLimits

\* Every step keeps the limits over all live rows, those of the running
\* transaction included.
LEMMA LimitsStep == IInv /\ [Next]_vars => WithinLimits(Live(Counted))'
<1> SUFFICES ASSUME IInv, [Next]_vars PROVE WithinLimits(Live(Counted)')
  OBVIOUS
<1> DEFINE S == Live(Counted)
<1>0. /\ TypeOK /\ PruningIsLate /\ FatesAgree /\ WithinLimits(S)
      /\ rows \subseteq Row /\ pruned \subseteq Row /\ IsFiniteSet(rows) /\ IsFiniteSet(pruned)
      /\ tx # NoTx => tx \in TxType /\ tx.table \subseteq Row /\ IsFiniteSet(tx.table)
  BY DEF IInv, TypeOK, TxType
<1>a. S \in SUBSET Row /\ IsFiniteSet(S)
  <2>1. Counted \in SUBSET Row /\ IsFiniteSet(Counted)
    BY <1>0, FS_Union, FS_EmptySet DEF Counted, Charged
  <2>2. S \in SUBSET Counted
    BY DEF Live
  <2>3. QED
    BY <2>1, <2>2, FS_Subset
<1>b. (Live(Counted)' \subseteq S) => WithinLimits(Live(Counted)')
  BY <1>0, <1>a, LimitsMonotone
<1>1. ASSUME NEW rid \in Reservations, NEW agent \in Agents, NEW demands \in Batches,
             NEW lag \in 0 .. MaxLag, lag <= clock,
             BeginReserve(rid, agent, demands, clock - lag)
      PROVE  Live(Counted)' \subseteq S
  BY <1>1 DEF BeginReserve, Counted, Charged, Live
<1>2. CASE InsertDemand
  <2> DEFINE q == NewRow(tx)
             d == tx.demands[tx.next]
             B == Live(tx.table)
  <2>1. /\ tx # NoTx /\ tx.next <= Len(tx.demands) /\ Admits(tx.table, tx.agent, d, tx.now)
        /\ tx' = [tx EXCEPT !.next = @ + 1, !.table = @ \cup {q}]
        /\ UNCHANGED <<rows, pruned, fate>>
    BY <1>2 DEF InsertDemand
  <2>2. tx' # NoTx /\ tx'.table = tx.table \cup {q}
    <3>1. tx \in TxType /\ q \in Row /\ tx.next + 1 \in 1 .. MaxBatch + 1
      BY <1>0, <2>1, NewRowType
    <3>2. tx' \in TxType /\ tx'.table = tx.table \cup {q}
      BY <2>1, <3>1 DEF TxType
    <3>3. QED
      BY <3>2, NoTxAssumption
  <2>3. /\ q \in Row /\ q.rid = tx.rid /\ q.agent = tx.agent /\ q.at = tx.now
        /\ q.rule = d.rule /\ q.recipient = d.recipient /\ q.asset = d.asset /\ q.units = d.units
    <3>1. q \in Row /\ q.rid = tx.rid /\ q.agent = tx.agent /\ q.at = tx.now
      BY <1>0, <2>1, NewRowType
    <3>2. QED
      BY <3>1 DEF NewRow
  <2>4. Live(Counted)' \subseteq S \cup {q}
    BY <2>1, <2>2 DEF Live, Counted, Charged
  <2>5. B \in SUBSET S
    BY <2>1 DEF Live, Counted
  <2>6. OldOutside(S, B, q)
    <3> SUFFICES ASSUME NEW r \in S \ B PROVE r.at + DayMs <= q.at
      BY DEF OldOutside
    <3>1. r \in pruned \/ r \in rows \ tx.table
      BY <2>1 DEF Live, Counted, Charged
    <3>2. r.at \in Nat /\ q.at \in Nat
      BY <1>a, <2>3 DEF Row
    <3>3. CASE r \in pruned
      BY <2>1, <2>3, <3>3, <1>0 DEF PruningIsLate
    <3>4. CASE r \in rows \ tx.table
      <4>1. r.at + RetentionMs < q.at
        BY <2>1, <2>3, <3>4, <1>0 DEF PruningIsLate
      <4>2. QED
        BY <3>2, <4>1, RetentionAssumption, WindowAssumption
    <3>5. QED
      BY <3>1, <3>3, <3>4
  <2>7. WithinLimits(S \cup {q})
    BY <1>0, <1>a, <2>1, <2>3, <2>5, <2>6, AdmittedFits
  <2>8. S \cup {q} \in SUBSET Row /\ IsFiniteSet(S \cup {q})
    BY <1>a, <2>3, FS_AddElement
  <2>9. QED
    BY <2>4, <2>7, <2>8, LimitsMonotone
<1>3. CASE RefuseDemand
  BY <1>3, <1>b DEF RefuseDemand, Counted, Charged, Live
<1>4. CASE EndReserve
  <2>1. /\ tx # NoTx /\ tx' = NoTx /\ rows' = tx.table
        /\ pruned' = pruned \cup (rows \ tx.table)
        /\ fate' = [fate EXCEPT ![tx.rid] = "reserved"]
        /\ fate[tx.rid] = "none"
    BY <1>0, <1>4 DEF EndReserve, FatesAgree
  <2>2. Counted' \subseteq Counted
    BY <2>1 DEF Counted, Charged
  <2>3. \A r \in Counted' : fate'[r.rid] # "released" => fate[r.rid] # "released"
    <3>1. \A r \in Counted : r.rid \in Reservations
      BY <1>0, <2>1 DEF Counted, Charged, Row
    <3>2. fate \in [Reservations -> Fates]
      BY <1>0 DEF TypeOK
    <3>3. QED
      BY <2>1, <2>2, <3>1, <3>2
  <2>4. Live(Counted)' \subseteq S
    BY <2>2, <2>3 DEF Live
  <2>5. QED
    BY <2>4, <1>b
<1>c. ASSUME NEW rid \in Reservations, fate[rid] = "reserved",
             \A other \in Reservations \ {rid} : fate'[other] = fate[other],
             UNCHANGED <<rows, pruned, tx>>
      PROVE  Live(Counted)' \subseteq S
  <2>1. Counted' = Counted
    BY <1>c DEF Counted, Charged
  <2>2. \A r \in Counted : r.rid \in Reservations
    BY <1>0 DEF Counted, Charged, Row
  <2>3. \A r \in Counted : fate'[r.rid] # "released" => fate[r.rid] # "released"
    BY <1>c, <2>2
  <2>4. QED
    BY <2>1, <2>3 DEF Live
<1>5. ASSUME NEW rid \in Reservations, NEW agent \in Agents, NEW digest \in Digests,
             Commit(rid, agent, digest)
      PROVE  Live(Counted)' \subseteq S
  <2>1. /\ fate[rid] = "reserved" /\ UNCHANGED <<rows, pruned, tx>>
        /\ \A other \in Reservations \ {rid} : fate'[other] = fate[other]
    BY <1>0, <1>5 DEF Commit, FatesAgree, TypeOK
  <2>2. QED
    BY <2>1, <1>c
<1>6. ASSUME NEW rid \in Reservations, Release(rid)
      PROVE  Live(Counted)' \subseteq S
  <2>1. /\ fate[rid] = "reserved" /\ UNCHANGED <<rows, pruned, tx>>
        /\ \A other \in Reservations \ {rid} : fate'[other] = fate[other]
    BY <1>0, <1>6 DEF Release, FatesAgree, TypeOK
  <2>2. QED
    BY <2>1, <1>c
<1>7. CASE Crash
  BY <1>7, <1>b DEF Crash, Counted, Charged, Live
<1>8. CASE Tick
  BY <1>8, <1>b DEF Tick, Counted, Charged, Live
<1>9. CASE UNCHANGED vars
  BY <1>9, <1>b DEF vars, Counted, Charged, Live
<1>10. QED
  BY <1>1, <1>2, <1>3, <1>4, <1>5, <1>6, <1>7, <1>8, <1>9, <1>b DEF Next

\* The strengthened invariant is inductive and implies the promise.
LEMMA Inductive == Spec => [](IInv /\ LimitsHold)
<1>1. Init => IInv
  <2> SUFFICES ASSUME Init PROVE IInv
    OBVIOUS
  <2>1. TypeOK
    BY FS_EmptySet DEF Init, TypeOK, Fates
  <2>2. PruningIsLate /\ FatesAgree
    BY DEF Init, PruningIsLate, FatesAgree, Charged
  <2>3. Live(Counted) = {}
    BY DEF Init, Live, Counted, Charged
  <2>4. WithinLimits({})
    BY DEF WithinLimits, ValueWithin, CountWithin, RecipientsWithin, SpacedOut, OfRule
  <2>5. QED
    BY <2>1, <2>2, <2>3, <2>4 DEF IInv
<1>2. IInv /\ [Next]_vars => IInv'
  <2> SUFFICES ASSUME IInv, [Next]_vars PROVE IInv'
    OBVIOUS
  <2>1. TypeOK /\ PruningIsLate /\ FatesAgree
    BY DEF IInv
  <2>2. TypeOK' /\ PruningIsLate' /\ FatesAgree'
    BY <2>1, TypeStep, PruningStep, FatesStep
  <2>3. WithinLimits(Live(Counted))'
    BY LimitsStep
  <2>4. QED
    BY <2>2, <2>3 DEF IInv
<1>3. IInv => LimitsHold
  <2> SUFFICES ASSUME IInv PROVE LimitsHold
    OBVIOUS
  <2>1. Counted \in SUBSET Row /\ IsFiniteSet(Counted)
    BY FS_Union, FS_EmptySet DEF IInv, TypeOK, TxType, Counted, Charged
  <2>2. Live(Counted) \in SUBSET Counted /\ Live(Charged) \in SUBSET Live(Counted)
    BY DEF Live, Counted
  <2>3. Live(Counted) \in SUBSET Row /\ IsFiniteSet(Live(Counted))
    BY <2>1, <2>2, FS_Subset
  <2>4. WithinLimits(Live(Counted))
    BY DEF IInv
  <2>5. QED
    BY <2>2, <2>3, <2>4, LimitsMonotone DEF LimitsHold
<1>4. QED
  BY <1>1, <1>2, <1>3, PTL DEF Spec

\* The caps hold in every sliding window, for every interleaving of requests,
\* stale instants, refusals, crashes and prunings.
THEOREM JournalLimitsHold == Spec => []LimitsHold
BY Inductive, PTL

-----------------------------------------------------------------------------
\* A settled reservation never changes again: quota that followed a signature
\* can not be given back later, and returned quota is not taken again.
THEOREM JournalSettlesForGood == Spec => SettledForGood
<1>1. TypeOK /\ FatesAgree /\ [Next]_vars =>
        [\A rid \in Reservations :
           fate[rid] \in {"committed", "released"} =>
              fate'[rid] = fate[rid] /\ digestOf'[rid] = digestOf[rid]]_vars
  <2> SUFFICES ASSUME TypeOK, FatesAgree, Next, NEW rid \in Reservations,
                      fate[rid] \in {"committed", "released"}
               PROVE  fate'[rid] = fate[rid] /\ digestOf'[rid] = digestOf[rid]
    OBVIOUS
  <2>0. /\ fate \in [Reservations -> Fates] /\ digestOf \in [Reservations -> Digests \cup {NoDigest}]
        /\ \A r \in holding : fate[r] = "reserved"
        /\ tx # NoTx => fate[tx.rid] = "none"
    BY DEF TypeOK, FatesAgree
  <2>1. ASSUME NEW r \in Reservations, NEW agent \in Agents, NEW demands \in Batches,
               NEW lag \in 0 .. MaxLag, BeginReserve(r, agent, demands, clock - lag)
        PROVE  UNCHANGED <<fate, digestOf>>
    BY <2>1 DEF BeginReserve
  <2>2. InsertDemand \/ RefuseDemand \/ Crash \/ Tick => UNCHANGED <<fate, digestOf>>
    BY DEF InsertDemand, RefuseDemand, Crash, Tick
  <2>3. CASE EndReserve
    <3>1. rid # tx.rid
      BY <2>0, <2>3 DEF EndReserve
    <3>2. QED
      BY <2>0, <2>3, <3>1 DEF EndReserve
  <2>4. ASSUME NEW r \in Reservations, NEW agent \in Agents, NEW digest \in Digests,
               Commit(r, agent, digest)
        PROVE  fate'[rid] = fate[rid] /\ digestOf'[rid] = digestOf[rid]
    <3>1. r # rid
      BY <2>0, <2>4 DEF Commit
    <3>2. QED
      BY <2>0, <2>4, <3>1 DEF Commit
  <2>5. ASSUME NEW r \in Reservations, Release(r)
        PROVE  fate'[rid] = fate[rid] /\ digestOf'[rid] = digestOf[rid]
    <3>1. r # rid
      BY <2>0, <2>5 DEF Release
    <3>2. QED
      BY <2>0, <2>5, <3>1 DEF Release
  <2>6. QED
    BY <2>1, <2>2, <2>3, <2>4, <2>5 DEF Next
<1>2. IInv => TypeOK /\ FatesAgree
  BY DEF IInv
<1>3. QED
  BY <1>1, <1>2, Inductive, PTL DEF Spec, SettledForGood

\* A signed transaction of an agent is charged by at most one reservation in
\* the table: committing it again gives the second reservation back.
THEOREM JournalOneChargePerDigest == Spec => []OneChargePerDigest
<1>1. Init => OneChargePerDigest
  BY DEF Init, OneChargePerDigest
<1>2. IInv /\ OneChargePerDigest /\ [Next]_vars => OneChargePerDigest'
  <2> SUFFICES ASSUME IInv, OneChargePerDigest, [Next]_vars,
                      NEW r \in rows', NEW s \in rows', r.agent = s.agent,
                      fate'[r.rid] = "committed", fate'[s.rid] = "committed",
                      digestOf'[r.rid] = digestOf'[s.rid]
               PROVE  r.rid = s.rid
    BY DEF OneChargePerDigest
  <2>0. /\ fate \in [Reservations -> Fates] /\ digestOf \in [Reservations -> Digests \cup {NoDigest}]
        /\ rows \subseteq Row /\ \A q \in Row : q.rid \in Reservations
        /\ tx # NoTx => tx.rid \in Reservations /\ tx.table \subseteq Row
    BY DEF IInv, TypeOK, TxType, Row
  <2>a. (rows' = rows /\ fate' = fate /\ digestOf' = digestOf) => r.rid = s.rid
    BY DEF OneChargePerDigest
  <2>1. ASSUME NEW rid \in Reservations, NEW agent \in Agents, NEW demands \in Batches,
               NEW lag \in 0 .. MaxLag, BeginReserve(rid, agent, demands, clock - lag)
        PROVE  r.rid = s.rid
    BY <2>1, <2>a DEF BeginReserve
  <2>2. CASE InsertDemand \/ RefuseDemand \/ Crash \/ Tick \/ UNCHANGED vars
    BY <2>2, <2>a DEF InsertDemand, RefuseDemand, Crash, Tick, vars
  <2>3. CASE EndReserve
    <3>1. /\ tx # NoTx /\ rows' = tx.table /\ digestOf' = digestOf
          /\ fate' = [fate EXCEPT ![tx.rid] = "reserved"]
      BY <2>3 DEF EndReserve
    <3>2. r.rid # tx.rid /\ s.rid # tx.rid
      BY <2>0, <3>1
    <3>3. r \in rows /\ s \in rows
      BY <3>1, <3>2 DEF IInv, PruningIsLate
    <3>4. fate[r.rid] = "committed" /\ fate[s.rid] = "committed"
      BY <2>0, <3>1, <3>2, <3>3
    <3>5. QED
      BY <3>1, <3>3, <3>4 DEF OneChargePerDigest
  <2>4. ASSUME NEW rid \in Reservations, NEW agent \in Agents, NEW digest \in Digests,
               Commit(rid, agent, digest)
        PROVE  r.rid = s.rid
    <3>1. rows' = rows /\ \A q \in rows : q.rid = rid => q.agent = agent
      BY <2>4 DEF Commit
    <3>2. CASE CommittedAlready(agent, digest)
      <4>1. fate' = [fate EXCEPT ![rid] = "released"] /\ digestOf' = digestOf
        BY <2>4, <3>2 DEF Commit
      <4>2. fate[r.rid] = "committed" /\ fate[s.rid] = "committed"
        BY <2>0, <3>1, <4>1
      <4>3. QED
        BY <3>1, <4>1, <4>2 DEF OneChargePerDigest
    <3>3. CASE ~CommittedAlready(agent, digest)
      <4>1. /\ fate' = [fate EXCEPT ![rid] = "committed"]
            /\ digestOf' = [digestOf EXCEPT ![rid] = digest]
        BY <2>4, <3>3 DEF Commit
      <4>2. \A q \in rows : q.agent = agent /\ fate[q.rid] = "committed" => digestOf[q.rid] # digest
        BY <3>3 DEF CommittedAlready
      <4>3. CASE r.rid = rid /\ s.rid # rid
        BY <2>0, <3>1, <4>1, <4>2, <4>3
      <4>4. CASE s.rid = rid /\ r.rid # rid
        BY <2>0, <3>1, <4>1, <4>2, <4>4
      <4>5. CASE r.rid # rid /\ s.rid # rid
        BY <2>0, <3>1, <4>1, <4>5 DEF OneChargePerDigest
      <4>6. QED
        BY <4>3, <4>4, <4>5
    <3>4. QED
      BY <3>2, <3>3
  <2>5. ASSUME NEW rid \in Reservations, Release(rid)
        PROVE  r.rid = s.rid
    <3>1. rows' = rows /\ digestOf' = digestOf /\ fate' = [fate EXCEPT ![rid] = "released"]
      BY <2>5 DEF Release
    <3>2. fate[r.rid] = "committed" /\ fate[s.rid] = "committed"
      BY <2>0, <3>1
    <3>3. QED
      BY <3>1, <3>2 DEF OneChargePerDigest
  <2>6. QED
    BY <2>1, <2>2, <2>3, <2>4, <2>5 DEF Next
<1>3. QED
  BY <1>1, <1>2, Inductive, PTL DEF Spec

\* The rows an open transaction has inserted are those of the demands it is past.
InsertedSoFar ==
    tx # NoTx =>
        /\ tx.next <= Len(tx.demands) + 1
        /\ {s.n : s \in {q \in tx.table : q.rid = tx.rid}} = 1 .. tx.next - 1

LEMMA InsertedStep == IInv /\ InsertedSoFar /\ [Next]_vars => InsertedSoFar'
<1> SUFFICES ASSUME IInv, InsertedSoFar, [Next]_vars PROVE InsertedSoFar'
  OBVIOUS
<1>0. NoTx \notin TxType
  BY NoTxAssumption
<1>1. ASSUME NEW rid \in Reservations, NEW agent \in Agents, NEW demands \in Batches,
             NEW lag \in 0 .. MaxLag, BeginReserve(rid, agent, demands, clock - lag)
      PROVE  InsertedSoFar'
  <2>1. /\ fate[rid] = "none" /\ tx'.rid = rid /\ tx'.demands = demands /\ tx'.next = 1
        /\ tx'.table \subseteq rows
    BY <1>1 DEF BeginReserve
  <2>2. \A q \in rows : q.rid # rid
    BY <2>1 DEF IInv, FatesAgree, Charged
  <2>3. Len(demands) \in Nat
    BY BatchType
  <2>4. 1 .. 1 - 1 = {}
    OBVIOUS
  <2>5. QED
    BY <2>1, <2>2, <2>3, <2>4 DEF InsertedSoFar
<1>2. CASE InsertDemand
  <2>1. /\ tx # NoTx /\ tx.next <= Len(tx.demands) /\ tx \in TxType
        /\ tx' = [tx EXCEPT !.next = @ + 1, !.table = @ \cup {NewRow(tx)}]
    BY <1>2 DEF InsertDemand, IInv, TypeOK
  <2>2. /\ tx'.rid = tx.rid /\ tx'.demands = tx.demands /\ tx'.next = tx.next + 1
        /\ tx'.table = tx.table \cup {NewRow(tx)}
    BY <2>1 DEF TxType
  <2>3. tx.next \in Nat /\ tx.next >= 1 /\ Len(tx.demands) \in Nat
    BY <2>1, BatchType, DemandAssumption DEF TxType
  <2>4. NewRow(tx).rid = tx.rid /\ NewRow(tx).n = tx.next
    BY DEF NewRow
  <2>5. {s.n : s \in {q \in tx'.table : q.rid = tx.rid}} = (1 .. tx.next - 1) \cup {tx.next}
    BY <2>1, <2>2, <2>4 DEF InsertedSoFar
  <2>6. (1 .. tx.next - 1) \cup {tx.next} = 1 .. (tx.next + 1) - 1
    BY <2>3
  <2>7. QED
    BY <2>1, <2>2, <2>3, <2>5, <2>6 DEF InsertedSoFar
<1>3. CASE RefuseDemand \/ EndReserve \/ Crash
  BY <1>3 DEF RefuseDemand, EndReserve, Crash, InsertedSoFar
<1>4. CASE Tick \/ UNCHANGED vars
  BY <1>4 DEF Tick, vars, InsertedSoFar
<1>5. ASSUME NEW rid \in Reservations, NEW agent \in Agents, NEW digest \in Digests,
             Commit(rid, agent, digest)
      PROVE  InsertedSoFar'
  BY <1>5 DEF Commit, InsertedSoFar
<1>6. ASSUME NEW rid \in Reservations, Release(rid)
      PROVE  InsertedSoFar'
  BY <1>6 DEF Release, InsertedSoFar
<1>7. QED
  BY <1>1, <1>2, <1>3, <1>4, <1>5, <1>6 DEF Next

\* The rows of a reservation appear in the table together, one for each demand
\* of its transaction (reserve() is one SQLite transaction).
THEOREM JournalReservesWhole == Spec => AllOrNothing
<1>1. Init => InsertedSoFar
  BY DEF Init, InsertedSoFar
<1>2. IInv /\ InsertedSoFar /\ [Next]_vars =>
        [\A r \in rows' \ rows :
           /\ tx # NoTx /\ r.rid = tx.rid
           /\ {s.n : s \in {q \in rows' : q.rid = r.rid}} = DOMAIN tx.demands]_vars
  <2> SUFFICES ASSUME IInv, InsertedSoFar, Next, NEW r \in rows' \ rows
               PROVE  /\ tx # NoTx /\ r.rid = tx.rid
                      /\ {s.n : s \in {q \in rows' : q.rid = r.rid}} = DOMAIN tx.demands
    OBVIOUS
  <2>1. EndReserve
    <3>1. rows' # rows
      OBVIOUS
    <3>2. \A rid \in Reservations, agent \in Agents, demands \in Batches, lag \in 0 .. MaxLag :
             BeginReserve(rid, agent, demands, clock - lag) => rows' = rows
      BY DEF BeginReserve
    <3>3. \A rid \in Reservations, agent \in Agents, digest \in Digests :
             Commit(rid, agent, digest) => rows' = rows
      BY DEF Commit
    <3>4. \A rid \in Reservations : Release(rid) => rows' = rows
      BY DEF Release
    <3>5. InsertDemand \/ RefuseDemand \/ Crash \/ Tick => rows' = rows
      BY DEF InsertDemand, RefuseDemand, Crash, Tick
    <3>6. QED
      BY <3>1, <3>2, <3>3, <3>4, <3>5 DEF Next
  <2>2. tx # NoTx /\ rows' = tx.table /\ tx.next > Len(tx.demands) /\ tx \in TxType
    BY <2>1 DEF EndReserve, IInv, TypeOK
  <2>3. r.rid = tx.rid
    BY <2>2 DEF IInv, PruningIsLate
  <2>4. /\ tx.next \in Nat /\ Len(tx.demands) \in Nat
        /\ DOMAIN tx.demands = 1 .. Len(tx.demands)
    BY <2>2, BatchType, LenProperties, DemandAssumption DEF TxType
  <2>5. tx.next - 1 = Len(tx.demands)
    BY <2>2, <2>4 DEF InsertedSoFar
  <2>6. QED
    BY <2>2, <2>3, <2>4, <2>5 DEF InsertedSoFar
<1>3. QED
  BY <1>1, <1>2, InsertedStep, Inductive, PTL DEF Spec, AllOrNothing

-----------------------------------------------------------------------------
\* A new row of the table belongs to the reservation being made, which had none.
LEMMA EndReserveAdmits ==
    ASSUME IInv, LimitsHold', EndReserve, Charged' # Charged
    PROVE  Ledger!Admit(Charged' \ Charged)
<1> DEFINE given == {rid \in Reservations : fate[rid] = "released"}
           given2 == {rid \in Reservations : fate'[rid] = "released"}
           keep == {rid \in Reservations : fate[rid] = "committed"}
           keep2 == {rid \in Reservations : fate'[rid] = "committed"}
           batch == Charged' \ Charged
<1>1. /\ tx # NoTx /\ rows' = tx.table /\ pruned' = pruned \cup (rows \ tx.table)
      /\ fate' = [fate EXCEPT ![tx.rid] = "reserved"]
      /\ fate[tx.rid] = "none"
      /\ fate \in [Reservations -> Fates]
      /\ rows \subseteq Row /\ pruned \subseteq Row /\ tx.table \subseteq Row
  BY DEF EndReserve, IInv, FatesAgree, TypeOK, TxType
<1>2. Charged' \in SUBSET Row /\ Charged \subseteq Charged' /\ batch \subseteq tx.table \ rows
  BY <1>1 DEF Charged
<1>3. \A r \in batch : r.rid = tx.rid /\ r.agent = tx.agent /\ r.at = tx.now
  BY <1>1, <1>2 DEF IInv, PruningIsLate
<1>4. \A s \in Charged : s.rid # tx.rid
  BY <1>1 DEF IInv, FatesAgree
<1>5. keep2 = keep /\ given2 = given
  BY <1>1
<1>6. WithinLimits(Ledger!Standing(Charged', given))
  <2>1. \A r \in Row : r.rid \in Reservations
    BY DEF Row
  <2>2. Ledger!Standing(Charged', given2) = {r \in Charged' : fate'[r.rid] # "released"}
    BY <1>2, <2>1 DEF Ledger!Standing
  <2>3. WithinLimits({r \in Charged' : fate'[r.rid] # "released"})
    BY DEF LimitsHold, Live
  <2>4. QED
    BY <1>5, <2>2, <2>3
<1>7. batch # {} /\ batch \subseteq Row
  BY <1>2
<1>8. Charged' = Charged \cup batch
  BY <1>2
<1>9. \A r \in batch, s \in Charged : s.rid # r.rid
  BY <1>3, <1>4
<1>10. \A r, s \in batch : r.rid = s.rid /\ r.agent = s.agent /\ r.at = s.at
  BY <1>3
<1>11. QED
  BY <1>5, <1>6, <1>7, <1>8, <1>9, <1>10 DEF Ledger!Admit

\* The journal implements the ledger: pruning, statements of a transaction,
\* refusals and crashes are stutters, the end of a reserve() admits a batch,
\* commit() keeps or refunds it, release() refunds it.
THEOREM JournalImplementsLedger == Spec => LedgerImplemented
<1> DEFINE given == {rid \in Reservations : fate[rid] = "released"}
           keep == {rid \in Reservations : fate[rid] = "committed"}
<1>1. Init => Ledger!LedgerInit
  BY DEF Init, Ledger!LedgerInit, Charged
<1>2. IInv /\ LimitsHold' /\ [Next]_vars => [Ledger!LedgerNext]_(Ledger!ledgerVars)
  <2> SUFFICES ASSUME IInv, LimitsHold', [Next]_vars
               PROVE  Ledger!LedgerNext \/ UNCHANGED <<Charged, keep, given>>
    BY DEF Ledger!ledgerVars
  <2>0. fate \in [Reservations -> Fates] /\ \A rid \in holding : fate[rid] = "reserved"
    BY DEF IInv, TypeOK, FatesAgree
  <2>a. (rows' = rows /\ pruned' = pruned /\ fate' = fate) => UNCHANGED <<Charged, keep, given>>
    BY DEF Charged
  <2>1. ASSUME NEW rid \in Reservations, NEW agent \in Agents, NEW demands \in Batches,
               NEW lag \in 0 .. MaxLag, BeginReserve(rid, agent, demands, clock - lag)
        PROVE  UNCHANGED <<Charged, keep, given>>
    BY <2>1, <2>a DEF BeginReserve
  <2>2. CASE InsertDemand \/ RefuseDemand \/ Crash \/ Tick \/ UNCHANGED vars
    BY <2>2, <2>a DEF InsertDemand, RefuseDemand, Crash, Tick, vars
  <2>3. CASE EndReserve
    <3>1. CASE Charged' = Charged
      <4>1. fate[tx.rid] = "none" /\ fate' = [fate EXCEPT ![tx.rid] = "reserved"]
        BY <2>3 DEF EndReserve, IInv, FatesAgree
      <4>2. keep' = keep /\ given' = given
        BY <2>0, <4>1
      <4>3. QED
        BY <3>1, <4>2
    <3>2. CASE Charged' # Charged
      BY <2>3, <3>2, EndReserveAdmits DEF Ledger!LedgerNext
    <3>3. QED
      BY <3>1, <3>2
  <2>b. ASSUME NEW rid \in Reservations, fate[rid] = "reserved",
               rows' = rows, pruned' = pruned, fate' = [fate EXCEPT ![rid] = "released"]
        PROVE  Ledger!LedgerNext
    <3>1. rid \notin keep /\ given' = given \cup {rid} /\ UNCHANGED <<Charged, keep>>
      BY <2>0, <2>b DEF Charged
    <3>2. Ledger!Refund(rid)
      BY <3>1 DEF Ledger!Refund
    <3>3. QED
      BY <3>2 DEF Ledger!LedgerNext
  <2>4. ASSUME NEW rid \in Reservations, NEW agent \in Agents, NEW digest \in Digests,
               Commit(rid, agent, digest)
        PROVE  Ledger!LedgerNext
    <3>1. fate[rid] = "reserved" /\ rows' = rows /\ pruned' = pruned
      BY <2>0, <2>4 DEF Commit
    <3>2. CASE fate' = [fate EXCEPT ![rid] = "released"]
      BY <2>b, <3>1, <3>2
    <3>3. CASE fate' = [fate EXCEPT ![rid] = "committed"]
      <4>1. rid \notin given /\ keep' = keep \cup {rid} /\ UNCHANGED <<Charged, given>>
        BY <2>0, <3>1, <3>3 DEF Charged
      <4>2. Ledger!Keep(rid)
        BY <4>1 DEF Ledger!Keep
      <4>3. QED
        BY <4>2 DEF Ledger!LedgerNext
    <3>4. QED
      BY <2>4, <3>2, <3>3 DEF Commit
  <2>5. ASSUME NEW rid \in Reservations, Release(rid)
        PROVE  Ledger!LedgerNext
    BY <2>0, <2>5, <2>b DEF Release
  <2>6. QED
    BY <2>1, <2>2, <2>3, <2>4, <2>5 DEF Next
<1>3. QED
  BY <1>1, <1>2, Inductive, PTL DEF Spec, LedgerImplemented, Ledger!LedgerSpec

=============================================================================
