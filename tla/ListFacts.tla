------------------------------ MODULE ListFacts ------------------------------
(***************************************************************************)
(* Facts that the proofs about policies share.  Of numbers and lists:      *)
(* least elements, induction over sets of naturals, the ends of a list and *)
(* what FlattenSeq puts together.  Of the policy engine: where a loop over *)
(* tests ends, which rule governs an action, and what an "ALLOW" comes to. *)
(***************************************************************************)
EXTENDS PolicyEngine, SequenceTheorems, WellFoundedInduction, TLAPS

-----------------------------------------------------------------------------
(***************************************************************************)
(* Least elements, and induction over sets of naturals.                    *)
(***************************************************************************)
\* A nonempty set of naturals has a least element.
LEMMA Least ==
    ASSUME NEW S \in SUBSET Nat, S # {}
    PROVE  \E m \in S : \A n \in S : m <= n
<1> DEFINE R == OpToRel(<, Nat)
<1>1. IsWellFoundedOn(R, Nat)
  BY NatLessThanWellFounded
<1>2. \A x, y \in Nat : <<x, y>> \in R <=> x < y
  BY DEF OpToRel
<1> HIDE DEF R
<1>3. PICK m \in S : \A n \in S : ~(<<n, m>> \in R)
  BY <1>1, WFMin
<1>4. ASSUME NEW n \in S PROVE m <= n
  <2>1. n \in Nat /\ m \in Nat
    OBVIOUS
  <2>2. ~(n < m)
    BY <1>2, <1>3, <2>1
  <2>3. QED
    BY <2>1, <2>2
<1>5. QED
  BY <1>4

\* A set of naturals with 0 and the successors of its elements has them all.
LEMMA Induct ==
    ASSUME NEW S \in SUBSET Nat, 0 \in S, \A n \in S : n + 1 \in S
    PROVE  S = Nat
<1>1. SUFFICES ASSUME Nat \ S # {} PROVE FALSE
  OBVIOUS
<1>2. PICK m \in Nat \ S : \A n \in Nat \ S : m <= n
  BY <1>1, Least
<1>3. m # 0 /\ m - 1 \in Nat
  BY <1>2
<1>4. m - 1 \in S
  BY <1>3, <1>2
<1>5. QED
  BY <1>4, <1>2

\* Min is the least element.
LEMMA MinIsLeast ==
    ASSUME NEW S \in SUBSET Nat, S # {}
    PROVE  Min(S) \in S /\ \A n \in S : Min(S) <= n
BY Least DEF Min

LEMMA MinIs ==
    ASSUME NEW S \in SUBSET Nat, NEW m \in S, \A n \in S : m <= n
    PROVE  Min(S) = m
<1>1. Min(S) \in S /\ \A n \in S : Min(S) <= n
  BY MinIsLeast
<1>2. Min(S) \in Nat /\ m \in Nat /\ Min(S) <= m /\ m <= Min(S)
  BY <1>1
<1>3. QED
  BY <1>2

-----------------------------------------------------------------------------
(***************************************************************************)
(* FirstOther.                                                             *)
(***************************************************************************)
\* The loop passes when every test does.
LEMMA FirstOtherPasses ==
    ASSUME NEW v, NEW n \in Nat, DOMAIN v = 1 .. n, NEW pass
    PROVE  FirstOther(v, pass) = pass <=> \A i \in DOMAIN v : v[i] = pass
<1> DEFINE others == {i \in DOMAIN v : v[i] # pass}
<1>1. FirstOther(v, pass) = IF others = {} THEN pass ELSE v[Min(others)]
  BY DEF FirstOther
<1>2. others \in SUBSET Nat /\ \A i \in DOMAIN v : i \in others <=> v[i] # pass
  OBVIOUS
<1>3. \A i \in others : v[i] # pass /\ i \in DOMAIN v
  OBVIOUS
<1> HIDE DEF others
<1>4. others # {} => Min(others) \in others
  BY <1>2, MinIsLeast
<1>5. QED
  BY <1>1, <1>2, <1>3, <1>4

\* It ends at the first test that does not.
LEMMA FirstOtherEnds ==
    ASSUME NEW v, NEW n \in Nat, DOMAIN v = 1 .. n, NEW pass,
           FirstOther(v, pass) # pass
    PROVE  \E i \in DOMAIN v : /\ FirstOther(v, pass) = v[i]
                               /\ v[i] # pass
                               /\ \A k \in DOMAIN v : k < i => v[k] = pass
<1> DEFINE others == {i \in DOMAIN v : v[i] # pass}
<1>1. others # {} /\ FirstOther(v, pass) = v[Min(others)]
  BY DEF FirstOther
<1>2. others \in SUBSET Nat /\ \A i \in DOMAIN v : i \in others <=> v[i] # pass
  OBVIOUS
<1>3. \A i \in others : i \in DOMAIN v /\ i \in Nat
  OBVIOUS
<1> HIDE DEF others
<1>4. Min(others) \in others /\ \A k \in others : Min(others) <= k
  BY <1>1, <1>2, MinIsLeast
<1>5. ASSUME NEW k \in DOMAIN v, k < Min(others) PROVE v[k] = pass
  <2>1. k \in Nat /\ Min(others) \in Nat
    BY <1>3, <1>4
  <2>2. k \notin others
    BY <1>4, <1>5, <2>1
  <2>3. QED
    BY <1>2, <2>2
<1>6. QED
  BY <1>1, <1>2, <1>3, <1>4, <1>5

\* Tests that agree up to where one loop ends, end the other there.
LEMMA FirstOtherIs ==
    ASSUME NEW v, NEW n \in Nat, DOMAIN v = 1 .. n, NEW pass,
           NEW i \in DOMAIN v, v[i] # pass,
           \A k \in DOMAIN v : k < i => v[k] = pass
    PROVE  FirstOther(v, pass) = v[i]
<1> DEFINE others == {k \in DOMAIN v : v[k] # pass}
<1>1. i \in others /\ \A k \in others : i <= k
  OBVIOUS
<1>2. Min(others) = i
  BY <1>1, MinIs
<1>3. QED
  BY <1>1, <1>2 DEF FirstOther

-----------------------------------------------------------------------------
(* Lists: their ends, and what is in them. *)

\* A list without its last, and two lists in one.
LEMMA FrontAndLast ==
    ASSUME NEW N, NEW list \in Seq(N), list # <<>>
    PROVE  /\ Len(list) \in Nat /\ Len(list) > 0
           /\ Front(list) \in Seq(N) /\ Len(Front(list)) = Len(list) - 1
           /\ Last(list) \in N
           /\ ToSet(list) = ToSet(Front(list)) \cup {Last(list)}
<1> DEFINE n == Len(list) - 1
<1>1. Len(list) \in Nat /\ Len(list) > 0 /\ n \in Nat /\ DOMAIN list = 1 .. n + 1
  OBVIOUS
<1>2. \A i \in 1 .. n + 1 : list[i] \in N
  OBVIOUS
<1>3. 1 \in Int /\ n \in Int /\ \A i \in 1 .. n : list[i] \in N
  BY <1>1, <1>2
<1>4. Front(list) = SubSeq(list, 1, n) /\ Last(list) = list[n + 1]
  BY <1>1 DEF Front, Last
<1> HIDE DEF n
<1>5. /\ SubSeq(list, 1, n) \in Seq(N)
      /\ Len(SubSeq(list, 1, n)) = IF 1 <= n THEN n - 1 + 1 ELSE 0
      /\ \A i \in 1 .. n - 1 + 1 : SubSeq(list, 1, n)[i] = list[1 + i - 1]
  BY <1>3, SubSeqProperties
<1>6. Len(Front(list)) = n
  BY <1>1, <1>4, <1>5
<1>7. Front(list) \in Seq(N)
  BY <1>4, <1>5
<1>8. DOMAIN Front(list) = 1 .. n
  BY <1>6, <1>7
<1>9. \A i \in 1 .. n : Front(list)[i] = list[i]
  <2>1. TAKE i \in 1 .. n
  <2>2. i \in 1 .. n - 1 + 1 /\ 1 + i - 1 = i
    BY <1>1
  <2>3. QED
    BY <1>4, <1>5, <2>2
<1>10. \A i \in 1 .. n + 1 : i \in 1 .. n \/ i = n + 1
  BY <1>1
<1>11. 1 .. n \subseteq 1 .. n + 1 /\ n + 1 \in 1 .. n + 1
  BY <1>1
<1>12. ToSet(list) = ToSet(Front(list)) \cup {Last(list)}
  <2>1. ToSet(list) = {list[i] : i \in 1 .. n + 1}
    BY <1>1 DEF ToSet
  <2>2. ToSet(Front(list)) = {Front(list)[i] : i \in 1 .. n}
    BY <1>8 DEF ToSet
  <2>3. QED
    BY <1>4, <1>9, <1>10, <1>11, <2>1, <2>2
<1>13. Last(list) \in N
  BY <1>2, <1>4, <1>11
<1>14. QED
  BY <1>1, <1>6, <1>7, <1>12, <1>13 DEF n

LEMMA ListOfBoth ==
    ASSUME NEW N, NEW s \in Seq(N), NEW t \in Seq(N)
    PROVE  /\ s \o t \in Seq(N) /\ Len(s \o t) = Len(s) + Len(t)
           /\ ToSet(s \o t) = ToSet(s) \cup ToSet(t)
<1>1. Len(s) \in Nat /\ Len(t) \in Nat /\ DOMAIN s = 1 .. Len(s) /\ DOMAIN t = 1 .. Len(t)
  OBVIOUS
<1>2. /\ s \o t \in Seq(N) /\ Len(s \o t) = Len(s) + Len(t)
      /\ \A i \in 1 .. Len(s) + Len(t) : (s \o t)[i] = IF i <= Len(s) THEN s[i] ELSE t[i - Len(s)]
  BY ConcatProperties
<1>3. DOMAIN (s \o t) = 1 .. Len(s) + Len(t)
  BY <1>2
<1> DEFINE u == s \o t
           m == Len(s)
           n == Len(t)
<1> HIDE DEF u, m, n
<1>4. \A i \in 1 .. m : i \in 1 .. m + n /\ u[i] = s[i]
  BY <1>1, <1>2 DEF u, m, n
<1>5. \A i \in 1 .. n : i + m \in 1 .. m + n /\ u[i + m] = t[i]
  <2>1. TAKE i \in 1 .. n
  <2>2. i + m \in 1 .. m + n /\ ~(i + m <= m) /\ (i + m) - m = i
    BY <1>1 DEF m, n
  <2>3. QED
    BY <1>2, <2>2 DEF u, m, n
<1>6. \A i \in 1 .. m + n : i \in 1 .. m \/ (i - m \in 1 .. n /\ (i - m) + m = i)
  BY <1>1 DEF m, n
<1>7. ToSet(u) = ToSet(s) \cup ToSet(t)
  <2>1. /\ ToSet(u) = {u[i] : i \in 1 .. m + n}
        /\ ToSet(s) = {s[i] : i \in 1 .. m} /\ ToSet(t) = {t[i] : i \in 1 .. n}
    BY <1>1, <1>3 DEF ToSet, u, m, n
  <2>2. ASSUME NEW x \in ToSet(u) PROVE x \in ToSet(s) \cup ToSet(t)
    <3>1. PICK i \in 1 .. m + n : x = u[i]
      BY <2>1, <2>2
    <3>2. CASE i \in 1 .. m
      BY <1>4, <2>1, <3>1, <3>2
    <3>3. CASE i - m \in 1 .. n /\ (i - m) + m = i
      BY <1>5, <2>1, <3>1, <3>3
    <3>4. QED
      BY <1>6, <3>2, <3>3
  <2>3. ToSet(s) \subseteq ToSet(u)
    BY <1>4, <2>1
  <2>4. ToSet(t) \subseteq ToSet(u)
    BY <1>5, <2>1
  <2>5. QED
    BY <2>2, <2>3, <2>4
<1>8. QED
  BY <1>2, <1>7 DEF u

LEMMA ListAndOne ==
    ASSUME NEW N, NEW list \in Seq(N), NEW x \in N
    PROVE  ToSet(Append(list, x)) = ToSet(list) \cup {x}
<1>1. /\ Append(list, x) \in Seq(N) /\ Len(list) \in Nat
      /\ DOMAIN Append(list, x) = 1 .. Len(list) + 1 /\ DOMAIN list = 1 .. Len(list)
      /\ \A i \in 1 .. Len(list) : Append(list, x)[i] = list[i]
      /\ Append(list, x)[Len(list) + 1] = x
  OBVIOUS
<1> DEFINE u == Append(list, x)
           n == Len(list)
<1>2. \A i \in 1 .. n + 1 : i \in 1 .. n \/ i = n + 1
  BY <1>1
<1>3. 1 .. n \subseteq 1 .. n + 1 /\ n + 1 \in 1 .. n + 1
  BY <1>1
<1>4. ToSet(u) = {u[i] : i \in 1 .. n + 1} /\ ToSet(list) = {list[i] : i \in 1 .. n}
  BY <1>1 DEF ToSet
<1> HIDE DEF u, n
<1>5. \A i \in 1 .. n : u[i] = list[i]
  BY <1>1 DEF u, n
<1>6. u[n + 1] = x
  BY <1>1 DEF u, n
<1>7. ToSet(u) = ToSet(list) \cup {x}
  BY <1>2, <1>3, <1>4, <1>5, <1>6
<1>8. QED
  BY <1>7 DEF u

LEMMA LastAt ==
    ASSUME NEW N, NEW list \in Seq(N), NEW x \in ToSet(list)
    PROVE  \E i \in DOMAIN list : list[i] = x /\ \A j \in DOMAIN list : list[j] = x => j <= i
<1> DEFINE n == Len(list)
           D == {k \in 0 .. n : n - k \in 1 .. n /\ list[n - k] = x}
<1>1. n \in Nat /\ DOMAIN list = 1 .. n
  OBVIOUS
<1>2. ASSUME NEW i \in 1 .. n, list[i] = x PROVE n - i \in D
  BY <1>1, <1>2
<1>3. D # {} /\ D \in SUBSET Nat
  <2>1. PICK i \in 1 .. n : list[i] = x
    BY <1>1 DEF ToSet
  <2>2. n - i \in D
    BY <1>2, <2>1
  <2>3. D \in SUBSET Nat
    BY <1>1
  <2>4. QED
    BY <2>2, <2>3
<1>4. PICK k \in D : \A m \in D : k <= m
  <2> HIDE DEF D
  <2>1. QED
    BY <1>3, Least
<1>5. n - k \in 1 .. n /\ list[n - k] = x /\ k \in Nat
  OBVIOUS
<1>6. ASSUME NEW j \in 1 .. n, list[j] = x PROVE j <= n - k
  <2>1. k <= n - j
    BY <1>2, <1>4, <1>6
  <2>2. QED
    BY <1>1, <1>5, <2>1
<1>7. QED
  BY <1>1, <1>5, <1>6

LEMMA HeadAndRest ==
    ASSUME NEW h, NEW n \in Nat, NEW t, t = [i \in 1 .. n |-> t[i]]
    PROVE  /\ DOMAIN (<<h>> \o t) = 1 .. n + 1
           /\ (<<h>> \o t)[1] = h
           /\ \A i \in 1 .. n : (<<h>> \o t)[i + 1] = t[i]
<1> DEFINE T == {h} \cup {t[i] : i \in 1 .. n}
           s == <<h>>
<1>1. h \in T /\ \A i \in 1 .. n : t[i] \in T
  OBVIOUS
<1> HIDE DEF T
<1>2. s \in Seq(T) /\ Len(s) = 1 /\ s[1] = h
  BY <1>1
<1>3. t \in Seq(T) /\ Len(t) = n
  BY <1>1
<1> HIDE DEF s
<1>4. /\ s \o t \in Seq(T) /\ Len(s \o t) = 1 + n
      /\ \A i \in 1 .. 1 + n : (s \o t)[i] = IF i <= 1 THEN s[i] ELSE t[i - 1]
  <2>1. /\ s \o t \in Seq(T) /\ Len(s \o t) = Len(s) + Len(t)
        /\ \A i \in 1 .. Len(s) + Len(t) : (s \o t)[i] = IF i <= Len(s) THEN s[i] ELSE t[i - Len(s)]
    BY <1>2, <1>3, ConcatProperties
  <2>2. Len(s) = 1 /\ Len(t) = n
    BY <1>2, <1>3
  <2>3. QED
    BY <2>1, <2>2
<1>5. DOMAIN (s \o t) = 1 .. n + 1
  BY <1>4
<1>6. (s \o t)[1] = h
  BY <1>2, <1>4
<1>7. \A i \in 1 .. n : (s \o t)[i + 1] = t[i]
  <2>1. TAKE i \in 1 .. n
  <2>2. i + 1 \in 1 .. 1 + n /\ ~(i + 1 <= 1) /\ (i + 1) - 1 = i
    OBVIOUS
  <2>3. QED
    BY <1>4, <2>2
<1>8. QED
  BY <1>5, <1>6, <1>7 DEF s

-----------------------------------------------------------------------------
(***************************************************************************)
(* FlattenSeq: the recursive function in it exists, by induction on the    *)
(* length of the list.                                                     *)
(***************************************************************************)
Flattens(k, parts, f) == f = [i \in 1 .. k |-> IF i = 1 THEN parts[i] ELSE f[i - 1] \o parts[i]]

LEMMA FlattenExists ==
    ASSUME NEW parts, NEW n \in Nat
    PROVE  \E f : Flattens(n, parts, f)
<1> DEFINE S == {k \in Nat : \E f : Flattens(k, parts, f)}
<1>1. 0 \in S
  <2>1. Flattens(0, parts, [i \in 1 .. 0 |-> <<>>])
    BY DEF Flattens
  <2>2. QED
    BY <2>1
<1>2. ASSUME NEW k \in S PROVE k + 1 \in S
  <2>1. PICK f : Flattens(k, parts, f)
    OBVIOUS
  <2>2. k \in Nat
    OBVIOUS
  <2> DEFINE last == IF k = 0 THEN parts[k + 1] ELSE f[k] \o parts[k + 1]
  <2> DEFINE g == [i \in 1 .. k + 1 |-> IF i = k + 1 THEN last ELSE f[i]]
  <2>3. ASSUME NEW i \in 1 .. k + 1
        PROVE  g[i] = IF i = 1 THEN parts[i] ELSE g[i - 1] \o parts[i]
    <3>1. CASE i = k + 1
      <4>1. k # 0 => g[k] = f[k]
        BY <2>2
      <4>2. g[i] = last
        BY <2>2, <3>1
      <4>3. i - 1 = k /\ (i = 1 <=> k = 0)
        BY <2>2, <3>1
      <4>4. QED
        BY <3>1, <4>1, <4>2, <4>3
    <3>2. CASE i # k + 1
      <4>1. i \in 1 .. k
        BY <2>2, <3>2
      <4>2. f[i] = IF i = 1 THEN parts[i] ELSE f[i - 1] \o parts[i]
        BY <2>1, <4>1 DEF Flattens
      <4>3. i # 1 => i - 1 \in 1 .. k + 1 /\ i - 1 # k + 1
        BY <2>2, <4>1
      <4>4. g[i] = f[i] /\ (i # 1 => g[i - 1] = f[i - 1])
        BY <3>2, <4>3
      <4>5. QED
        BY <4>2, <4>4
    <3>3. QED
      BY <3>1, <3>2
  <2>4. g = [i \in 1 .. k + 1 |-> IF i = 1 THEN parts[i] ELSE g[i - 1] \o parts[i]]
    BY <2>3
  <2>5. Flattens(k + 1, parts, g)
    BY <2>4 DEF Flattens
  <2>6. QED
    BY <2>2, <2>5
<1>3. S = Nat
  <2> HIDE DEF S
  <2>1. S \in SUBSET Nat
    BY DEF S
  <2>2. QED
    BY <1>1, <1>2, <2>1, Induct
<1>4. QED
  BY <1>3

\* What FlattenSeq returns, from left to right.
LEMMA FlattenIs ==
    ASSUME NEW parts, Len(parts) \in Nat \ {0}
    PROVE  \E f : /\ FlattenSeq(parts) = f[Len(parts)]
                  /\ f[1] = parts[1]
                  /\ \A i \in 2 .. Len(parts) : f[i] = f[i - 1] \o parts[i]
<1> DEFINE f == CHOOSE g : Flattens(Len(parts), parts, g)
<1>1. FlattenSeq(parts) = f[Len(parts)]
  BY DEF FlattenSeq, Flattens
<1>2. Flattens(Len(parts), parts, f)
  BY FlattenExists
<1> HIDE DEF f
<1>3. ASSUME NEW i \in 1 .. Len(parts)
      PROVE  f[i] = IF i = 1 THEN parts[i] ELSE f[i - 1] \o parts[i]
  BY <1>2 DEF Flattens
<1>4. f[1] = parts[1]
  BY <1>3
<1>5. ASSUME NEW i \in 2 .. Len(parts) PROVE f[i] = f[i - 1] \o parts[i]
  <2>1. i \in 1 .. Len(parts) /\ i # 1
    OBVIOUS
  <2>2. QED
    BY <1>3, <2>1
<1>6. QED
  BY <1>1, <1>4, <1>5

LEMMA FlattenOne == ASSUME NEW x PROVE FlattenSeq(<<x>>) = x
<1>1. Len(<<x>>) = 1 /\ <<x>>[1] = x
  OBVIOUS
<1>2. Len(<<x>>) \in Nat \ {0}
  BY <1>1
<1>3. PICK f : FlattenSeq(<<x>>) = f[Len(<<x>>)] /\ f[1] = <<x>>[1]
  BY <1>2, FlattenIs
<1>4. QED
  BY <1>1, <1>3

LEMMA FlattenType ==
    ASSUME NEW D, NEW parts \in Seq(Seq(D)),
           \A i \in DOMAIN parts : Len(parts[i]) <= 1
    PROVE  /\ FlattenSeq(parts) \in Seq(D)
           /\ Len(FlattenSeq(parts)) <= Len(parts)
<1>1. CASE Len(parts) = 0
  <2>1. parts = <<>>
    BY <1>1
  <2>2. FlattenSeq(parts) = parts
    BY <1>1 DEF FlattenSeq
  <2>3. parts \in Seq(D)
    BY <2>1
  <2>4. QED
    BY <2>2, <2>3, <1>1
<1>2. CASE Len(parts) # 0
  <2>1. Len(parts) \in Nat
    OBVIOUS
  <2>2. PICK f : /\ FlattenSeq(parts) = f[Len(parts)]
                 /\ f[1] = parts[1]
                 /\ \A i \in 2 .. Len(parts) : f[i] = f[i - 1] \o parts[i]
    BY <1>2, <2>1, FlattenIs
  <2> DEFINE S == {k \in Nat : k \in 1 .. Len(parts) => f[k] \in Seq(D) /\ Len(f[k]) <= k}
  <2>3. 0 \in S
    OBVIOUS
  <2>4. ASSUME NEW k \in S PROVE k + 1 \in S
    <3>1. k \in Nat
      OBVIOUS
    <3>2. SUFFICES ASSUME k + 1 \in 1 .. Len(parts)
                   PROVE  f[k + 1] \in Seq(D) /\ Len(f[k + 1]) <= k + 1
      BY <3>1
    <3>3. parts[k + 1] \in Seq(D) /\ Len(parts[k + 1]) <= 1
      BY <3>2
    <3>4. CASE k = 0
      BY <2>2, <3>3, <3>4
    <3>5. CASE k # 0
      <4>1. f[k + 1] = f[k] \o parts[k + 1]
        <5>1. k + 1 \in 2 .. Len(parts) /\ (k + 1) - 1 = k
          BY <2>1, <3>1, <3>2, <3>5
        <5>2. QED
          BY <2>2, <5>1
      <4>2. f[k] \in Seq(D) /\ Len(f[k]) <= k
        BY <3>1, <3>2, <3>5
      <4>3. Len(f[k + 1]) = Len(f[k]) + Len(parts[k + 1]) /\ f[k + 1] \in Seq(D)
        BY <3>3, <4>1, <4>2
      <4>4. Len(f[k]) \in Nat /\ Len(parts[k + 1]) \in Nat
        BY <3>3, <4>2
      <4>5. \A x, y \in Nat : x <= k /\ y <= 1 => x + y <= k + 1
        BY <3>1
      <4>6. QED
        BY <3>3, <4>2, <4>3, <4>4, <4>5
    <3>6. QED
      BY <3>4, <3>5
  <2>5. S = Nat
    <3> HIDE DEF S
    <3>1. S \in SUBSET Nat
      BY DEF S
    <3>2. QED
      BY <2>3, <2>4, <3>1, Induct
  <2>6. Len(parts) \in S
    BY <2>1, <2>5
  <2>7. QED
    BY <1>2, <2>1, <2>2, <2>6
<1>3. QED
  BY <1>1, <1>2

LEMMA FlattenHas ==
    ASSUME NEW D, NEW parts \in Seq(Seq(D)), NEW p \in DOMAIN parts
    PROVE  ToSet(parts[p]) \subseteq ToSet(FlattenSeq(parts))
<1> DEFINE n == Len(parts)
<1>1. n \in Nat /\ DOMAIN parts = 1 .. n /\ n # 0
  OBVIOUS
<1>2. PICK f : /\ FlattenSeq(parts) = f[n]
               /\ f[1] = parts[1]
               /\ \A i \in 2 .. n : f[i] = f[i - 1] \o parts[i]
  BY <1>1, FlattenIs
<1> HIDE DEF n
<1> DEFINE S == {k \in Nat : k \in 1 .. n =>
                    f[k] \in Seq(D) /\ \A j \in 1 .. k : ToSet(parts[j]) \subseteq ToSet(f[k])}
<1>3. 0 \in S
  OBVIOUS
<1>4. ASSUME NEW k \in S PROVE k + 1 \in S
  <2>1. k \in Nat
    OBVIOUS
  <2>2. SUFFICES ASSUME k + 1 \in 1 .. n
                 PROVE  /\ f[k + 1] \in Seq(D)
                        /\ \A j \in 1 .. k + 1 : ToSet(parts[j]) \subseteq ToSet(f[k + 1])
    BY <2>1
  <2>3. parts[k + 1] \in Seq(D)
    BY <1>1, <2>2
  <2>4. CASE k = 0
    BY <1>2, <2>3, <2>4
  <2>5. CASE k # 0
    <3>1. f[k + 1] = f[k] \o parts[k + 1]
      <4>1. k + 1 \in 2 .. n /\ (k + 1) - 1 = k
        BY <1>1, <2>1, <2>2, <2>5
      <4>2. QED
        BY <1>2, <4>1
    <3>2. f[k] \in Seq(D) /\ \A j \in 1 .. k : ToSet(parts[j]) \subseteq ToSet(f[k])
      BY <1>1, <2>1, <2>2, <2>5
    <3>3. f[k + 1] \in Seq(D) /\ ToSet(f[k + 1]) = ToSet(f[k]) \cup ToSet(parts[k + 1])
      BY <2>3, <3>1, <3>2, ListOfBoth
    <3>4. \A j \in 1 .. k + 1 : j \in 1 .. k \/ j = k + 1
      BY <2>1
    <3>5. QED
      BY <3>2, <3>3, <3>4
  <2>6. QED
    BY <2>4, <2>5
<1>5. S = Nat
  <2> HIDE DEF S
  <2>1. S \in SUBSET Nat
    BY DEF S
  <2>2. QED
    BY <1>3, <1>4, <2>1, Induct
<1>6. n \in 1 .. n => f[n] \in Seq(D) /\ \A j \in 1 .. n : ToSet(parts[j]) \subseteq ToSet(f[n])
  <2>1. n \in S
    BY <1>1, <1>5
  <2>2. QED
    BY <2>1
<1>7. n \in 1 .. n
  BY <1>1
<1>8. QED
  BY <1>1, <1>2, <1>6, <1>7

-----------------------------------------------------------------------------
(***************************************************************************)
(* What governs an action, and what an "ALLOW" amounts to.                 *)
(***************************************************************************)
\* The rule that governs an action: the first allow rule that does not fail.
Candidate(a, rule, e) == rule.effect = "allow" /\ ruleMatches(a, rule, e) # "no"

LEMMA GoverningFound ==
    ASSUME NEW a, NEW p, NEW e, IsList(p.rules)
    PROVE  LET j == governing(a, p, e)
           IN \/ j = 0 /\ \A k \in DOMAIN p.rules : ~Candidate(a, p.rules[k], e)
              \/ /\ j \in DOMAIN p.rules
                 /\ Candidate(a, p.rules[j], e)
                 /\ \A k \in DOMAIN p.rules : k < j => ~Candidate(a, p.rules[k], e)
<1> DEFINE I == {k \in 1 .. Len(p.rules) : Candidate(a, p.rules[k], e)}
<1>1. Len(p.rules) \in Nat /\ DOMAIN p.rules = 1 .. Len(p.rules)
  BY DEF IsList
<1>2. governing(a, p, e) = IF I # {} THEN Min(I) ELSE 0
  BY DEF governing, SelectInSeq, Candidate
<1>3. I # {} => Min(I) \in I /\ \A k \in I : Min(I) <= k
  <2>1. I \in SUBSET Nat
    OBVIOUS
  <2> HIDE DEF I
  <2>2. QED
    BY <2>1, MinIsLeast
<1>4. CASE I = {}
  BY <1>1, <1>2, <1>4
<1>5. CASE I # {}
  <2> DEFINE j == governing(a, p, e)
  <2>1. j \in I /\ \A k \in I : j <= k
    BY <1>2, <1>3, <1>5
  <2>2. j \in DOMAIN p.rules /\ Candidate(a, p.rules[j], e)
    BY <1>1, <2>1
  <2>3. \A k \in DOMAIN p.rules : k < j => ~Candidate(a, p.rules[k], e)
    BY <1>1, <2>1
  <2>4. QED
    BY <2>2, <2>3
<1>6. QED
  BY <1>4, <1>5

LEMMA GoverningIs ==
    ASSUME NEW a, NEW p, NEW e, IsList(p.rules),
           NEW j \in DOMAIN p.rules, Candidate(a, p.rules[j], e),
           \A k \in DOMAIN p.rules : k < j => ~Candidate(a, p.rules[k], e)
    PROVE  governing(a, p, e) = j
<1> DEFINE g == governing(a, p, e)
<1>1. DOMAIN p.rules \subseteq Nat /\ 0 \notin DOMAIN p.rules
  BY DEF IsList
<1>2. /\ g \in DOMAIN p.rules
      /\ Candidate(a, p.rules[g], e)
      /\ \A k \in DOMAIN p.rules : k < g => ~Candidate(a, p.rules[k], e)
  BY GoverningFound
<1>3. ~(j < g) /\ ~(g < j)
  BY <1>2
<1>4. QED
  BY <1>1, <1>2, <1>3

NotDenied(t, p, e) ==
    \A i \in DOMAIN t.actions, j \in DOMAIN p.rules :
        p.rules[j].effect = "deny" => ruleMatches(t.actions[i], p.rules[j], e) = "no"

Permitted(a, p, e) ==
    /\ governing(a, p, e) # 0
    /\ ruleMatches(a, p.rules[governing(a, p, e)], e) = "yes"
    /\ LimitsApply(a, p.rules[governing(a, p, e)])

AllowedBy(t, p, e) ==
    /\ p.chainId = ChainId /\ t.chainId = ChainId
    /\ t.actions # <<>>
    /\ \A i \in DOMAIN t.actions : t.actions[i].authorizations = 1
    /\ NotDenied(t, p, e)
    /\ ~(Len(t.actions) > p.maxActions)
    /\ \A i \in DOMAIN t.actions : Permitted(t.actions[i], p, e)
    /\ ~ExceedsTotal(t, p, e)

LEMMA DeniedIs ==
    ASSUME NEW t, NEW p, NEW e, IsList(t.actions), IsList(p.rules)
    PROVE  Denied(t, p, e) = "no" <=> NotDenied(t, p, e)
<1> DEFINE row(i) == [j \in DOMAIN p.rules |->
                        IF p.rules[j].effect = "deny"
                        THEN ruleMatches(t.actions[i], p.rules[j], e) ELSE "no"]
           all == [i \in DOMAIN t.actions |-> FirstOther(row(i), "no")]
<1>1. /\ Len(t.actions) \in Nat /\ DOMAIN t.actions = 1 .. Len(t.actions)
      /\ Len(p.rules) \in Nat /\ DOMAIN p.rules = 1 .. Len(p.rules)
  BY DEF IsList
<1>2. Denied(t, p, e) = FirstOther(all, "no")
  BY DEF Denied
<1>3. ASSUME NEW i \in DOMAIN t.actions
      PROVE  all[i] = "no" <=> \A j \in DOMAIN p.rules :
                p.rules[j].effect = "deny" => ruleMatches(t.actions[i], p.rules[j], e) = "no"
  <2>1. all[i] = FirstOther(row(i), "no")
    OBVIOUS
  <2>2. DOMAIN row(i) = 1 .. Len(p.rules)
    BY <1>1
  <2>3. FirstOther(row(i), "no") = "no" <=> \A j \in DOMAIN row(i) : row(i)[j] = "no"
    <3> HIDE DEF row
    <3>1. QED
      BY <1>1, <2>2, FirstOtherPasses
  <2>4. QED
    BY <2>1, <2>3
<1>4. DOMAIN all = 1 .. Len(t.actions)
  BY <1>1
<1> HIDE DEF all
<1>5. FirstOther(all, "no") = "no" <=> \A i \in DOMAIN all : all[i] = "no"
  BY <1>1, <1>4, FirstOtherPasses
<1>6. QED
  BY <1>1, <1>2, <1>3, <1>4, <1>5 DEF NotDenied

LEMMA ActionIsAllowed ==
    ASSUME NEW a, NEW p, NEW e
    PROVE  ActionCode(a, p, e) = "ALLOW" <=> Permitted(a, p, e)
<1>1. \A v : Thrown(v) # "ALLOW"
  BY DEF Thrown
<1>2. QED
  BY <1>1, Zenon DEF ActionCode, Permitted

LEMMA CodeAllows ==
    ASSUME NEW t, NEW p, NEW e, IsList(t.actions), IsList(p.rules)
    PROVE  Code(t, p, e) = "ALLOW" <=> AllowedBy(t, p, e)
<1> DEFINE all == [i \in DOMAIN t.actions |-> ActionCode(t.actions[i], p, e)]
           codes == FirstOther(all, "ALLOW")
<1>1. Len(t.actions) \in Nat /\ DOMAIN t.actions = 1 .. Len(t.actions)
  BY DEF IsList
<1>2. codes = "ALLOW" <=> \A i \in DOMAIN t.actions : Permitted(t.actions[i], p, e)
  <2>1. DOMAIN all = 1 .. Len(t.actions)
    BY <1>1
  <2>2. \A i \in DOMAIN t.actions : all[i] = ActionCode(t.actions[i], p, e)
    OBVIOUS
  <2> HIDE DEF all
  <2>3. codes = "ALLOW" <=> \A i \in DOMAIN all : all[i] = "ALLOW"
    BY <1>1, <2>1, FirstOtherPasses
  <2>4. QED
    BY <1>1, <2>1, <2>2, <2>3, ActionIsAllowed
<1>3. \A v : Thrown(v) # "ALLOW"
  BY DEF Thrown
<1>4. Denied(t, p, e) = "no" <=> NotDenied(t, p, e)
  BY DeniedIs
<1>5. Denied(t, p, e) = "yes" => Denied(t, p, e) # "no"
  OBVIOUS
<1>6. Code(t, p, e) =
        IF p.chainId # ChainId \/ t.chainId # ChainId THEN "CHAIN_MISMATCH"
        ELSE IF t.actions = <<>> THEN "EMPTY_TRANSACTION"
        ELSE IF \E i \in DOMAIN t.actions : t.actions[i].authorizations # 1
             THEN "MULTI_AUTHORIZATION"
        ELSE IF Denied(t, p, e) = "yes" THEN "RULE_DENY"
        ELSE IF Denied(t, p, e) # "no" THEN Thrown(Denied(t, p, e))
        ELSE IF Len(t.actions) > p.maxActions THEN "TOO_MANY_ACTIONS"
        ELSE IF codes # "ALLOW" THEN codes
        ELSE IF ExceedsTotal(t, p, e) THEN "LIMIT_EXCEEDED"
        ELSE "ALLOW"
  BY DEF Code
<1> HIDE DEF codes
<1>7. Code(t, p, e) = "ALLOW" <=>
        /\ p.chainId = ChainId /\ t.chainId = ChainId
        /\ t.actions # <<>>
        /\ \A i \in DOMAIN t.actions : t.actions[i].authorizations = 1
        /\ Denied(t, p, e) = "no"
        /\ ~(Len(t.actions) > p.maxActions)
        /\ codes = "ALLOW"
        /\ ~ExceedsTotal(t, p, e)
  BY <1>3, <1>5, <1>6
<1>8. QED
  BY <1>2, <1>4, <1>7 DEF AllowedBy
=============================================================================
