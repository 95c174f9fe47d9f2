------------------------ MODULE PolicyDecisionProofs ------------------------
(***************************************************************************)
(* Proofs about a decision: what the engine answers for every transaction, *)
(* policy and outcome of the reads.  First the loops of the engine (the    *)
(* first test that does not pass, the first rule that governs, the sum of  *)
(* the amounts, the demands put together), then what an "ALLOW" amounts    *)
(* to, and from that the promises of PolicyDecision one by one.            *)
(***************************************************************************)
EXTENDS PolicyDecision, ListFacts

-----------------------------------------------------------------------------
(***************************************************************************)
(* SumOf: the recursive function in it exists, by induction on the length  *)
(* of the list.                                                            *)
(***************************************************************************)
SumsUpTo(k, units, f) == f = [n \in 0 .. k |-> IF n = 0 THEN 0 ELSE f[n - 1] + units[n]]

LEMMA SumExists ==
    ASSUME NEW units \in Seq(Nat)
    PROVE  \E f : SumsUpTo(Len(units), units, f)
<1> DEFINE S == {k \in Nat : \E f : SumsUpTo(k, units, f)}
<1>1. 0 \in S
  <2>1. SumsUpTo(0, units, [n \in 0 .. 0 |-> 0])
    BY DEF SumsUpTo
  <2>2. QED
    BY <2>1
<1>2. ASSUME NEW k \in S PROVE k + 1 \in S
  <2>1. PICK f : SumsUpTo(k, units, f)
    OBVIOUS
  <2> DEFINE g == [n \in 0 .. k + 1 |-> IF n = k + 1 THEN f[k] + units[n] ELSE f[n]]
  <2>2. k \in Nat
    OBVIOUS
  <2>3. g = [n \in 0 .. k + 1 |-> IF n = 0 THEN 0 ELSE g[n - 1] + units[n]]
    <3>1. ASSUME NEW n \in 0 .. k + 1
          PROVE  g[n] = IF n = 0 THEN 0 ELSE g[n - 1] + units[n]
      <4>1. CASE n = k + 1
        BY <2>2, <4>1
      <4>2. CASE n # k + 1
        <5>1. n \in 0 .. k
          BY <2>2, <4>2
        <5>2. f[n] = IF n = 0 THEN 0 ELSE f[n - 1] + units[n]
          BY <2>1, <5>1 DEF SumsUpTo
        <5>3. n # 0 => n - 1 \in 0 .. k + 1 /\ n - 1 # k + 1
          BY <2>2, <5>1
        <5>4. QED
          BY <2>2, <4>2, <5>2, <5>3
      <4>3. QED
        BY <4>1, <4>2
    <3>2. QED
      BY <3>1
  <2>4. SumsUpTo(k + 1, units, g)
    BY <2>3 DEF SumsUpTo
  <2>5. QED
    BY <2>2, <2>4
<1>3. S = Nat
  <2> HIDE DEF S
  <2>1. S \in SUBSET Nat
    BY DEF S
  <2>2. QED
    BY <1>1, <1>2, <2>1, Induct
<1>4. Len(units) \in Nat
  OBVIOUS
<1>5. QED
  BY <1>3, <1>4

\* The sum is a natural number, no term is above it, and it is the term when
\* there is one.
LEMMA SumIsAbove ==
    ASSUME NEW units \in Seq(Nat)
    PROVE  /\ SumOf(units) \in Nat
           /\ \A i \in 1 .. Len(units) : units[i] <= SumOf(units)
           /\ Len(units) = 1 => SumOf(units) = units[1]
<1> DEFINE f == CHOOSE g : SumsUpTo(Len(units), units, g)
<1>1. SumOf(units) = f[Len(units)]
  BY DEF SumOf, SumsUpTo
<1>2. SumsUpTo(Len(units), units, f)
  BY SumExists
<1> HIDE DEF f
<1>3. /\ f[0] = 0
      /\ \A n \in 0 .. Len(units) : n # 0 => f[n] = f[n - 1] + units[n]
  <2>1. Len(units) \in Nat
    OBVIOUS
  <2>2. ASSUME NEW n \in 0 .. Len(units)
        PROVE  f[n] = IF n = 0 THEN 0 ELSE f[n - 1] + units[n]
    BY <1>2 DEF SumsUpTo
  <2>3. QED
    BY <2>1, <2>2
<1> DEFINE S == {k \in Nat : k <= Len(units) =>
                    f[k] \in Nat /\ \A i \in 1 .. k : units[i] <= f[k]}
<1>4. 0 \in S
  BY <1>3
<1>5. ASSUME NEW k \in S PROVE k + 1 \in S
  <2>1. k \in Nat
    OBVIOUS
  <2>2. SUFFICES ASSUME k + 1 <= Len(units)
                 PROVE  f[k + 1] \in Nat /\ \A i \in 1 .. k + 1 : units[i] <= f[k + 1]
    BY <2>1
  <2>3. f[k] \in Nat /\ \A i \in 1 .. k : units[i] <= f[k]
    BY <2>1, <2>2
  <2>4. f[k + 1] = f[k] + units[k + 1] /\ units[k + 1] \in Nat
    BY <1>3, <2>1, <2>2
  <2>5. ASSUME NEW i \in 1 .. k + 1 PROVE units[i] <= f[k + 1]
    <3>1. CASE i = k + 1
      BY <2>3, <2>4, <3>1
    <3>2. CASE i # k + 1
      <4>1. i \in 1 .. k /\ units[i] \in Nat
        BY <2>1, <2>2, <3>2
      <4>2. QED
        BY <2>3, <2>4, <4>1
    <3>3. QED
      BY <3>1, <3>2
  <2>6. QED
    BY <2>3, <2>4, <2>5
<1>6. S = Nat
  <2> HIDE DEF S
  <2>1. S \in SUBSET Nat
    BY DEF S
  <2>2. QED
    BY <1>4, <1>5, <2>1, Induct
<1>7. Len(units) \in S
  BY <1>6
<1>8. Len(units) = 1 => f[1] = units[1]
  BY <1>3
<1>9. QED
  BY <1>1, <1>7, <1>8

-----------------------------------------------------------------------------
(***************************************************************************)
(* Verdicts.                                                               *)
(***************************************************************************)
LEMMA PredicateVerdict ==
    ASSUME NEW v, NEW p PROVE predicateHolds(v, p) \in {"yes", "no", "ambiguous"}
<1>1. \A values : Member(v, values) \in {"yes", "no", "ambiguous"}
  BY DEF Member
<1>2. CASE p.op \in {"in", "notIn"}
  BY <1>1, <1>2 DEF predicateHolds
<1>3. CASE p.op \notin {"in", "notIn"}
  BY <1>3, Zenon DEF predicateHolds
<1>4. QED
  BY <1>2, <1>3

LEMMA StaticVerdict ==
    ASSUME NEW a, NEW rule, IsList(rule.match)
    PROVE  staticMatch(a, rule) \in {"yes", "no", "ambiguous"}
<1> DEFINE v == [i \in DOMAIN rule.match |->
                   predicateHolds(resolvePath(a, rule.match[i].path), rule.match[i])]
<1>1. Len(rule.match) \in Nat /\ DOMAIN v = 1 .. Len(rule.match)
  BY DEF IsList
<1>2. \A i \in DOMAIN v : v[i] \in {"yes", "no", "ambiguous"}
  BY PredicateVerdict
<1>3. staticMatch(a, rule) = FirstOther(v, "yes")
  BY DEF staticMatch
<1> HIDE DEF v
<1>4. QED
  BY <1>1, <1>2, <1>3, FirstOtherEnds

LEMMA ProviderVerdict ==
    ASSUME NEW req, NEW a, NEW e PROVE providerHolds(req, a, e) \in Verdicts
BY Zenon DEF providerHolds, Verdicts

\* The tests of a rule in the order they are made.
Tests(a, rule, e) ==
    <<staticMatch(a, rule)>> \o
    [i \in DOMAIN rule.providers |-> providerHolds(rule.providers[i], a, e)]

IsRule(rule) == IsList(rule.match) /\ IsList(rule.providers)

LEMMA TestsAre ==
    ASSUME NEW a, NEW rule, NEW e, IsRule(rule)
    PROVE  /\ Len(rule.providers) \in Nat
           /\ DOMAIN rule.providers = 1 .. Len(rule.providers)
           /\ DOMAIN Tests(a, rule, e) = 1 .. Len(rule.providers) + 1
           /\ Tests(a, rule, e)[1] = staticMatch(a, rule)
           /\ \A i \in DOMAIN rule.providers :
                 Tests(a, rule, e)[i + 1] = providerHolds(rule.providers[i], a, e)
<1> DEFINE n == Len(rule.providers)
           s == <<staticMatch(a, rule)>>
           p == [i \in DOMAIN rule.providers |-> providerHolds(rule.providers[i], a, e)]
<1>1. n \in Nat /\ DOMAIN rule.providers = 1 .. n
  BY DEF IsRule, IsList
<1>2. s \in Seq(Verdicts) /\ Len(s) = 1 /\ s[1] = staticMatch(a, rule)
  BY StaticVerdict DEF IsRule, Verdicts
<1>3. p \in Seq(Verdicts) /\ Len(p) = n
  <2>1. p \in [1 .. n -> Verdicts]
    BY <1>1, ProviderVerdict
  <2>2. QED
    BY <1>1, <2>1
<1>4. Tests(a, rule, e) = s \o p
  BY DEF Tests
<1>5. \A i \in 1 .. n : p[i] = providerHolds(rule.providers[i], a, e)
  BY <1>1
<1> HIDE DEF s, p
<1>6. /\ Len(s \o p) = n + 1 /\ DOMAIN (s \o p) = 1 .. n + 1
      /\ (s \o p)[1] = s[1]
      /\ \A i \in 1 .. n : (s \o p)[i + 1] = p[i]
  <2>1. /\ s \o p \in Seq(Verdicts)
        /\ Len(s \o p) = Len(s) + Len(p)
        /\ \A k \in 1 .. Len(s) + Len(p) :
              (s \o p)[k] = IF k <= Len(s) THEN s[k] ELSE p[k - Len(s)]
    BY <1>2, <1>3, ConcatProperties
  <2>2. Len(s \o p) = n + 1 /\ DOMAIN (s \o p) = 1 .. n + 1
    BY <1>1, <1>2, <1>3, <2>1
  <2>3. (s \o p)[1] = s[1]
    BY <1>1, <1>2, <1>3, <2>1
  <2>4. ASSUME NEW i \in 1 .. n PROVE (s \o p)[i + 1] = p[i]
    <3>1. i + 1 \in 1 .. 1 + n /\ ~(i + 1 <= 1) /\ (i + 1) - 1 = i
      BY <1>1
    <3>2. QED
      BY <1>2, <1>3, <2>1, <3>1
  <2>5. QED
    BY <2>2, <2>3, <2>4
<1>7. QED
  BY <1>1, <1>2, <1>4, <1>5, <1>6

LEMMA RuleVerdict ==
    ASSUME NEW a, NEW rule, NEW e, IsRule(rule)
    PROVE  ruleMatches(a, rule, e) \in Verdicts
<1> DEFINE v == Tests(a, rule, e)
<1>1. ruleMatches(a, rule, e) = FirstOther(v, "yes")
  BY DEF ruleMatches, Tests
<1>2. Len(rule.providers) + 1 \in Nat /\ DOMAIN v = 1 .. Len(rule.providers) + 1
  BY TestsAre
<1>3. ASSUME NEW i \in DOMAIN v PROVE v[i] \in Verdicts
  <2>1. CASE i = 1
    BY <2>1, TestsAre, StaticVerdict DEF IsRule, Verdicts
  <2>2. CASE i # 1
    <3>1. i - 1 \in DOMAIN rule.providers /\ (i - 1) + 1 = i
      BY <1>2, <2>2, TestsAre
    <3>2. v[i] = providerHolds(rule.providers[i - 1], a, e)
      BY <3>1, TestsAre
    <3>3. QED
      BY <3>2, ProviderVerdict
  <2>3. QED
    BY <2>1, <2>2
<1> HIDE DEF v
<1>4. "yes" \in Verdicts
  BY DEF Verdicts
<1>5. QED
  BY <1>1, <1>2, <1>3, <1>4, FirstOtherEnds

\* Loops over tests that agree wherever the first of them is not `bad`.
AgreeUnless(bad, v, w) ==
    DOMAIN w = DOMAIN v /\ \A i \in DOMAIN v : v[i] # bad => w[i] = v[i]

LEMMA SameEnding ==
    ASSUME NEW v, NEW w, NEW n \in Nat, DOMAIN v = 1 .. n, NEW pass, NEW bad, pass # bad,
           FirstOther(v, pass) # bad, AgreeUnless(bad, v, w)
    PROVE  FirstOther(w, pass) = FirstOther(v, pass)
<1> USE DEF AgreeUnless
<1>1. CASE FirstOther(v, pass) = pass
  <2>1. \A i \in DOMAIN v : v[i] = pass
    BY <1>1, FirstOtherPasses
  <2>2. \A i \in DOMAIN w : w[i] = pass
    BY <2>1
  <2>3. QED
    BY <1>1, <2>2, FirstOtherPasses
<1>2. CASE FirstOther(v, pass) # pass
  <2>1. PICK i \in DOMAIN v : /\ FirstOther(v, pass) = v[i]
                              /\ v[i] # pass
                              /\ \A k \in DOMAIN v : k < i => v[k] = pass
    BY <1>2, FirstOtherEnds
  <2>2. i \in DOMAIN w /\ w[i] = v[i] /\ w[i] # pass
    BY <2>1
  <2>3. \A k \in DOMAIN w : k < i => w[k] = pass
    BY <2>1
  <2>4. FirstOther(w, pass) = w[i]
    BY <2>2, <2>3, FirstOtherIs
  <2>5. QED
    BY <2>1, <2>2, <2>4
<1>3. QED
  BY <1>1, <1>2

\* A verdict that is not "unavailable" does not rest on a read that failed.
LEMMA ProviderStable ==
    ASSUME NEW req, NEW a, NEW e, NEW q \in DOMAIN e, ~e[q].ok, NEW row,
           providerHolds(req, a, e) # "unavailable"
    PROVE  providerHolds(req, a, [e EXCEPT ![q] = row]) = providerHolds(req, a, e)
<1> DEFINE query == resolveTableRowArgs(req, a)
           d == [e EXCEPT ![q] = row]
<1>1. DOMAIN d = DOMAIN e /\ \A x \in DOMAIN e : x # q => d[x] = e[x]
  OBVIOUS
<1>2. CASE ~Resolves(req, a)
  BY <1>2, Zenon DEF providerHolds
<1>3. CASE Resolves(req, a)
  <2>1. query \in DOMAIN e
    BY <1>3, Zenon DEF providerHolds
  <2>2. e[query].ok
    BY <1>3, <2>1, Zenon DEF providerHolds
  <2>3. query # q /\ query \in DOMAIN d /\ d[query] = e[query]
    BY <1>1, <2>1, <2>2
  <2> HIDE DEF query, d
  <2>4. QED
    BY <2>1, <2>3, Zenon DEF providerHolds, query, d
<1>4. QED
  BY <1>2, <1>3

LEMMA RuleStable ==
    ASSUME NEW a, NEW rule, NEW e, IsRule(rule), NEW q \in DOMAIN e, ~e[q].ok, NEW row,
           ruleMatches(a, rule, e) # "unavailable"
    PROVE  ruleMatches(a, rule, [e EXCEPT ![q] = row]) = ruleMatches(a, rule, e)
<1> DEFINE d == [e EXCEPT ![q] = row]
           v == Tests(a, rule, e)
           w == Tests(a, rule, d)
           n == Len(rule.providers) + 1
           pass == "yes"
           bad == "unavailable"
<1>1. ruleMatches(a, rule, e) = FirstOther(v, pass) /\ ruleMatches(a, rule, d) = FirstOther(w, pass)
  BY DEF ruleMatches, Tests
<1>2. n \in Nat /\ DOMAIN v = 1 .. n /\ DOMAIN w = 1 .. n
  BY TestsAre
<1>3. ASSUME NEW i \in 1 .. n, v[i] # "unavailable" PROVE w[i] = v[i]
  <2>1. CASE i = 1
    BY <2>1, TestsAre
  <2>2. CASE i # 1
    <3>1. i - 1 \in DOMAIN rule.providers /\ (i - 1) + 1 = i
      BY <1>2, <2>2, TestsAre
    <3>2. /\ v[i] = providerHolds(rule.providers[i - 1], a, e)
          /\ w[i] = providerHolds(rule.providers[i - 1], a, d)
      BY <3>1, TestsAre
    <3>3. QED
      BY <1>3, <3>2, ProviderStable
  <2>3. QED
    BY <2>1, <2>2
<1>4. pass # bad /\ FirstOther(v, pass) # bad
  BY <1>1
<1>5. AgreeUnless(bad, v, w)
  BY <1>2, <1>3 DEF AgreeUnless
<1> HIDE DEF v, w, n, pass, bad
<1>6. FirstOther(w, pass) = FirstOther(v, pass)
  BY <1>2, <1>4, <1>5, SameEnding
<1>7. QED
  BY <1>1, <1>6

\* A rule is unavailable because of a provider, after its match passed.
LEMMA RuleUnavailable ==
    ASSUME NEW a, NEW rule, NEW e, IsRule(rule), ruleMatches(a, rule, e) = "unavailable"
    PROVE  /\ staticMatch(a, rule) = "yes"
           /\ \E req \in ToSet(rule.providers) : providerHolds(req, a, e) = "unavailable"
<1> DEFINE v == Tests(a, rule, e)
<1>1. FirstOther(v, "yes") = "unavailable"
  BY DEF ruleMatches, Tests
<1>2. Len(rule.providers) + 1 \in Nat /\ DOMAIN v = 1 .. Len(rule.providers) + 1
  BY TestsAre
<1>3. v[1] = staticMatch(a, rule) /\ v[1] # "unavailable"
  BY TestsAre, StaticVerdict DEF IsRule
<1>4. \A i \in DOMAIN v : i # 1 =>
         i - 1 \in DOMAIN rule.providers /\ v[i] = providerHolds(rule.providers[i - 1], a, e)
  <2>1. ASSUME NEW i \in DOMAIN v, i # 1
        PROVE  i - 1 \in DOMAIN rule.providers /\ v[i] = providerHolds(rule.providers[i - 1], a, e)
    <3>1. i - 1 \in DOMAIN rule.providers /\ (i - 1) + 1 = i
      BY <1>2, <2>1, TestsAre
    <3>2. QED
      BY <3>1, TestsAre
  <2>2. QED
    BY <2>1
<1> HIDE DEF v
<1>5. PICK i \in DOMAIN v : v[i] = "unavailable" /\ \A k \in DOMAIN v : k < i => v[k] = "yes"
  BY <1>1, <1>2, FirstOtherEnds
<1>6. i # 1 /\ 1 \in DOMAIN v /\ 1 < i
  BY <1>2, <1>3, <1>5
<1>7. staticMatch(a, rule) = "yes"
  BY <1>3, <1>5, <1>6
<1>8. rule.providers[i - 1] \in ToSet(rule.providers)
  BY <1>4, <1>6 DEF ToSet
<1>9. QED
  BY <1>4, <1>5, <1>6, <1>7, <1>8

IsPolicy(p) == IsList(p.rules) /\ \A rule \in ToSet(p.rules) : IsRule(rule)

-----------------------------------------------------------------------------
(***************************************************************************)
(* The answer: a refusal names nothing; an allowed transaction comes with  *)
(* the rule of each action and what the action is charged for.             *)
(***************************************************************************)
Governing(a, p, e) == p.rules[governing(a, p, e)]
Charge(a, rule) == IF wantsWindow(rule) THEN <<Demand(a, rule)>> ELSE <<>>

LEMMA Refusal ==
    ASSUME NEW t, NEW p, NEW e, Code(t, p, e) # "ALLOW"
    PROVE  evaluatePolicy(t, p, e) = Refused(Code(t, p, e))
BY Zenon DEF evaluatePolicy, Refused

LEMMA Permission ==
    ASSUME NEW t, NEW p, NEW e, Code(t, p, e) = "ALLOW"
    PROVE  evaluatePolicy(t, p, e) =
             [code |-> "ALLOW",
              ruleIds |-> [i \in DOMAIN t.actions |-> Governing(t.actions[i], p, e).id],
              quotaDemands |-> FlattenSeq([i \in DOMAIN t.actions |->
                                             Charge(t.actions[i], Governing(t.actions[i], p, e))])]
<1> DEFINE rules == [i \in DOMAIN t.actions |-> p.rules[governing(t.actions[i], p, e)]]
           all == [i \in DOMAIN t.actions |->
                    IF wantsWindow(rules[i]) THEN <<Demand(t.actions[i], rules[i])>> ELSE <<>>]
<1>1. evaluatePolicy(t, p, e) =
        [code |-> "ALLOW", ruleIds |-> [i \in DOMAIN rules |-> rules[i].id],
         quotaDemands |-> FlattenSeq(all)]
  BY DEF evaluatePolicy
<1>2. [i \in DOMAIN rules |-> rules[i].id] =
        [i \in DOMAIN t.actions |-> Governing(t.actions[i], p, e).id]
  BY DEF Governing
<1>3. all = [i \in DOMAIN t.actions |-> Charge(t.actions[i], Governing(t.actions[i], p, e))]
  BY DEF Governing, Charge
<1> HIDE DEF rules, all
<1>4. QED
  BY <1>1, <1>2, <1>3

LEMMA CodeOfAnswer ==
    ASSUME NEW t, NEW p, NEW e PROVE evaluatePolicy(t, p, e).code = Code(t, p, e)
<1> DEFINE ids == [i \in DOMAIN t.actions |-> Governing(t.actions[i], p, e).id]
           demands == FlattenSeq([i \in DOMAIN t.actions |->
                                    Charge(t.actions[i], Governing(t.actions[i], p, e))])
           c == Code(t, p, e)
<1>1. CASE c = "ALLOW"
  <2>1. evaluatePolicy(t, p, e) = [code |-> "ALLOW", ruleIds |-> ids, quotaDemands |-> demands]
    BY <1>1, Permission
  <2> HIDE DEF ids, demands, c
  <2>2. evaluatePolicy(t, p, e).code = c
    BY <1>1, <2>1
  <2>3. QED
    BY <2>2 DEF c
<1>2. CASE c # "ALLOW"
  <2>1. evaluatePolicy(t, p, e) = [code |-> c, ruleIds |-> <<>>, quotaDemands |-> <<>>]
    BY <1>2, Refusal DEF Refused
  <2> HIDE DEF c
  <2>2. evaluatePolicy(t, p, e).code = c
    BY <2>1
  <2>3. QED
    BY <2>2 DEF c
<1>3. QED
  BY <1>1, <1>2

\* Two evaluations of the same transaction that allow it and find the same
\* rules answer the same.
LEMMA SameAnswer ==
    ASSUME NEW t, NEW p, NEW e, NEW r, NEW d,
           Code(t, p, e) = "ALLOW", Code(t, r, d) = "ALLOW",
           \A i \in DOMAIN t.actions :
              Governing(t.actions[i], r, d) = Governing(t.actions[i], p, e)
    PROVE  evaluatePolicy(t, r, d) = evaluatePolicy(t, p, e)
<1> DEFINE ids(x, y) == [i \in DOMAIN t.actions |-> Governing(t.actions[i], x, y).id]
           charges(x, y) == [i \in DOMAIN t.actions |->
                               Charge(t.actions[i], Governing(t.actions[i], x, y))]
<1>1. ids(r, d) = ids(p, e) /\ charges(r, d) = charges(p, e)
  OBVIOUS
<1>2. ASSUME NEW x, NEW y, Code(t, x, y) = "ALLOW"
      PROVE  evaluatePolicy(t, x, y) =
               [code |-> "ALLOW", ruleIds |-> ids(x, y), quotaDemands |-> FlattenSeq(charges(x, y))]
  BY <1>2, Permission
<1> HIDE DEF ids, charges
<1>3. QED
  BY <1>1, <1>2

-----------------------------------------------------------------------------
(***************************************************************************)
(* The transactions and the documents of a decision, and what one of them  *)
(* moves under a rule.                                                     *)
(***************************************************************************)
IsTransaction(t) ==
    /\ t = [chainId |-> t.chainId, actions |-> t.actions]
    /\ IsList(t.actions)
    /\ \A a \in ToSet(t.actions) : assetOf(a) # None => assetOf(a).units \in Nat

Capped(rule) == rule.limits # None /\ rule.limits.maxPerTransaction # None

IsDocument(p) ==
    /\ p = [default |-> p.default, chainId |-> p.chainId, maxActions |-> p.maxActions,
            rules |-> p.rules]
    /\ IsPolicy(p)
    /\ p.maxActions \in Nat \ {0}
    /\ \A j, k \in DOMAIN p.rules : p.rules[j].id = p.rules[k].id => j = k
    /\ \A rule \in ToSet(p.rules) : Capped(rule) => rule.limits.maxPerTransaction.units \in Nat

LEMMA TheTransactions == \A t \in Transactions : IsTransaction(t)
BY TransactionAssumption DEF IsTransaction

LEMMA TheDocuments == \A p \in Accepted : IsDocument(p)
<1> SUFFICES ASSUME NEW row \in Rows, verifyStoredPolicy(row) PROVE IsDocument(row.policy)
  BY DEF Accepted
<1> DEFINE p == row.policy
<1>1. validatePolicy(p)
  BY DEF verifyStoredPolicy
<1> HIDE DEF p
<1>2. /\ p = [default |-> p.default, chainId |-> p.chainId, maxActions |-> p.maxActions,
              rules |-> p.rules]
      /\ IsList(p.rules)
      /\ \A rule \in ToSet(p.rules) :
            /\ IsList(rule.match) /\ IsList(rule.providers)
            /\ (rule.limits # None /\ rule.limits.maxPerTransaction # None) =>
                 rule.limits.maxPerTransaction.units \in Nat
  BY DocumentAssumption DEF p
<1>3. p.maxActions \in Nat \ {0}
  <2>1. HasShape(p)
    BY <1>1 DEF validatePolicy
  <2>2. p.maxActions \in 1 .. 64
    BY <2>1, Zenon DEF HasShape
  <2>3. QED
    BY <2>2
<1>4. \A j, k \in DOMAIN p.rules : p.rules[j].id = p.rules[k].id => j = k
  BY <1>1 DEF validatePolicy
<1>5. \A rule \in ToSet(p.rules) :
         IsRule(rule) /\ (Capped(rule) => rule.limits.maxPerTransaction.units \in Nat)
  BY <1>2 DEF IsRule, Capped
<1>6. IsDocument(p)
  BY <1>2, <1>3, <1>4, <1>5 DEF IsDocument, IsPolicy
<1>7. QED
  BY <1>6 DEF p

Moved(t, p, e, j) ==
    [i \in DOMAIN t.actions |->
       IF governing(t.actions[i], p, e) = j THEN assetOf(t.actions[i]).units ELSE 0]

LEMMA MovedIsNatural ==
    ASSUME NEW t, NEW p, NEW e, NEW j, IsTransaction(t), p.rules[j].limits # None,
           \A i \in DOMAIN t.actions : Permitted(t.actions[i], p, e)
    PROVE  /\ Moved(t, p, e, j) \in Seq(Nat)
           /\ Len(Moved(t, p, e, j)) = Len(t.actions)
           /\ TotalOf(t, p, e, j) = SumOf(Moved(t, p, e, j))
<1>1. Len(t.actions) \in Nat /\ DOMAIN t.actions = 1 .. Len(t.actions)
  BY DEF IsTransaction, IsList
<1>2. ASSUME NEW i \in DOMAIN t.actions, governing(t.actions[i], p, e) = j
      PROVE  assetOf(t.actions[i]).units \in Nat
  <2>1. LimitsApply(t.actions[i], p.rules[j])
    BY <1>2 DEF Permitted
  <2>2. assetOf(t.actions[i]) # None
    BY <2>1 DEF LimitsApply
  <2>3. t.actions[i] \in ToSet(t.actions)
    BY DEF ToSet
  <2>4. QED
    BY <2>2, <2>3 DEF IsTransaction
<1>3. Moved(t, p, e, j) \in [1 .. Len(t.actions) -> Nat]
  BY <1>1, <1>2 DEF Moved
<1>4. TotalOf(t, p, e, j) = SumOf(Moved(t, p, e, j))
  BY DEF TotalOf, Moved
<1>5. QED
  BY <1>1, <1>3, <1>4

LEMMA RulesOfList ==
    ASSUME NEW p, IsPolicy(p)
    PROVE  \A j \in DOMAIN p.rules : IsRule(p.rules[j]) /\ j \in Nat /\ p.rules[j] \in ToSet(p.rules)
BY DEF IsPolicy, IsList, ToSet

-----------------------------------------------------------------------------
(***************************************************************************)
(* A read that fails buys nothing.                                         *)
(***************************************************************************)
\* Whatever row the read might have found, the same rule governs.
LEMMA GoverningStable ==
    ASSUME NEW a, NEW p, NEW e, IsPolicy(p), NEW q \in DOMAIN e, ~e[q].ok, NEW row,
           Permitted(a, p, e)
    PROVE  LET d == [e EXCEPT ![q] = row]
           IN governing(a, p, d) = governing(a, p, e) /\ Permitted(a, p, d)
<1> DEFINE d == [e EXCEPT ![q] = row]
           j == governing(a, p, e)
<1>1. IsList(p.rules)
  BY DEF IsPolicy
<1>2. /\ j \in DOMAIN p.rules
      /\ Candidate(a, p.rules[j], e)
      /\ \A k \in DOMAIN p.rules : k < j => ~Candidate(a, p.rules[k], e)
  BY <1>1, GoverningFound DEF Permitted
<1>3. ruleMatches(a, p.rules[j], e) = "yes"
  BY DEF Permitted
<1> HIDE DEF j, d
<1>4. ruleMatches(a, p.rules[j], d) = "yes"
  BY <1>2, <1>3, RuleStable, RulesOfList DEF d
<1>5. Candidate(a, p.rules[j], d)
  BY <1>2, <1>4 DEF Candidate
<1>6. ASSUME NEW k \in DOMAIN p.rules, k < j PROVE ~Candidate(a, p.rules[k], d)
  <2>1. CASE p.rules[k].effect # "allow"
    BY <2>1 DEF Candidate
  <2>2. CASE ruleMatches(a, p.rules[k], e) = "no"
    <3>1. ruleMatches(a, p.rules[k], d) = "no"
      BY <2>2, RuleStable, RulesOfList DEF d
    <3>2. QED
      BY <3>1 DEF Candidate
  <2>3. QED
    BY <1>2, <1>6, <2>1, <2>2 DEF Candidate
<1>7. governing(a, p, d) = j
  BY <1>1, <1>2, <1>5, <1>6, GoverningIs
<1>8. Permitted(a, p, d)
  BY <1>4, <1>7 DEF Permitted, j
<1>9. QED
  BY <1>7, <1>8 DEF j, d

LEMMA FailedReadBuysNothing ==
    ASSUME NEW t, NEW p, NEW e, IsTransaction(t), IsPolicy(p), Code(t, p, e) = "ALLOW",
           NEW q \in DOMAIN e, ~e[q].ok, NEW row
    PROVE  evaluatePolicy(t, p, [e EXCEPT ![q] = row]) = evaluatePolicy(t, p, e)
<1> DEFINE d == [e EXCEPT ![q] = row]
<1>1. AllowedBy(t, p, e)
  BY CodeAllows DEF IsTransaction, IsPolicy
<1>2. \A i \in DOMAIN t.actions :
         /\ governing(t.actions[i], p, d) = governing(t.actions[i], p, e)
         /\ Permitted(t.actions[i], p, d)
  BY <1>1, GoverningStable DEF AllowedBy
<1>3. NotDenied(t, p, d)
  <2>1. ASSUME NEW i \in DOMAIN t.actions, NEW j \in DOMAIN p.rules, p.rules[j].effect = "deny"
        PROVE  ruleMatches(t.actions[i], p.rules[j], d) = "no"
    <3>1. ruleMatches(t.actions[i], p.rules[j], e) = "no"
      BY <1>1, <2>1 DEF AllowedBy, NotDenied
    <3>2. QED
      BY <3>1, RuleStable, RulesOfList
  <2>2. QED
    BY <2>1 DEF NotDenied
<1> HIDE DEF d
<1>4. \A j : TotalOf(t, p, d, j) = TotalOf(t, p, e, j)
  <2>1. ASSUME NEW j PROVE TotalOf(t, p, d, j) = TotalOf(t, p, e, j)
    <3>1. Moved(t, p, d, j) = Moved(t, p, e, j)
      BY <1>2 DEF Moved
    <3>2. QED
      BY <3>1 DEF TotalOf, Moved
  <2>2. QED
    BY <2>1
<1>5. ~ExceedsTotal(t, p, d)
  BY <1>1, <1>4 DEF AllowedBy, ExceedsTotal
<1>6. AllowedBy(t, p, d)
  BY <1>1, <1>2, <1>3, <1>5 DEF AllowedBy
<1>7. Code(t, p, d) = "ALLOW"
  BY <1>6, CodeAllows DEF IsTransaction, IsPolicy
<1>8. \A i \in DOMAIN t.actions :
         Governing(t.actions[i], p, d) = Governing(t.actions[i], p, e)
  BY <1>2 DEF Governing
<1>9. evaluatePolicy(t, p, d) = evaluatePolicy(t, p, e)
  BY <1>7, <1>8, SameAnswer
<1>10. QED
  BY <1>9 DEF d

-----------------------------------------------------------------------------
(***************************************************************************)
(* Each part of a batch is allowed alone.                                  *)
(***************************************************************************)
Part(t, i) == [t EXCEPT !.actions = <<t.actions[i]>>]

LEMMA PartIsAllowed ==
    ASSUME NEW t, NEW p, NEW e, IsTransaction(t), IsDocument(p), Code(t, p, e) = "ALLOW",
           NEW i \in DOMAIN t.actions
    PROVE  LET rule == Governing(t.actions[i], p, e)
           IN /\ Code(Part(t, i), p, e) = "ALLOW"
              /\ evaluatePolicy(Part(t, i), p, e).ruleIds = <<rule.id>>
              /\ evaluatePolicy(Part(t, i), p, e).quotaDemands = Charge(t.actions[i], rule)
<1> DEFINE u == Part(t, i)
           a == t.actions[i]
           rule == Governing(a, p, e)
<1>1. /\ IsList(t.actions) /\ IsPolicy(p)
      /\ Len(t.actions) \in Nat /\ DOMAIN t.actions = 1 .. Len(t.actions)
      /\ a \in ToSet(t.actions)
  BY DEF IsTransaction, IsDocument, IsList, ToSet
<1>2. AllowedBy(t, p, e)
  BY <1>1, CodeAllows DEF IsPolicy
<1>3. u.chainId = t.chainId /\ u.actions = <<a>> /\ u = [chainId |-> u.chainId, actions |-> u.actions]
  <2> DEFINE c == t.chainId
             s == t.actions
  <2>1. t = [chainId |-> c, actions |-> s]
    BY DEF IsTransaction
  <2> HIDE DEF c, s
  <2>2. [t EXCEPT !.actions = <<a>>] = [chainId |-> c, actions |-> <<a>>]
    BY <2>1
  <2>3. u = [chainId |-> c, actions |-> <<a>>]
    BY <2>2 DEF Part
  <2>4. QED
    BY <2>3 DEF c
<1>4. IsTransaction(u)
  <2>1. IsList(u.actions) /\ ToSet(u.actions) = {a}
    BY <1>3 DEF IsList, ToSet
  <2>2. QED
    BY <1>1, <1>3, <2>1 DEF IsTransaction
<1>5. DOMAIN u.actions = {1} /\ u.actions[1] = a /\ Len(u.actions) = 1 /\ u.actions # <<>>
  BY <1>3
<1> HIDE DEF u, a
<1>6. NotDenied(u, p, e)
  BY <1>2, <1>5 DEF AllowedBy, NotDenied, a
<1>7. Permitted(a, p, e) /\ a.authorizations = 1
  BY <1>2 DEF AllowedBy, a
<1>8. ~(Len(u.actions) > p.maxActions)
  BY <1>5 DEF IsDocument
<1>9. ~ExceedsTotal(u, p, e)
  <2>1. SUFFICES ASSUME NEW j \in DOMAIN p.rules, Capped(p.rules[j]),
                        TotalOf(u, p, e, j) > p.rules[j].limits.maxPerTransaction.units
                 PROVE  FALSE
    BY DEF ExceedsTotal, Capped
  <2>2. ~(TotalOf(t, p, e, j) > p.rules[j].limits.maxPerTransaction.units)
    BY <1>2, <2>1 DEF AllowedBy, ExceedsTotal, Capped
  <2>3. p.rules[j].limits.maxPerTransaction.units \in Nat
    BY <1>1, <2>1, RulesOfList DEF IsDocument
  <2>4. /\ Moved(t, p, e, j) \in Seq(Nat)
        /\ Len(Moved(t, p, e, j)) = Len(t.actions)
        /\ TotalOf(t, p, e, j) = SumOf(Moved(t, p, e, j))
    BY <1>2, <2>1, MovedIsNatural DEF AllowedBy, Capped
  <2>5. /\ Moved(u, p, e, j) \in Seq(Nat)
        /\ Len(Moved(u, p, e, j)) = 1
        /\ TotalOf(u, p, e, j) = SumOf(Moved(u, p, e, j))
    BY <1>4, <1>5, <1>7, <2>1, MovedIsNatural DEF Capped
  <2>6. Moved(u, p, e, j)[1] = Moved(t, p, e, j)[i]
    BY <1>5 DEF Moved, a
  <2>7. SumOf(Moved(u, p, e, j)) = Moved(u, p, e, j)[1]
    BY <2>5, SumIsAbove
  <2>8. SumOf(Moved(t, p, e, j)) \in Nat /\ Moved(t, p, e, j)[i] <= SumOf(Moved(t, p, e, j))
    BY <1>1, <2>4, SumIsAbove
  <2>9. SumOf(Moved(u, p, e, j)) \in Nat
    BY <2>5, SumIsAbove
  <2>10. TotalOf(u, p, e, j) <= TotalOf(t, p, e, j)
    BY <2>4, <2>5, <2>6, <2>7, <2>8
  <2>11. QED
    BY <2>1, <2>2, <2>3, <2>4, <2>5, <2>8, <2>9, <2>10
<1>10. AllowedBy(u, p, e)
  BY <1>2, <1>3, <1>5, <1>6, <1>7, <1>8, <1>9 DEF AllowedBy
<1>11. Code(u, p, e) = "ALLOW"
  BY <1>1, <1>4, <1>10, CodeAllows DEF IsTransaction, IsPolicy
<1> DEFINE ids == [k \in DOMAIN u.actions |-> Governing(u.actions[k], p, e).id]
           charges == [k \in DOMAIN u.actions |->
                         Charge(u.actions[k], Governing(u.actions[k], p, e))]
<1>12. evaluatePolicy(u, p, e) =
         [code |-> "ALLOW", ruleIds |-> ids, quotaDemands |-> FlattenSeq(charges)]
  BY <1>11, Permission
<1>13. ids = <<rule.id>> /\ charges = <<Charge(a, rule)>>
  <2>1. ids = [k \in {1} |-> rule.id] /\ charges = [k \in {1} |-> Charge(a, rule)]
    BY <1>5
  <2>2. \A x : [k \in {1} |-> x] = <<x>>
    <3>1. {1} = 1 .. 1
      OBVIOUS
    <3>2. \A x : [k \in 1 .. 1 |-> x] = <<x>>
      OBVIOUS
    <3>3. QED
      BY <3>1, <3>2
  <2> HIDE DEF ids, charges
  <2>3. QED
    BY <2>1, <2>2
<1> HIDE DEF ids, charges
<1>14. FlattenSeq(charges) = Charge(a, rule)
  BY <1>13, FlattenOne
<1>15. QED
  BY <1>11, <1>12, <1>13, <1>14 DEF u, a

-----------------------------------------------------------------------------
(***************************************************************************)
(* The cap holds for the sum.                                              *)
(***************************************************************************)
LEMMA SumIsWithinCap ==
    ASSUME NEW t, NEW p, NEW e, IsTransaction(t), IsDocument(p), Code(t, p, e) = "ALLOW",
           NEW j \in DOMAIN p.rules, Capped(p.rules[j])
    PROVE  LET cap == p.rules[j].limits.maxPerTransaction
           IN /\ \A i \in DOMAIN t.actions : Governing(t.actions[i], p, e).id = p.rules[j].id =>
                    SameAsset(assetOf(t.actions[i]), cap)
              /\ SumOf([i \in DOMAIN t.actions |->
                          IF Governing(t.actions[i], p, e).id = p.rules[j].id
                          THEN assetOf(t.actions[i]).units ELSE 0]) <= cap.units
<1> DEFINE cap == p.rules[j].limits.maxPerTransaction
<1>1. IsList(t.actions) /\ IsPolicy(p) /\ IsList(p.rules)
  BY DEF IsTransaction, IsDocument, IsPolicy
<1>2. AllowedBy(t, p, e)
  BY <1>1, CodeAllows DEF IsPolicy
<1>3. ASSUME NEW i \in DOMAIN t.actions
      PROVE  Governing(t.actions[i], p, e).id = p.rules[j].id <=> governing(t.actions[i], p, e) = j
  <2>1. governing(t.actions[i], p, e) \in DOMAIN p.rules
    BY <1>1, <1>2, GoverningFound DEF AllowedBy, Permitted
  <2>2. QED
    BY <2>1 DEF Governing, IsDocument
<1>4. ASSUME NEW i \in DOMAIN t.actions, Governing(t.actions[i], p, e).id = p.rules[j].id
      PROVE  SameAsset(assetOf(t.actions[i]), cap)
  <2>1. governing(t.actions[i], p, e) = j
    BY <1>3, <1>4
  <2>2. LimitsApply(t.actions[i], p.rules[j])
    BY <1>2, <2>1 DEF AllowedBy, Permitted
  <2>3. QED
    BY <2>2, Zenon DEF LimitsApply, Capped
<1>5. [i \in DOMAIN t.actions |-> IF Governing(t.actions[i], p, e).id = p.rules[j].id
                                  THEN assetOf(t.actions[i]).units ELSE 0]
        = Moved(t, p, e, j)
  BY <1>3 DEF Moved
<1>6. SumOf(Moved(t, p, e, j)) <= cap.units
  <2>1. ~(TotalOf(t, p, e, j) > cap.units)
    BY <1>2 DEF AllowedBy, ExceedsTotal, Capped
  <2>2. cap.units \in Nat
    BY <1>1, RulesOfList DEF IsDocument
  <2>3. Moved(t, p, e, j) \in Seq(Nat) /\ TotalOf(t, p, e, j) = SumOf(Moved(t, p, e, j))
    BY <1>2, MovedIsNatural DEF AllowedBy, Capped
  <2>4. SumOf(Moved(t, p, e, j)) \in Nat
    BY <2>3, SumIsAbove
  <2> HIDE DEF cap
  <2>5. QED
    BY <2>1, <2>2, <2>3, <2>4
<1>7. QED
  BY <1>4, <1>5, <1>6

-----------------------------------------------------------------------------
(***************************************************************************)
(* The place of a deny rule does not matter.                               *)
(***************************************************************************)
\* The order f of the rules of p: a permutation that keeps the allow rules'.
KeepsAllows(p, f) ==
    /\ f \in Bijection(DOMAIN p.rules, DOMAIN p.rules)
    /\ \A j, k \in DOMAIN p.rules :
          (/\ j < k
           /\ p.rules[f[j]].effect = "allow"
           /\ p.rules[f[k]].effect = "allow") => f[j] < f[k]
Reordered(p, f) == [p EXCEPT !.rules = [j \in DOMAIN p.rules |-> p.rules[f[j]]]]

LEMMA OrderIsOneToOne ==
    ASSUME NEW p, NEW f, KeepsAllows(p, f)
    PROVE  /\ f \in [DOMAIN p.rules -> DOMAIN p.rules]
           /\ \A k \in DOMAIN p.rules : \E j \in DOMAIN p.rules : f[j] = k
           /\ \A j, k \in DOMAIN p.rules : f[j] = f[k] => j = k
BY Zenon DEF KeepsAllows, Bijection, Injection, Surjection, IsInjective

LEMMA ReorderedIs ==
    ASSUME NEW p, IsDocument(p), NEW f, KeepsAllows(p, f)
    PROVE  LET r == Reordered(p, f)
           IN /\ r.chainId = p.chainId /\ r.maxActions = p.maxActions
              /\ IsPolicy(r)
              /\ DOMAIN r.rules = DOMAIN p.rules
              /\ \A j \in DOMAIN p.rules : r.rules[j] = p.rules[f[j]]
<1> DEFINE r == Reordered(p, f)
           d == p.default
           c == p.chainId
           m == p.maxActions
           s == p.rules
           x == [j \in DOMAIN p.rules |-> p.rules[f[j]]]
<1>1. p = [default |-> d, chainId |-> c, maxActions |-> m, rules |-> s]
  BY DEF IsDocument
<1>2. IsPolicy(p) /\ IsList(s) /\ DOMAIN s = 1 .. Len(s) /\ Len(s) \in Nat
  BY DEF IsDocument, IsPolicy, IsList
<1>3. f \in [DOMAIN s -> DOMAIN s]
  BY <1>2, OrderIsOneToOne
<1>4. x \in [1 .. Len(s) -> ToSet(s)]
  BY <1>2, <1>3 DEF ToSet
<1>5. r = [p EXCEPT !.rules = x]
  BY DEF Reordered
<1> HIDE DEF d, c, m, s, x
<1>6. r = [default |-> d, chainId |-> c, maxActions |-> m, rules |-> x]
  BY <1>1, <1>5
<1>7. x \in Seq(ToSet(s)) /\ DOMAIN x = DOMAIN s
  BY <1>2, <1>4
<1>8. IsList(x)
  <2>1. x \in [1 .. Len(s) -> ToSet(x)]
    BY <1>4 DEF ToSet
  <2>2. QED
    BY <1>2, <2>1 DEF IsList
<1>9. \A rule \in ToSet(x) : rule \in ToSet(s)
  BY <1>2, <1>4 DEF ToSet
<1>10. IsPolicy(r)
  BY <1>2, <1>6, <1>8, <1>9 DEF IsPolicy, s
<1>11. QED
  BY <1>3, <1>6, <1>7, <1>10 DEF c, m, s, x

LEMMA GoverningReordered ==
    ASSUME NEW a, NEW p, NEW e, IsDocument(p), NEW f, KeepsAllows(p, f)
    PROVE  LET g == governing(a, Reordered(p, f), e)
           IN \/ g = 0 /\ governing(a, p, e) = 0
              \/ g \in DOMAIN p.rules /\ governing(a, p, e) = f[g]
<1> DEFINE r == Reordered(p, f)
           g == governing(a, r, e)
<1>1. /\ IsPolicy(r) /\ IsList(r.rules) /\ IsPolicy(p) /\ IsList(p.rules)
      /\ DOMAIN r.rules = DOMAIN p.rules
      /\ \A j \in DOMAIN p.rules : r.rules[j] = p.rules[f[j]]
  BY ReorderedIs DEF IsDocument, IsPolicy
<1>2. /\ f \in [DOMAIN p.rules -> DOMAIN p.rules]
      /\ \A k \in DOMAIN p.rules : \E j \in DOMAIN p.rules : f[j] = k
      /\ \A j, k \in DOMAIN p.rules : f[j] = f[k] => j = k
  BY <1>1, OrderIsOneToOne
<1>3. DOMAIN p.rules \subseteq Nat /\ 0 \notin DOMAIN p.rules
  BY <1>1 DEF IsList
<1> HIDE DEF r
<1>4. \/ g = 0 /\ \A k \in DOMAIN r.rules : ~Candidate(a, r.rules[k], e)
      \/ /\ g \in DOMAIN r.rules
         /\ Candidate(a, r.rules[g], e)
         /\ \A k \in DOMAIN r.rules : k < g => ~Candidate(a, r.rules[k], e)
  BY <1>1, GoverningFound
<1>5. CASE g = 0
  <2>1. \A k \in DOMAIN p.rules : ~Candidate(a, p.rules[k], e)
    BY <1>1, <1>2, <1>3, <1>4, <1>5
  <2>2. governing(a, p, e) = 0
    BY <1>1, <2>1, GoverningFound
  <2>3. QED
    BY <1>5, <2>2 DEF r
<1>6. CASE g # 0
  <2> HIDE DEF g
  <2>1. /\ g \in DOMAIN p.rules
        /\ Candidate(a, p.rules[f[g]], e)
        /\ \A k \in DOMAIN p.rules : k < g => ~Candidate(a, p.rules[f[k]], e)
    BY <1>1, <1>4, <1>6
  <2>2. ASSUME NEW k \in DOMAIN p.rules, k < f[g] PROVE ~Candidate(a, p.rules[k], e)
    <3>1. PICK j \in DOMAIN p.rules : f[j] = k
      BY <1>2
    <3>2. SUFFICES ASSUME Candidate(a, p.rules[f[j]], e) PROVE FALSE
      BY <3>1
    <3>3. ~(j < g) /\ j # g
      BY <1>2, <1>3, <2>1, <2>2, <3>1, <3>2
    <3>4. g < j
      BY <1>3, <2>1, <3>3
    <3>5. p.rules[f[g]].effect = "allow" /\ p.rules[f[j]].effect = "allow"
      BY <2>1, <3>2 DEF Candidate
    <3>6. f[g] < f[j]
      BY <2>1, <3>4, <3>5 DEF KeepsAllows
    <3>7. f[g] \in Nat /\ f[j] \in Nat
      BY <1>2, <1>3, <2>1
    <3>8. QED
      BY <2>2, <3>1, <3>6, <3>7
  <2>3. f[g] \in DOMAIN p.rules
    BY <1>2, <2>1
  <2>4. governing(a, p, e) = f[g]
    BY <1>1, <2>1, <2>2, <2>3, GoverningIs
  <2>5. QED
    BY <2>1, <2>4 DEF g, r
<1>7. QED
  BY <1>5, <1>6

LEMMA OrderDoesNotMatter ==
    ASSUME NEW t, NEW p, NEW e, IsTransaction(t), IsDocument(p), NEW f, KeepsAllows(p, f)
    PROVE  LET r == Reordered(p, f)
           IN /\ Code(t, r, e) = "ALLOW" <=> Code(t, p, e) = "ALLOW"
              /\ evaluatePolicy(t, r, e).ruleIds = evaluatePolicy(t, p, e).ruleIds
<1> DEFINE r == Reordered(p, f)
<1>1. /\ r.chainId = p.chainId /\ r.maxActions = p.maxActions
      /\ IsPolicy(r) /\ IsPolicy(p) /\ IsList(p.rules) /\ IsList(t.actions)
      /\ DOMAIN r.rules = DOMAIN p.rules
      /\ \A j \in DOMAIN p.rules : r.rules[j] = p.rules[f[j]]
  BY ReorderedIs DEF IsDocument, IsPolicy, IsTransaction
<1>2. /\ f \in [DOMAIN p.rules -> DOMAIN p.rules]
      /\ \A k \in DOMAIN p.rules : \E j \in DOMAIN p.rules : f[j] = k
      /\ \A j, k \in DOMAIN p.rules : f[j] = f[k] => j = k
  BY <1>1, OrderIsOneToOne
<1>3. 0 \notin DOMAIN p.rules
  BY <1>1 DEF IsList
<1>4. ASSUME NEW a
      PROVE  LET g == governing(a, r, e)
             IN \/ g = 0 /\ governing(a, p, e) = 0
                \/ g \in DOMAIN p.rules /\ governing(a, p, e) = f[g]
  BY GoverningReordered
<1> HIDE DEF r
<1>5. ASSUME NEW a
      PROVE  /\ (governing(a, r, e) = 0) <=> (governing(a, p, e) = 0)
             /\ governing(a, r, e) # 0 => Governing(a, r, e) = Governing(a, p, e)
  BY <1>1, <1>2, <1>3, <1>4 DEF Governing
<1>6. NotDenied(t, r, e) <=> NotDenied(t, p, e)
  <2>1. ASSUME NotDenied(t, r, e), NEW i \in DOMAIN t.actions, NEW k \in DOMAIN p.rules,
               p.rules[k].effect = "deny"
        PROVE  ruleMatches(t.actions[i], p.rules[k], e) = "no"
    <3>1. PICK j \in DOMAIN p.rules : f[j] = k
      BY <1>2
    <3>2. QED
      BY <1>1, <2>1, <3>1 DEF NotDenied
  <2>2. ASSUME NotDenied(t, p, e), NEW i \in DOMAIN t.actions, NEW j \in DOMAIN r.rules,
               r.rules[j].effect = "deny"
        PROVE  ruleMatches(t.actions[i], r.rules[j], e) = "no"
    BY <1>1, <1>2, <2>2 DEF NotDenied
  <2>3. QED
    BY <2>1, <2>2 DEF NotDenied
<1>7. \A a : Permitted(a, r, e) <=> Permitted(a, p, e)
  BY <1>5, Zenon DEF Permitted, Governing
<1>8. ASSUME \A i \in DOMAIN t.actions : Permitted(t.actions[i], p, e), NEW j \in DOMAIN p.rules
      PROVE  TotalOf(t, r, e, j) = TotalOf(t, p, e, f[j])
  <2>1. ASSUME NEW i \in DOMAIN t.actions
        PROVE  governing(t.actions[i], r, e) = j <=> governing(t.actions[i], p, e) = f[j]
    BY <1>2, <1>3, <1>4, <1>8 DEF Permitted
  <2>2. Moved(t, r, e, j) = Moved(t, p, e, f[j])
    BY <2>1 DEF Moved
  <2>3. QED
    BY <2>2 DEF TotalOf, Moved
<1>9. ASSUME \A i \in DOMAIN t.actions : Permitted(t.actions[i], p, e)
      PROVE  ExceedsTotal(t, r, e) <=> ExceedsTotal(t, p, e)
  <2> DEFINE Over(x, j) == /\ x.rules[j].limits # None
                           /\ x.rules[j].limits.maxPerTransaction # None
                           /\ TotalOf(t, x, e, j) > x.rules[j].limits.maxPerTransaction.units
  <2>1. /\ ExceedsTotal(t, r, e) <=> \E j \in DOMAIN r.rules : Over(r, j)
        /\ ExceedsTotal(t, p, e) <=> \E j \in DOMAIN p.rules : Over(p, j)
    BY DEF ExceedsTotal
  <2>2. \A j \in DOMAIN p.rules : Over(r, j) <=> Over(p, f[j])
    BY <1>1, <1>8, <1>9
  <2> HIDE DEF Over
  <2>3. QED
    BY <1>1, <1>2, <2>1, <2>2
<1>10. AllowedBy(t, r, e) <=> AllowedBy(t, p, e)
  BY <1>1, <1>6, <1>7, <1>9 DEF AllowedBy
<1>11. Code(t, r, e) = "ALLOW" <=> Code(t, p, e) = "ALLOW"
  BY <1>1, <1>10, CodeAllows DEF IsPolicy
<1>12. evaluatePolicy(t, r, e).ruleIds = evaluatePolicy(t, p, e).ruleIds
  <2>1. CASE Code(t, p, e) # "ALLOW"
    BY <1>11, <2>1, Refusal DEF Refused
  <2>2. CASE Code(t, p, e) = "ALLOW"
    <3>1. \A i \in DOMAIN t.actions :
             Governing(t.actions[i], r, e) = Governing(t.actions[i], p, e)
      BY <1>1, <1>5, <1>10, <2>2, CodeAllows DEF AllowedBy, Permitted, IsPolicy
    <3>2. QED
      BY <1>11, <2>2, <3>1, SameAnswer
  <2>3. QED
    BY <2>1, <2>2
<1>13. QED
  BY <1>11, <1>12 DEF r

-----------------------------------------------------------------------------
(***************************************************************************)
(* Codes, and what is unavailable.                                         *)
(***************************************************************************)
LEMMA DeniedEnds ==
    ASSUME NEW t, NEW p, NEW e, IsList(t.actions), IsPolicy(p), Denied(t, p, e) # "no"
    PROVE  \E i \in DOMAIN t.actions, j \in DOMAIN p.rules :
              Denied(t, p, e) = ruleMatches(t.actions[i], p.rules[j], e)
<1> DEFINE row(i) == [j \in DOMAIN p.rules |->
                        IF p.rules[j].effect = "deny"
                        THEN ruleMatches(t.actions[i], p.rules[j], e) ELSE "no"]
           all == [i \in DOMAIN t.actions |-> FirstOther(row(i), "no")]
<1>1. /\ Len(t.actions) \in Nat /\ DOMAIN t.actions = 1 .. Len(t.actions)
      /\ Len(p.rules) \in Nat /\ DOMAIN p.rules = 1 .. Len(p.rules)
  BY DEF IsList, IsPolicy
<1>2. Denied(t, p, e) = FirstOther(all, "no")
  BY DEF Denied
<1>3. PICK i \in DOMAIN t.actions : Denied(t, p, e) = FirstOther(row(i), "no")
  <2>1. DOMAIN all = 1 .. Len(t.actions)
    BY <1>1
  <2>2. \A i \in DOMAIN t.actions : all[i] = FirstOther(row(i), "no")
    OBVIOUS
  <2> HIDE DEF all, row
  <2>3. FirstOther(all, "no") # "no"
    BY <1>2
  <2>4. PICK i \in DOMAIN all : FirstOther(all, "no") = all[i]
    BY <1>1, <2>1, <2>3, FirstOtherEnds
  <2>5. i \in DOMAIN t.actions
    BY <1>1, <2>1
  <2>6. QED
    BY <1>2, <2>2, <2>4, <2>5
<1>4. DOMAIN row(i) = 1 .. Len(p.rules)
  BY <1>1
<1>5. \A j \in DOMAIN p.rules : row(i)[j] # "no" => row(i)[j] = ruleMatches(t.actions[i], p.rules[j], e)
  OBVIOUS
<1> HIDE DEF row
<1>6. PICK j \in DOMAIN row(i) : FirstOther(row(i), "no") = row(i)[j] /\ row(i)[j] # "no"
  BY <1>1, <1>3, <1>4, FirstOtherEnds
<1>7. QED
  BY <1>1, <1>3, <1>4, <1>5, <1>6

LEMMA CodeIs ==
    ASSUME NEW t, NEW p, NEW e, IsList(t.actions), IsPolicy(p)
    PROVE  \/ Code(t, p, e) \in {"CHAIN_MISMATCH", "EMPTY_TRANSACTION", "MULTI_AUTHORIZATION",
                                 "RULE_DENY", "TOO_MANY_ACTIONS", "LIMIT_EXCEEDED", "ALLOW"}
           \/ Denied(t, p, e) \notin {"yes", "no"} /\ Code(t, p, e) = Thrown(Denied(t, p, e))
           \/ \E i \in DOMAIN t.actions : Code(t, p, e) = ActionCode(t.actions[i], p, e)
<1> DEFINE all == [i \in DOMAIN t.actions |-> ActionCode(t.actions[i], p, e)]
           codes == FirstOther(all, "ALLOW")
<1>1. Len(t.actions) \in Nat /\ DOMAIN t.actions = 1 .. Len(t.actions)
  BY DEF IsList
<1>2. codes # "ALLOW" => \E i \in DOMAIN t.actions : codes = ActionCode(t.actions[i], p, e)
  <2>1. DOMAIN all = 1 .. Len(t.actions)
    BY <1>1
  <2>2. \A i \in DOMAIN t.actions : all[i] = ActionCode(t.actions[i], p, e)
    OBVIOUS
  <2> HIDE DEF all
  <2>3. QED
    BY <1>1, <2>1, <2>2, FirstOtherEnds
<1>3. Code(t, p, e) =
        IF p.chainId # ChainId \/ t.chainId # ChainId THEN "CHAIN_MISMATCH"
        ELSE IF t.actions = <<>> THEN "EMPTY_TRANSACTION"
        ELSE IF \E i \in DOMAIN t.actions : t.actions[i].authorizations # 1
             THEN "MULTI_AUTHORIZATION"
        ELSE IF Denied(t, p, e) = "yes" THEN "RULE_DENY"
        ELSE IF Denied(t, p, e) # "no" THEN Thrown(Denied(t, p, e))
        ELSE IF Len(t.actions) > p.maxActions THEN "TOO_MANY_ACTIONS"
        ELSE IF codes # "ALLOW" THEN codes
        ELSE IF ExceedsTotal(t, p, e) THEN "LIMIT_EXCEEDED"
        ELSE "ALLOW"
  BY DEF Code
<1> HIDE DEF codes
<1>4. QED
  BY <1>2, <1>3, Zenon

LEMMA CodeIsACode ==
    ASSUME NEW t, NEW p, NEW e, IsList(t.actions), IsPolicy(p)
    PROVE  Code(t, p, e) \in Codes
<1>1. \A v : Thrown(v) \in Codes
  BY DEF Thrown, Codes
<1>2. ASSUME NEW a PROVE ActionCode(a, p, e) \in Codes
  <2> DEFINE j == governing(a, p, e)
             match == ruleMatches(a, p.rules[j], e)
  <2>1. ActionCode(a, p, e) = IF j = 0 THEN "DEFAULT_DENY"
                              ELSE IF match # "yes" THEN Thrown(match)
                              ELSE IF LimitsApply(a, p.rules[j]) THEN "ALLOW"
                              ELSE "AMBIGUOUS_VALUE"
    BY DEF ActionCode
  <2> HIDE DEF j, match
  <2>2. QED
    BY <1>1, <2>1 DEF Codes
<1>3. QED
  BY <1>1, <1>2, CodeIs DEF Codes

\* Of a provider that is unavailable, the read was asked for or it failed.
LEMMA UnavailableFailed ==
    ASSUME NEW t, NEW p, NEW e, IsList(t.actions), IsPolicy(p),
           collectProviderQueries(t, p) \subseteq DOMAIN e,
           NEW i \in DOMAIN t.actions, NEW j \in DOMAIN p.rules,
           ruleMatches(t.actions[i], p.rules[j], e) = "unavailable"
    PROVE  \E q \in DOMAIN e : ~e[q].ok
<1> DEFINE a == t.actions[i]
           rule == p.rules[j]
<1>1. a \in ToSet(t.actions) /\ rule \in ToSet(p.rules) /\ IsRule(rule)
  BY RulesOfList DEF ToSet
<1>2. ruleMatches(a, rule, e) = "unavailable"
  OBVIOUS
<1> HIDE DEF a, rule
<1>3. PICK req \in ToSet(rule.providers) : providerHolds(req, a, e) = "unavailable"
  BY <1>1, <1>2, RuleUnavailable
<1>4. staticMatch(a, rule) = "yes"
  BY <1>1, <1>2, RuleUnavailable
<1> DEFINE query == resolveTableRowArgs(req, a)
<1>5. Resolves(req, a)
  BY <1>3, Zenon DEF providerHolds
<1>6. query \in QueriesOf(a, rule)
  BY <1>4, <1>5 DEF QueriesOf
<1>7. query \in collectProviderQueries(t, p)
  <2>1. QueriesOf(a, rule) \in {QueriesOf(b, r) : b \in ToSet(t.actions), r \in ToSet(p.rules)}
    BY <1>1
  <2>2. collectProviderQueries(t, p) =
          UNION {QueriesOf(b, r) : b \in ToSet(t.actions), r \in ToSet(p.rules)}
    BY DEF collectProviderQueries
  <2>3. QED
    BY <1>6, <2>1, <2>2
<1>8. query \in DOMAIN e
  BY <1>7
<1>9. e[query].ok => providerHolds(req, a, e) # "unavailable"
  BY <1>8, Zenon DEF providerHolds
<1>10. QED
  BY <1>3, <1>8, <1>9

LEMMA NothingUnasked ==
    ASSUME NEW t, NEW p, NEW e, IsList(t.actions), IsPolicy(p),
           collectProviderQueries(t, p) \subseteq DOMAIN e,
           Code(t, p, e) = "PROVIDER_UNAVAILABLE"
    PROVE  \E q \in DOMAIN e : ~e[q].ok
<1>1. \A v \in Verdicts : Thrown(v) = "PROVIDER_UNAVAILABLE" /\ v \notin {"yes", "no"} =>
                            v = "unavailable"
  BY DEF Thrown, Verdicts
<1>2. SUFFICES \E i \in DOMAIN t.actions, j \in DOMAIN p.rules :
                  ruleMatches(t.actions[i], p.rules[j], e) = "unavailable"
  BY UnavailableFailed
<1>3. CASE /\ Denied(t, p, e) \notin {"yes", "no"}
           /\ Thrown(Denied(t, p, e)) = "PROVIDER_UNAVAILABLE"
  <2>1. PICK i \in DOMAIN t.actions, j \in DOMAIN p.rules :
           Denied(t, p, e) = ruleMatches(t.actions[i], p.rules[j], e)
    BY <1>3, DeniedEnds
  <2>2. Denied(t, p, e) \in Verdicts
    BY <2>1, RuleVerdict, RulesOfList
  <2>3. Denied(t, p, e) = "unavailable"
    BY <1>1, <1>3, <2>2
  <2>4. QED
    BY <2>1, <2>3
<1>4. CASE \E i \in DOMAIN t.actions : ActionCode(t.actions[i], p, e) = "PROVIDER_UNAVAILABLE"
  <2>1. PICK i \in DOMAIN t.actions : ActionCode(t.actions[i], p, e) = "PROVIDER_UNAVAILABLE"
    BY <1>4
  <2> DEFINE a == t.actions[i]
             j == governing(a, p, e)
             match == ruleMatches(a, p.rules[j], e)
  <2>2. ActionCode(a, p, e) = IF j = 0 THEN "DEFAULT_DENY"
                              ELSE IF match # "yes" THEN Thrown(match)
                              ELSE IF LimitsApply(a, p.rules[j]) THEN "ALLOW"
                              ELSE "AMBIGUOUS_VALUE"
    BY DEF ActionCode
  <2>3. j # 0 => j \in DOMAIN p.rules /\ match # "no"
    BY GoverningFound DEF IsPolicy, Candidate
  <2>4. j # 0 => match \in Verdicts
    BY <2>3, RuleVerdict, RulesOfList
  <2> HIDE DEF j, match
  <2>5. j # 0 /\ match # "yes" /\ Thrown(match) = "PROVIDER_UNAVAILABLE"
    BY <2>1, <2>2
  <2>6. match = "unavailable"
    BY <1>1, <2>3, <2>4, <2>5
  <2>7. QED
    BY <2>3, <2>5, <2>6 DEF match
<1>5. QED
  BY <1>3, <1>4, CodeIs

-----------------------------------------------------------------------------
(***************************************************************************)
(* The decision.  Its inductive invariant: an answer other than that of    *)
(* the catch is the engine's, on evidence for exactly the queries that     *)
(* were collected.                                                         *)
(***************************************************************************)
LEMMA AnswerType ==
    ASSUME NEW t \in Transactions, NEW p \in Accepted, NEW e
    PROVE  LET result == evaluatePolicy(t, p, e)
           IN /\ result \in Results
              /\ result.code = Code(t, p, e)
              /\ Len(result.ruleIds) = (IF Code(t, p, e) = "ALLOW" THEN Len(t.actions) ELSE 0)
              /\ Len(result.quotaDemands) <= Len(result.ruleIds)
<1> DEFINE result == evaluatePolicy(t, p, e)
           Ids == {rule.id : rule \in RulesAccepted}
           Demanded == {Demand(a, rule) : a \in UNION {ToSet(x.actions) : x \in Transactions},
                                          rule \in RulesAccepted}
           n == Len(t.actions)
<1>1. /\ IsTransaction(t) /\ IsDocument(p) /\ IsPolicy(p) /\ IsList(t.actions) /\ IsList(p.rules)
      /\ n \in Nat /\ DOMAIN t.actions = 1 .. n
  BY TheTransactions, TheDocuments DEF IsTransaction, IsDocument, IsPolicy, IsList
<1>2. Results = [code : Codes, ruleIds : Seq(Ids), quotaDemands : Seq(Demanded)]
  BY DEF Results
<1>3. Code(t, p, e) \in Codes
  BY <1>1, CodeIsACode
<1>4. CASE Code(t, p, e) # "ALLOW"
  <2>1. result = [code |-> Code(t, p, e), ruleIds |-> <<>>, quotaDemands |-> <<>>]
    BY <1>4, Refusal DEF Refused
  <2> HIDE DEF result, Ids, Demanded
  <2>2. Len(result.ruleIds) = 0 /\ Len(result.quotaDemands) = 0 /\ result.code = Code(t, p, e)
    BY <2>1
  <2>3. result \in Results
    BY <1>2, <1>3, <2>1
  <2>4. QED
    BY <1>4, <2>2, <2>3 DEF result
<1>5. CASE Code(t, p, e) = "ALLOW"
  <2> DEFINE rule(i) == Governing(t.actions[i], p, e)
             ids == [i \in DOMAIN t.actions |-> rule(i).id]
             charges == [i \in DOMAIN t.actions |-> Charge(t.actions[i], rule(i))]
  <2>1. result = [code |-> "ALLOW", ruleIds |-> ids, quotaDemands |-> FlattenSeq(charges)]
    BY <1>5, Permission
  <2>2. ASSUME NEW i \in DOMAIN t.actions PROVE rule(i) \in RulesAccepted
    <3>1. Permitted(t.actions[i], p, e)
      BY <1>1, <1>5, CodeAllows DEF AllowedBy
    <3>2. governing(t.actions[i], p, e) \in DOMAIN p.rules
      BY <1>1, <3>1, GoverningFound DEF Permitted
    <3>3. rule(i) \in ToSet(p.rules)
      BY <3>2 DEF Governing, ToSet
    <3>4. QED
      BY <3>3 DEF RulesAccepted
  <2>3. ids \in [1 .. n -> Ids]
    BY <1>1, <2>2
  <2>4. ASSUME NEW i \in DOMAIN t.actions
        PROVE  Charge(t.actions[i], rule(i)) \in Seq(Demanded) /\ Len(Charge(t.actions[i], rule(i))) <= 1
    <3>1. t.actions[i] \in UNION {ToSet(x.actions) : x \in Transactions}
      <4>1. t.actions[i] \in ToSet(t.actions)
        BY DEF ToSet
      <4>2. QED
        BY <4>1
    <3>2. Demand(t.actions[i], rule(i)) \in Demanded
      BY <2>2, <3>1
    <3> DEFINE d == Demand(t.actions[i], rule(i))
               c == Charge(t.actions[i], rule(i))
    <3>3. c = <<>> \/ c = <<d>>
      BY DEF Charge
    <3> HIDE DEF Demanded, c, d
    <3>4. d \in Demanded
      BY <3>2 DEF d
    <3>5. <<d>> \in Seq(Demanded) /\ Len(<<d>>) = 1
      BY <3>4
    <3>6. <<>> \in Seq(Demanded) /\ Len(<<>>) = 0
      OBVIOUS
    <3>7. c \in Seq(Demanded) /\ Len(c) <= 1
      <4>1. CASE c = <<>>
        BY <3>6, <4>1
      <4>2. CASE c = <<d>>
        BY <3>5, <4>2
      <4>3. QED
        BY <3>3, <4>1, <4>2
    <3>8. QED
      BY <3>7 DEF c
  <2>5. charges \in [1 .. n -> Seq(Demanded)] /\ \A i \in 1 .. n : Len(charges[i]) <= 1
    <3>1. DOMAIN charges = 1 .. n
      BY <1>1
    <3>2. \A i \in 1 .. n : charges[i] = Charge(t.actions[i], rule(i))
      BY <1>1
    <3> HIDE DEF Demanded, rule
    <3>3. \A i \in 1 .. n : charges[i] \in Seq(Demanded) /\ Len(charges[i]) <= 1
      BY <1>1, <2>4, <3>2
    <3>4. charges = [i \in 1 .. n |-> charges[i]]
      BY <1>1
    <3> HIDE DEF charges
    <3>5. QED
      BY <3>3, <3>4
  <2> HIDE DEF ids, charges, Ids, Demanded
  <2>6. charges \in Seq(Seq(Demanded)) /\ Len(charges) = n /\ ids \in Seq(Ids) /\ Len(ids) = n
    BY <1>1, <2>3, <2>5
  <2>7. FlattenSeq(charges) \in Seq(Demanded) /\ Len(FlattenSeq(charges)) <= n
    BY <2>5, <2>6, FlattenType
  <2> HIDE DEF result
  <2>8. result \in Results
    BY <1>2, <1>3, <1>5, <2>1, <2>6, <2>7
  <2>9. QED
    BY <1>5, <2>1, <2>6, <2>7, <2>8 DEF result
<1>6. QED
  BY <1>4, <1>5

DecisionInv ==
    /\ tx \in Transactions /\ policy \in Accepted
    /\ stage \in {"collect", "resolve", "answered"}
    /\ stage = "collect" => waiting = {} /\ DOMAIN evidence = {} /\ answer = None
    /\ stage = "resolve" =>
         /\ waiting \cup DOMAIN evidence = collectProviderQueries(tx, policy)
         /\ waiting \cap DOMAIN evidence = {}
         /\ answer = None
    /\ stage = "answered" =>
         /\ waiting = {}
         /\ \/ answer = Refused("INTERNAL_ERROR")
            \/ /\ DOMAIN evidence = collectProviderQueries(tx, policy)
               /\ answer = evaluatePolicy(tx, policy, evidence)

LEMMA DecisionInit == Init => DecisionInv
<1> SUFFICES ASSUME Init PROVE DecisionInv
  OBVIOUS
<1>1. DOMAIN evidence = {}
  BY DEF Init
<1>2. QED
  BY <1>1 DEF Init, DecisionInv

LEMMA DecisionStep == DecisionInv /\ [Next]_vars => DecisionInv'
<1> SUFFICES ASSUME DecisionInv, [Next]_vars PROVE DecisionInv'
  OBVIOUS
<1>1. CASE Collect
  BY <1>1 DEF Collect, DecisionInv
<1>2. CASE CollectFails
  BY <1>2 DEF CollectFails, DecisionInv
<1>3. ASSUME NEW query \in waiting, NEW outcome, ResolveOne(query, outcome)
      PROVE  DecisionInv'
  <2>1. stage = "resolve"
    BY <1>3 DEF ResolveOne, DecisionInv
  <2>2. DOMAIN evidence' = DOMAIN evidence \cup {query} /\ waiting' = waiting \ {query}
    BY <1>3 DEF ResolveOne
  <2>3. UNCHANGED <<tx, policy, stage, answer>>
    BY <1>3 DEF ResolveOne
  <2>4. QED
    BY <1>3, <2>1, <2>2, <2>3 DEF DecisionInv
<1>4. CASE Evaluate
  BY <1>4 DEF Evaluate, DecisionInv
<1>5. CASE UNCHANGED vars
  BY <1>5 DEF vars, DecisionInv
<1>6. QED
  BY <1>1, <1>2, <1>3, <1>4, <1>5 DEF Next

\* The invariant holds in every decision.
LEMMA DecisionInvariant == Spec => []DecisionInv
BY DecisionInit, DecisionStep, PTL DEF Spec

\* An allowed transaction was allowed by the engine, on the evidence that
\* came back.
LEMMA WhenAllowed ==
    ASSUME DecisionInv, answer # None
    PROVE  /\ stage = "answered" /\ waiting = {}
           /\ tx \in Transactions /\ policy \in Accepted
           /\ IsTransaction(tx) /\ IsDocument(policy) /\ IsPolicy(policy) /\ IsList(tx.actions)
           /\ answer.code # "INTERNAL_ERROR" =>
                /\ DOMAIN evidence = collectProviderQueries(tx, policy)
                /\ answer = evaluatePolicy(tx, policy, evidence)
                /\ answer.code = Code(tx, policy, evidence)
<1>1. stage = "answered" /\ tx \in Transactions /\ policy \in Accepted
  BY DEF DecisionInv
<1>2. IsTransaction(tx) /\ IsDocument(policy) /\ IsPolicy(policy) /\ IsList(tx.actions)
  BY <1>1, TheTransactions, TheDocuments DEF IsTransaction, IsDocument
<1>3. Refused("INTERNAL_ERROR").code = "INTERNAL_ERROR"
  BY DEF Refused
<1>4. evaluatePolicy(tx, policy, evidence).code = Code(tx, policy, evidence)
  BY <1>1, AnswerType
<1>5. QED
  BY <1>1, <1>2, <1>3, <1>4 DEF DecisionInv

-----------------------------------------------------------------------------
(***************************************************************************)
(* The theorems.                                                           *)
(***************************************************************************)
\* An answer is given with every read back, and only an allowed transaction
\* has governing rules, one for each action, and at most as many demands.
THEOREM DecisionTypeOK == Spec => []TypeOK
<1>1. DecisionInv => TypeOK
  <2> SUFFICES ASSUME DecisionInv PROVE TypeOK
    OBVIOUS
  <2>1. ASSUME stage = "answered"
        PROVE  /\ answer # None
               /\ Len(answer.ruleIds) = (IF answer.code = "ALLOW" THEN Len(tx.actions) ELSE 0)
               /\ Len(answer.quotaDemands) <= Len(answer.ruleIds)
    <3>1. CASE answer = Refused("INTERNAL_ERROR")
      <4>1. answer = [code |-> "INTERNAL_ERROR", ruleIds |-> <<>>, quotaDemands |-> <<>>]
        BY <3>1 DEF Refused
      <4>2. answer \in Results
        BY <4>1 DEF Results, Codes
      <4>3. Len(answer.ruleIds) = 0 /\ Len(answer.quotaDemands) = 0 /\ answer.code = "INTERNAL_ERROR"
        BY <4>1
      <4>4. QED
        BY <4>2, <4>3, NoneAssumption
    <3>2. CASE answer = evaluatePolicy(tx, policy, evidence)
      <4>1. tx \in Transactions /\ policy \in Accepted
        BY DEF DecisionInv
      <4>2. /\ answer \in Results
            /\ answer.code = Code(tx, policy, evidence)
            /\ Len(answer.ruleIds) = (IF answer.code = "ALLOW" THEN Len(tx.actions) ELSE 0)
            /\ Len(answer.quotaDemands) <= Len(answer.ruleIds)
        BY <3>2, <4>1, AnswerType
      <4>3. QED
        BY <4>2, NoneAssumption
    <3>3. QED
      BY <2>1, <3>1, <3>2 DEF DecisionInv
  <2>2. stage = "answered" <=> answer # None
    BY <2>1 DEF DecisionInv
  <2>3. stage # "resolve" => waiting = {}
    BY DEF DecisionInv
  <2>4. waiting \cap DOMAIN evidence = {}
    BY DEF DecisionInv
  <2>5. QED
    BY <2>1, <2>2, <2>3, <2>4 DEF TypeOK, DecisionInv, Allowed
<1>2. QED
  BY <1>1, DecisionInvariant, PTL

\* A read that fails never buys anything, whatever it might have found.
THEOREM DecisionFailsClosed == Spec => []FailedReadsOnlyRefuse
<1>1. DecisionInv => FailedReadsOnlyRefuse
  <2> SUFFICES ASSUME DecisionInv, answer # None, answer.code = "ALLOW",
                      NEW q \in DOMAIN evidence, ~evidence[q].ok, NEW row
               PROVE  evaluatePolicy(tx, policy, [evidence EXCEPT ![q] = row]) = answer
    BY DEF FailedReadsOnlyRefuse, Allowed
  <2>1. /\ answer = evaluatePolicy(tx, policy, evidence)
        /\ Code(tx, policy, evidence) = "ALLOW"
        /\ IsTransaction(tx) /\ IsPolicy(policy)
    BY WhenAllowed
  <2>2. QED
    BY <2>1, FailedReadBuysNothing
<1>2. QED
  BY <1>1, DecisionInvariant, PTL

\* Batching buys nothing: each part is allowed alone, under the same rule,
\* and the whole is charged what its parts are.
THEOREM DecisionIsPiecewise == Spec => []BatchIsItsParts
<1>1. DecisionInv => BatchIsItsParts
  <2> SUFFICES ASSUME DecisionInv, answer # None, answer.code = "ALLOW"
               PROVE  /\ \A i \in DOMAIN tx.actions : Alone(i).ruleIds = <<answer.ruleIds[i]>>
                      /\ FlattenSeq([i \in DOMAIN tx.actions |-> Alone(i).quotaDemands])
                           = answer.quotaDemands
    BY DEF BatchIsItsParts, Allowed
  <2>1. /\ answer = evaluatePolicy(tx, policy, evidence)
        /\ Code(tx, policy, evidence) = "ALLOW"
        /\ IsTransaction(tx) /\ IsDocument(policy)
    BY WhenAllowed
  <2> DEFINE rule(i) == Governing(tx.actions[i], policy, evidence)
             ids == [i \in DOMAIN tx.actions |-> rule(i).id]
             charges == [i \in DOMAIN tx.actions |-> Charge(tx.actions[i], rule(i))]
  <2>2. answer = [code |-> "ALLOW", ruleIds |-> ids, quotaDemands |-> FlattenSeq(charges)]
    BY <2>1, Permission
  <2>3. ASSUME NEW i \in DOMAIN tx.actions
        PROVE  Alone(i).ruleIds = <<rule(i).id>> /\ Alone(i).quotaDemands = Charge(tx.actions[i], rule(i))
    BY <2>1, PartIsAllowed DEF Alone, Part
  <2>4. [i \in DOMAIN tx.actions |-> Alone(i).quotaDemands] = charges
    BY <2>3
  <2>5. \A i \in DOMAIN tx.actions : ids[i] = rule(i).id
    OBVIOUS
  <2> HIDE DEF ids, charges
  <2>6. answer.ruleIds = ids /\ answer.quotaDemands = FlattenSeq(charges)
    BY <2>2
  <2>7. QED
    BY <2>3, <2>4, <2>5, <2>6
<1>2. QED
  BY <1>1, DecisionInvariant, PTL

\* What an allowed transaction moves under a rule stays within its cap.
THEOREM DecisionKeepsCaps == Spec => []CapIsForTheSum
<1>1. DecisionInv => CapIsForTheSum
  <2> SUFFICES ASSUME DecisionInv, answer # None, answer.code = "ALLOW",
                      NEW r \in ToSet(policy.rules), Capped(r)
               PROVE  /\ \A i \in DOMAIN tx.actions : answer.ruleIds[i] = r.id =>
                            SameAsset(assetOf(tx.actions[i]), r.limits.maxPerTransaction)
                      /\ SumOf([i \in DOMAIN tx.actions |->
                                  IF answer.ruleIds[i] = r.id
                                  THEN assetOf(tx.actions[i]).units ELSE 0])
                           <= r.limits.maxPerTransaction.units
    BY DEF CapIsForTheSum, Allowed, Capped
  <2>1. /\ answer = evaluatePolicy(tx, policy, evidence)
        /\ Code(tx, policy, evidence) = "ALLOW"
        /\ IsTransaction(tx) /\ IsDocument(policy)
    BY WhenAllowed
  <2>2. PICK j \in DOMAIN policy.rules : r = policy.rules[j]
    BY DEF ToSet
  <2> DEFINE rule(i) == Governing(tx.actions[i], policy, evidence)
             ids == [i \in DOMAIN tx.actions |-> rule(i).id]
             charges == [i \in DOMAIN tx.actions |-> Charge(tx.actions[i], rule(i))]
  <2>3. answer = [code |-> "ALLOW", ruleIds |-> ids, quotaDemands |-> FlattenSeq(charges)]
    BY <2>1, Permission
  <2>4. \A i \in DOMAIN tx.actions : ids[i] = rule(i).id
    OBVIOUS
  <2> HIDE DEF ids, charges
  <2>5. \A i \in DOMAIN tx.actions : answer.ruleIds[i] = rule(i).id
    BY <2>3, <2>4
  <2>6. [i \in DOMAIN tx.actions |-> IF answer.ruleIds[i] = r.id
                                     THEN assetOf(tx.actions[i]).units ELSE 0]
          = [i \in DOMAIN tx.actions |-> IF rule(i).id = r.id
                                         THEN assetOf(tx.actions[i]).units ELSE 0]
    BY <2>5
  <2>7. /\ \A i \in DOMAIN tx.actions : rule(i).id = r.id =>
              SameAsset(assetOf(tx.actions[i]), r.limits.maxPerTransaction)
        /\ SumOf([i \in DOMAIN tx.actions |-> IF rule(i).id = r.id
                                              THEN assetOf(tx.actions[i]).units ELSE 0])
             <= r.limits.maxPerTransaction.units
    BY <2>1, <2>2, SumIsWithinCap
  <2>8. QED
    BY <2>5, <2>6, <2>7
<1>2. QED
  BY <1>1, DecisionInvariant, PTL

\* A deny rule is as strong wherever it stands among the rules.
THEOREM DecisionIgnoresTheOrder == Spec => []DenyWinsAnywhere
<1>1. DecisionInv => DenyWinsAnywhere
  <2> SUFFICES ASSUME DecisionInv, answer # None, answer.code # "INTERNAL_ERROR",
                      NEW f \in Orders
               PROVE  LET other == evaluatePolicy(tx, InOrder(f), evidence)
                      IN (other.code = "ALLOW" <=> Allowed) /\ other.ruleIds = answer.ruleIds
    BY DEF DenyWinsAnywhere
  <2>1. /\ answer = evaluatePolicy(tx, policy, evidence)
        /\ answer.code = Code(tx, policy, evidence)
        /\ IsTransaction(tx) /\ IsDocument(policy)
    BY WhenAllowed
  <2>2. KeepsAllows(policy, f) /\ InOrder(f) = Reordered(policy, f)
    BY DEF Orders, KeepsAllows, InOrder, Reordered
  <2> DEFINE r == InOrder(f)
  <2>3. /\ Code(tx, r, evidence) = "ALLOW" <=> answer.code = "ALLOW"
        /\ evaluatePolicy(tx, r, evidence).ruleIds = answer.ruleIds
    BY <2>1, <2>2, OrderDoesNotMatter
  <2> HIDE DEF r
  <2>4. evaluatePolicy(tx, r, evidence).code = "ALLOW" <=> Code(tx, r, evidence) = "ALLOW"
    BY CodeOfAnswer
  <2>5. QED
    BY <2>3, <2>4 DEF Allowed, r
<1>2. QED
  BY <1>1, DecisionInvariant, PTL

\* The collection asks for everything the engine goes on to consult.
THEOREM DecisionAsksForAll == Spec => []NothingLeftUnasked
<1>1. DecisionInv => NothingLeftUnasked
  <2> SUFFICES ASSUME DecisionInv, answer # None, answer.code = "PROVIDER_UNAVAILABLE"
               PROVE  \E q \in DOMAIN evidence : ~evidence[q].ok
    BY DEF NothingLeftUnasked
  <2>1. /\ DOMAIN evidence = collectProviderQueries(tx, policy)
        /\ Code(tx, policy, evidence) = "PROVIDER_UNAVAILABLE"
        /\ IsList(tx.actions) /\ IsPolicy(policy)
    BY WhenAllowed
  <2>2. QED
    BY <2>1, NothingUnasked
<1>2. QED
  BY <1>1, DecisionInvariant, PTL
=============================================================================
