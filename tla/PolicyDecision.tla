--------------------------- MODULE PolicyDecision ---------------------------
(***************************************************************************)
(* One decision on a transaction, from the collection of the provider      *)
(* queries to the verdict of the engine (the middle of runDecision, and    *)
(* `transaction explain`).  The reads are made together, and each comes    *)
(* back with a row, without one, or not at all: a relay that is down or    *)
(* too slow, and a malformed answer, all count as failed.                  *)
(***************************************************************************)
EXTENDS PolicySchema

CONSTANTS
    Transactions,              \* what may be asked
    Rows,                      \* what may be in the policy table
    RowsOf                     \* what the row of a table may be, by table

\* An amount that is moved is a number of units, as is a cap.
ASSUME TransactionAssumption ==
    \A t \in Transactions :
        /\ t = [chainId |-> t.chainId, actions |-> t.actions]
        /\ IsList(t.actions)
        /\ \A a \in ToSet(t.actions) : assetOf(a) # None => assetOf(a).units \in Nat

ASSUME DocumentAssumption ==
    \A row \in Rows : verifyStoredPolicy(row) =>
        LET p == row.policy
        IN /\ p = [default |-> p.default, chainId |-> p.chainId, maxActions |-> p.maxActions,
                 rules |-> p.rules]
           /\ IsList(p.rules)
           /\ \A rule \in ToSet(p.rules) :
                 /\ IsList(rule.match) /\ IsList(rule.providers)
                 /\ (rule.limits # None /\ rule.limits.maxPerTransaction # None) =>
                      rule.limits.maxPerTransaction.units \in Nat

Accepted == {row.policy : row \in {r \in Rows : verifyStoredPolicy(r)}}
RulesAccepted == UNION {ToSet(p.rules) : p \in Accepted}

Codes ==
    {"ALLOW", "CHAIN_MISMATCH", "EMPTY_TRANSACTION", "MULTI_AUTHORIZATION", "RULE_DENY",
     "TOO_MANY_ACTIONS", "DEFAULT_DENY", "LIMIT_EXCEEDED", "AMBIGUOUS_VALUE",
     "PROVIDER_UNAVAILABLE", "INTERNAL_ERROR"}

Results ==
    [code : Codes, ruleIds : Seq({rule.id : rule \in RulesAccepted}),
     quotaDemands : Seq({Demand(a, rule) : a \in UNION {ToSet(t.actions) : t \in Transactions},
                                           rule \in RulesAccepted})]

ASSUME NoneAssumption == None \notin Results

VARIABLES
    tx, policy,                \* the transaction and the policy of this decision
    stage,                     \* "collect", "resolve" or "answered"
    waiting,                   \* the queries whose read has not come back
    evidence,                  \* what the other queries came back with
    answer                     \* the result, None before

vars == <<tx, policy, stage, waiting, evidence, answer>>

Failed == [ok |-> FALSE]
NotFound == [ok |-> TRUE, found |-> FALSE]
Found(array, elements) == [ok |-> TRUE, found |-> TRUE, array |-> array, elements |-> elements]

Refused(code) == [code |-> code, ruleIds |-> <<>>, quotaDemands |-> <<>>]

Init ==
    /\ tx \in Transactions
    /\ policy \in Accepted
    /\ stage = "collect"
    /\ waiting = {}
    /\ evidence = <<>>
    /\ answer = None

Collect ==
    /\ stage = "collect"
    /\ ~CollectionThrows(tx, policy)
    /\ stage' = "resolve"
    /\ waiting' = collectProviderQueries(tx, policy)
    /\ UNCHANGED <<tx, policy, evidence, answer>>

\* The catch of the decision answers what nothing else caught.
CollectFails ==
    /\ stage = "collect"
    /\ CollectionThrows(tx, policy)
    /\ stage' = "answered"
    /\ answer' = Refused("INTERNAL_ERROR")
    /\ UNCHANGED <<tx, policy, waiting, evidence>>

ResolveOne(query, outcome) ==
    /\ query \in waiting
    /\ waiting' = waiting \ {query}
    /\ evidence' = [q \in DOMAIN evidence \cup {query} |->
                      IF q = query THEN outcome ELSE evidence[q]]
    /\ UNCHANGED <<tx, policy, stage, answer>>

Evaluate ==
    /\ stage = "resolve"
    /\ waiting = {}
    /\ stage' = "answered"
    /\ answer' = evaluatePolicy(tx, policy, evidence)
    /\ UNCHANGED <<tx, policy, waiting, evidence>>

Next ==
    \/ Collect
    \/ CollectFails
    \/ \E query \in waiting :
          \E outcome \in RowsOf[query.table] \cup {Failed, NotFound} : ResolveOne(query, outcome)
    \/ Evaluate

Spec == Init /\ [][Next]_vars

-----------------------------------------------------------------------------
Allowed == answer # None /\ answer.code = "ALLOW"

\* An answer is given with every read back, and only an allowed transaction
\* has governing rules, one for each action, and demands, at most as many
\* (the verdict of evaluatePolicy).
TypeOK ==
    /\ stage \in {"collect", "resolve", "answered"}
    /\ stage = "answered" <=> answer # None
    /\ stage # "resolve" => waiting = {}
    /\ waiting \cap DOMAIN evidence = {}
    /\ answer # None =>
         /\ Len(answer.ruleIds) = (IF Allowed THEN Len(tx.actions) ELSE 0)
         /\ Len(answer.quotaDemands) <= Len(answer.ruleIds)

\* A read that fails never buys anything: the rows it might have found lead
\* to the very same permission (the engine fails closed on missing evidence
\* as soon as a verdict depends on it).
FailedReadsOnlyRefuse ==
    Allowed =>
        LET failed == {q \in DOMAIN evidence : ~evidence[q].ok}
        IN \A q \in failed : \A row \in RowsOf[q.table] \cup {NotFound} :
              evaluatePolicy(tx, policy, [evidence EXCEPT ![q] = row]) = answer

\* Batching buys nothing either: each part of an allowed transaction is
\* allowed by itself under the same rules, and the whole is charged to the
\* quota journal for exactly what its actions are charged alone.
Alone(i) == evaluatePolicy([tx EXCEPT !.actions = <<tx.actions[i]>>], policy, evidence)
BatchIsItsParts ==
    Allowed =>
        /\ \A i \in DOMAIN tx.actions : Alone(i).ruleIds = <<answer.ruleIds[i]>>
        /\ FlattenSeq([i \in DOMAIN tx.actions |-> Alone(i).quotaDemands]) = answer.quotaDemands

\* N actions at the cap of a rule do not move N times the cap: what an
\* allowed transaction moves under a rule stays within maxPerTransaction, in
\* the asset the cap is written in.
CapIsForTheSum ==
    Allowed =>
        \A r \in ToSet(policy.rules) :
            (r.limits # None /\ r.limits.maxPerTransaction # None) =>
                /\ \A i \in DOMAIN tx.actions : answer.ruleIds[i] = r.id =>
                      SameAsset(assetOf(tx.actions[i]), r.limits.maxPerTransaction)
                /\ SumOf([i \in DOMAIN tx.actions |->
                            IF answer.ruleIds[i] = r.id THEN assetOf(tx.actions[i]).units ELSE 0])
                     <= r.limits.maxPerTransaction.units

\* A deny rule is as strong wherever it stands in the policy: with the rules
\* in any order that keeps the allow rules in theirs, the transaction is
\* allowed or refused as before, under the same rules.
Orders ==
    {f \in Bijection(DOMAIN policy.rules, DOMAIN policy.rules) :
        \A i, j \in DOMAIN policy.rules :
            (/\ i < j
             /\ policy.rules[f[i]].effect = "allow"
             /\ policy.rules[f[j]].effect = "allow") => f[i] < f[j]}
InOrder(f) == [policy EXCEPT !.rules = [i \in DOMAIN policy.rules |-> policy.rules[f[i]]]]
DenyWinsAnywhere ==
    (answer # None /\ answer.code # "INTERNAL_ERROR") =>
        \A f \in Orders :
            LET other == evaluatePolicy(tx, InOrder(f), evidence)
            IN (other.code = "ALLOW" <=> Allowed) /\ other.ruleIds = answer.ruleIds

\* The collection asks for everything the engine goes on to consult: with
\* every read back with a row or the lack of one, nothing is unavailable.
NothingLeftUnasked ==
    (answer # None /\ answer.code = "PROVIDER_UNAVAILABLE") =>
        \E q \in DOMAIN evidence : ~evidence[q].ok

\* What schema.ts says of a provider: it "can only NARROW a rule (an extra AND
\* condition), never widen the rights the policy already grants".  So whatever
\* is allowed would be allowed with the requirements struck out.
WithoutProviders ==
    [policy EXCEPT !.rules = [j \in DOMAIN @ |-> [@[j] EXCEPT !.providers = <<>>]]]
ProvidersOnlyNarrow ==
    Allowed => evaluatePolicy(tx, WithoutProviders, evidence).code = "ALLOW"
=============================================================================
