---------------------------- MODULE PolicyEngine ----------------------------
(***************************************************************************)
(* The policy engine: a pure function of a decoded transaction, a policy   *)
(* and the evidence the daemon resolved for the policy's providers.  A     *)
(* test of the engine has one of four verdicts; "ambiguous" and            *)
(* "unavailable" are the exceptions AmbiguousValueError (and AssetError)   *)
(* and ProviderUnavailableError, which end the evaluation.                 *)
(***************************************************************************)
EXTENDS Integers, Sequences, FiniteSets, SequencesExt

CONSTANTS
    Agent, AgentPermission,    \* what $agent and $agentPermission stand for
    ChainId,                   \* the chain the daemon is configured for
    None                       \* a field the document or the action does not have

Verdicts == {"yes", "no", "ambiguous", "unavailable"}

(***************************************************************************)
(* Field values.  An amount is a string of digits: its units of 10^-places *)
(* and its number of decimals.  A policy writes texts, amounts and the     *)
(* variables; a field of an action can also be an integer or a structure.  *)
(***************************************************************************)
Text(s) == [kind |-> "text", of |-> s]
Amount(units, places) == [kind |-> "amount", units |-> units, places |-> places]
Integer(n) == [kind |-> "int", n |-> n]
Structure == [kind |-> "structure"]
Absent == [kind |-> "absent"]
Variable(name) == [kind |-> "variable", name |-> name]
Embedded == [kind |-> "embedded"]             \* "prefix$agent"

IsList(s) == s \in Seq(ToSet(s))

IsString(v) == v.kind \in {"text", "amount"}

\* A loop that goes on while a test has verdict `pass` and ends at the first
\* one that has another.
FirstOther(verdicts, pass) ==
    LET others == {i \in DOMAIN verdicts : verdicts[i] # pass}
    IN IF others = {} THEN pass ELSE verdicts[Min(others)]

-----------------------------------------------------------------------------
(***************************************************************************)
(* The predicates of a rule's match.  A bare string and {eq} are an {in}   *)
(* of one value.                                                           *)
(***************************************************************************)
substitute(v) ==
    IF v.kind # "variable" THEN v
    ELSE Text(IF v.name = "$agent" THEN Agent ELSE AgentPermission)

Member(actual, values) ==
    LET hit == SelectInSeq(values, LAMBDA v : v = Embedded \/ substitute(v) = actual)
    IN IF hit = 0 THEN "no" ELSE IF values[hit] = Embedded THEN "ambiguous" ELSE "yes"

Size(v) == IF v.kind = "int" THEN v.n ELSE v.units

\* The sign of actual - bound.
compareOrdered(actual, bound) ==
    IF \/ bound.kind # "amount"
       \/ actual.kind \notin {"amount", "int"}
       \/ actual.kind = "amount" /\ actual.places # bound.places
       \/ actual.kind = "int" /\ bound.places # 0
    THEN "ambiguous"
    ELSE IF Size(actual) < bound.units THEN "-" ELSE IF Size(actual) > bound.units THEN "+" ELSE "0"

predicateHolds(actual, p) ==
    IF p.op \in {"in", "notIn"}
    THEN IF ~IsString(actual) THEN "no"
         ELSE LET member == Member(actual, p.values)
              IN IF p.op = "in" \/ member = "ambiguous" THEN member
                 ELSE IF member = "no" THEN "yes" ELSE "no"
    ELSE IF actual = Absent THEN "no"
         ELSE LET sign == compareOrdered(actual, p.bound)
              IN IF sign = "ambiguous" THEN sign
                 ELSE IF sign \in {"0", IF p.op = "lte" THEN "-" ELSE "+"} THEN "yes" ELSE "no"

\* A path the action does not have leads nowhere.
resolvePath(a, path) == IF path \in DOMAIN a.field THEN a.field[path] ELSE Absent

staticMatch(a, rule) ==
    FirstOther([i \in DOMAIN rule.match |->
                  predicateHolds(resolvePath(a, rule.match[i].path), rule.match[i])], "yes")

-----------------------------------------------------------------------------
(***************************************************************************)
(* Providers.  A requirement reads the row with some key of a table (its   *)
(* contract, scope and name in one) and tests one field of it.  Evidence   *)
(* maps the queries that were resolved to what came back; the field is the *)
(* set of its elements, a scalar being a set of one.                       *)
(***************************************************************************)
substituteArg(v, a) ==
    CASE v.kind = "variable" -> substitute(v)
      [] v.kind = "path"     -> resolvePath(a, v.path)
      [] OTHER               -> v

resolveTableRowArgs(req, a) == [table |-> req.table, key |-> substituteArg(req.key, a)]

Resolves(req, a) == IsString(substituteArg(req.key, a))

\* (mutant) a read that failed counts as a row that is not there
providerFound(req, a, evidence) ==
    LET query  == resolveTableRowArgs(req, a)
        target == substituteArg(req.value, a)
    IN IF ~Resolves(req, a) \/ ~IsString(target) THEN "ambiguous"
       ELSE IF /\ query \in DOMAIN evidence
               /\ evidence[query].ok
               /\ evidence[query].found
               /\ target \in evidence[query].elements
            THEN "yes" ELSE "no"

\* Of an array with one element String() makes that element.
providerHolds(req, a, evidence) ==
    LET query  == resolveTableRowArgs(req, a)
        target == substituteArg(req.value, a)
    IN IF ~Resolves(req, a) THEN "ambiguous"
       ELSE IF query \notin DOMAIN evidence THEN "unavailable"
       ELSE IF ~evidence[query].ok THEN "unavailable"
       ELSE IF ~evidence[query].found THEN "no"
       ELSE IF ~IsString(target) THEN "ambiguous"
       ELSE IF req.op = "contains" /\ ~evidence[query].array THEN "ambiguous"
       ELSE IF req.op = "contains"
            THEN IF target \in evidence[query].elements THEN "yes" ELSE "no"
       ELSE IF evidence[query].elements = {target} THEN "yes" ELSE "no"

ruleMatches(a, rule, evidence) ==
    FirstOther(<<staticMatch(a, rule)>> \o
               [i \in DOMAIN rule.providers |-> providerHolds(rule.providers[i], a, evidence)],
               "yes")

\* What a rule whose static match passes asks for; an argument that does not
\* resolve asks for nothing.
QueriesOf(a, rule) ==
    {resolveTableRowArgs(req, a) :
       req \in {q \in ToSet(rule.providers) : staticMatch(a, rule) = "yes" /\ Resolves(q, a)}}

\* (mutant) only the rules that may grant something are asked for
collectForAllow(tx, policy) ==
    UNION {QueriesOf(a, rule) : a \in ToSet(tx.actions),
                                rule \in {r \in ToSet(policy.rules) : r.effect = "allow"}}

\* The queries the daemon resolves first.
collectProviderQueries(tx, policy) ==
    UNION {QueriesOf(a, rule) : a \in ToSet(tx.actions), rule \in ToSet(policy.rules)}

\* The static match is outside the try block of the collection.
CollectionThrows(tx, policy) ==
    \E i \in DOMAIN tx.actions, j \in DOMAIN policy.rules :
        /\ policy.rules[j].providers # <<>>
        /\ staticMatch(tx.actions[i], policy.rules[j]) = "ambiguous"

-----------------------------------------------------------------------------
(***************************************************************************)
(* Limits.                                                                 *)
(***************************************************************************)
assetOf(a) ==
    LET amount == resolvePath(a, "data.quantity.amount")
        symbol == resolvePath(a, "data.quantity.symbol")
    IN IF /\ amount.kind = "amount"
          /\ symbol.kind = "text"
          /\ resolvePath(a, "data.quantity.precision") = Integer(amount.places)
       THEN [symbol |-> symbol.of, precision |-> amount.places, units |-> amount.units]
       ELSE None

recipientOf(a) ==
    LET to == resolvePath(a, "data.to") IN IF IsString(to) THEN to ELSE None

SameAsset(x, y) == x.symbol = y.symbol /\ x.precision = y.precision

\* The first allow rule that does not fail to match; 0 if none.
governing(a, policy, evidence) ==
    SelectInSeq(policy.rules,
        LAMBDA r : r.effect = "allow" /\ ruleMatches(a, r, evidence) # "no")

\* A limit that a rule does not set is None.
NoLimits ==
    [maxPerTransaction |-> None, maxPerHour |-> None, maxPerDay |-> None,
     cooldownPerRecipientMs |-> None, maxCountPerHour |-> None, maxCountPerDay |-> None,
     maxCountPerRecipientPerHour |-> None]

CountLimits == {"maxCountPerHour", "maxCountPerDay", "maxCountPerRecipientPerHour"}
PerRecipient == {"cooldownPerRecipientMs", "maxCountPerRecipientPerHour"}
Windows == {"maxPerHour", "maxPerDay"} \cup CountLimits \cup PerRecipient

\* Window limits make one demand of the quota journal for each action.
wantsWindow(rule) == rule.limits # None /\ \E w \in Windows : rule.limits[w] # None

LimitsApply(a, rule) ==
    rule.limits # None =>
        /\ assetOf(a) # None
        /\ rule.limits.maxPerTransaction # None =>
             SameAsset(assetOf(a), rule.limits.maxPerTransaction)
        /\ (\E w \in PerRecipient : rule.limits[w] # None) => recipientOf(a) # None

SumOf(units) ==
    LET sum[n \in 0 .. Len(units)] == IF n = 0 THEN 0 ELSE sum[n - 1] + units[n]
    IN sum[Len(units)]

\* What the actions under rule j move, all of them together.
TotalOf(tx, policy, evidence, j) ==
    SumOf([i \in DOMAIN tx.actions |->
             IF governing(tx.actions[i], policy, evidence) = j
             THEN assetOf(tx.actions[i]).units ELSE 0])

\* (mutant) the cap is for each action
ExceedsAlone(tx, policy, evidence) ==
    \E i \in DOMAIN tx.actions :
        LET limits == policy.rules[governing(tx.actions[i], policy, evidence)].limits
        IN /\ limits # None
           /\ limits.maxPerTransaction # None
           /\ assetOf(tx.actions[i]).units > limits.maxPerTransaction.units

ExceedsTotal(tx, policy, evidence) ==
    \E j \in DOMAIN policy.rules :
        LET limits == policy.rules[j].limits
        IN /\ limits # None
           /\ limits.maxPerTransaction # None
           /\ TotalOf(tx, policy, evidence, j) > limits.maxPerTransaction.units

-----------------------------------------------------------------------------
(***************************************************************************)
(* evaluatePolicy.  Its code is "ALLOW" or that of the refusal.            *)
(***************************************************************************)
Thrown(verdict) == IF verdict = "ambiguous" THEN "AMBIGUOUS_VALUE" ELSE "PROVIDER_UNAVAILABLE"

\* (mutant) one pass: a deny rule is too late once an allow rule has matched
DeniedInOrder(tx, policy, evidence) ==
    FirstOther([i \in DOMAIN tx.actions |->
        LET first == SelectInSeq(policy.rules,
                        LAMBDA r : ruleMatches(tx.actions[i], r, evidence) # "no")
        IN IF first # 0 /\ policy.rules[first].effect = "deny"
           THEN ruleMatches(tx.actions[i], policy.rules[first], evidence) ELSE "no"], "no")

\* The deny pass: every rule on the first action, then on the next.
Denied(tx, policy, evidence) ==
    FirstOther([i \in DOMAIN tx.actions |->
        FirstOther([j \in DOMAIN policy.rules |->
            IF policy.rules[j].effect = "deny"
            THEN ruleMatches(tx.actions[i], policy.rules[j], evidence) ELSE "no"], "no")], "no")

ActionCode(a, policy, evidence) ==
    LET j == governing(a, policy, evidence)
    IN IF j = 0 THEN "DEFAULT_DENY"
       ELSE LET match == ruleMatches(a, policy.rules[j], evidence)
            IN IF match # "yes" THEN Thrown(match)
               ELSE IF LimitsApply(a, policy.rules[j]) THEN "ALLOW" ELSE "AMBIGUOUS_VALUE"

Code(tx, policy, evidence) ==
    LET denied  == Denied(tx, policy, evidence)
        actions == FirstOther([i \in DOMAIN tx.actions |->
                                 ActionCode(tx.actions[i], policy, evidence)], "ALLOW")
    IN IF policy.chainId # ChainId \/ tx.chainId # ChainId THEN "CHAIN_MISMATCH"
       ELSE IF tx.actions = <<>> THEN "EMPTY_TRANSACTION"
       ELSE IF \E i \in DOMAIN tx.actions : tx.actions[i].authorizations # 1
            THEN "MULTI_AUTHORIZATION"
       ELSE IF denied = "yes" THEN "RULE_DENY"
       ELSE IF denied # "no" THEN Thrown(denied)
       ELSE IF Len(tx.actions) > policy.maxActions THEN "TOO_MANY_ACTIONS"
       ELSE IF actions # "ALLOW" THEN actions
       ELSE IF ExceedsTotal(tx, policy, evidence) THEN "LIMIT_EXCEEDED"
       ELSE "ALLOW"

Demand(a, rule) == [rule |-> rule.id, asset |-> assetOf(a), recipient |-> recipientOf(a)]

\* (mutant) one demand for a rule, not one for an action
evaluateOncePerRule(tx, policy, evidence) ==
    LET code  == Code(tx, policy, evidence)
        rules == [i \in DOMAIN tx.actions |->
                    policy.rules[governing(tx.actions[i], policy, evidence)]]
        all   == [i \in DOMAIN tx.actions |->
                    IF wantsWindow(rules[i]) /\ \A k \in 1 .. i - 1 : rules[k] # rules[i]
                    THEN <<Demand(tx.actions[i], rules[i])>> ELSE <<>>]
    IN IF code # "ALLOW" THEN [code |-> code, ruleIds |-> <<>>, quotaDemands |-> <<>>]
       ELSE [code |-> code, ruleIds |-> [i \in DOMAIN rules |-> rules[i].id],
             quotaDemands |-> FlattenSeq(all)]

\* (mutant) the rules met so far go out with a refusal
evaluateKeepingRules(tx, policy, evidence) ==
    LET ids == [i \in DOMAIN tx.actions |-> governing(tx.actions[i], policy, evidence)]
    IN [code |-> Code(tx, policy, evidence), ruleIds |-> ids, quotaDemands |-> <<>>]

evaluatePolicy(tx, policy, evidence) ==
    LET code  == Code(tx, policy, evidence)
        rules == [i \in DOMAIN tx.actions |->
                    policy.rules[governing(tx.actions[i], policy, evidence)]]
        all   == [i \in DOMAIN tx.actions |->
                    IF wantsWindow(rules[i]) THEN <<Demand(tx.actions[i], rules[i])>> ELSE <<>>]
    IN IF code # "ALLOW" THEN [code |-> code, ruleIds |-> <<>>, quotaDemands |-> <<>>]
       ELSE [code |-> code, ruleIds |-> [i \in DOMAIN rules |-> rules[i].id],
             quotaDemands |-> FlattenSeq(all)]
=============================================================================
