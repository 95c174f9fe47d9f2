---------------------------- MODULE PolicySchema ----------------------------
(***************************************************************************)
(* The documents the daemon accepts (src/core/policy/schema.ts and         *)
(* onchain.ts).  A row of the policy table is its document, and whether    *)
(* the bytes stored are the ones hashed and in canonical form.  Of a       *)
(* string the schema asks how long it is.  That fields have their types,   *)
(* and ids and paths fit their patterns, holds of all documents here.      *)
(***************************************************************************)
EXTENDS PolicyEngine

CONSTANTS
    Malformed,          \* what was to be an asset, or a number, and is none
    Chars(_)            \* how many characters a value is written in

ASSUME MalformedAssumption == Malformed # None /\ {None, Malformed} \cap Int = {}

\* The JSON schema.
MaxCount == 1000000
MaxCooldown == 86400000     \* a day, in milliseconds

PredicateShape(p) ==
    IF p.op \in {"in", "notIn"}
    THEN Len(p.values) \in 1 .. 256 /\ \A v \in ToSet(p.values) : Chars(v) \in 1 .. 256
    ELSE Chars(p.bound) \in 1 .. 64

LimitsShape(limits) ==
    /\ \E field \in DOMAIN limits : limits[field] # None
    /\ limits.cooldownPerRecipientMs # None => limits.cooldownPerRecipientMs \in 0 .. MaxCooldown
    /\ \A count \in CountLimits : limits[count] # None => limits[count] \in 1 .. MaxCount

\* The contract and the table of a requirement are one name.
RequirementShape(req) ==
    /\ Chars(Text(req.table)) \in 1 .. 64 /\ Chars(req.key) \in 1 .. 64
    /\ Chars(req.value) \in 1 .. 256

HasShape(policy) ==
    /\ policy.default = "deny"
    /\ policy.maxActions \in 1 .. 64
    /\ Len(policy.rules) <= 256
    /\ \A rule \in ToSet(policy.rules) :
          /\ Len(rule.match) \in 1 .. 32
          /\ \A i, j \in DOMAIN rule.match : rule.match[i].path = rule.match[j].path => i = j
          /\ \A p \in ToSet(rule.match) : PredicateShape(p)
          /\ rule.limits # None => LimitsShape(rule.limits)
          /\ Len(rule.providers) <= 8
          /\ \A req \in ToSet(rule.providers) : RequirementShape(req)

LimitsFit(rule) ==
    rule.limits # None =>
        /\ rule.effect = "allow"
        /\ Malformed \notin {rule.limits.maxPerTransaction, rule.limits.maxPerHour,
                             rule.limits.maxPerDay}

\* (mutant) two rules may share an id
validateEachRule(policy) ==
    HasShape(policy) /\ \A rule \in ToSet(policy.rules) : LimitsFit(rule)

validatePolicy(policy) ==
    /\ HasShape(policy)
    /\ \A i, j \in DOMAIN policy.rules : policy.rules[i].id = policy.rules[j].id => i = j
    /\ \A rule \in ToSet(policy.rules) : LimitsFit(rule)

verifyStoredPolicy(row) ==
    row.hashed /\ row.policy # None /\ row.canonical /\ validatePolicy(row.policy)
=============================================================================
