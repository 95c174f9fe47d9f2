-------------------------- MODULE PolicySimulator --------------------------
(***************************************************************************)
(* What the editor says of a test transaction (web/src/editor/eval.ts,     *)
(* lookups.ts, testTx.ts), and the same document as the daemon reads it.   *)
(*                                                                         *)
(* Transactions, actions, values and the evidence of lookups are those of  *)
(* PolicyEngine: lookups.ts reads the same rows by the same queries.  The  *)
(* code walks the graph from a node back to its sources and stops at a     *)
(* node it is in; here a walk goes back at most as many wires as there are *)
(* nodes, which is the same in a graph without cycles.                     *)
(*                                                                         *)
(* Amounts are added up and compared with a cap as doubles, and 0.1 + 0.2  *)
(* is more than 0.3 as doubles go.                                         *)
(***************************************************************************)
EXTENDS PolicyCompile

CONSTANT
    Rounded     \* the sums [amounts, cap] that doubles order otherwise than numbers

-----------------------------------------------------------------------------
(* Values of an action. *)

\* A test is normalised: these fields are empty strings rather than absent.
getPath(a, path) ==
    LET v == resolvePath(a, path)
    IN IF v = Absent /\ path \in {"data.from", "data.to", "data.quantity.amount", "data.quantity.symbol"}
       THEN Text("") ELSE v

\* $agent is whoever sends; a path that leads nowhere stays as it is written.
resolve(v, a) ==
    IF v.kind = "variable" /\ v.name = "$agent" THEN getPath(a, "data.from")
    ELSE IF v.kind = "path" /\ IsString(getPath(a, v.path)) THEN getPath(a, v.path)
    ELSE v

Scaled(v, places) == Size(v) * 10 ^ (places - IF v.kind = "int" THEN 0 ELSE v.places)
AsText(v) == IF v.kind = "int" THEN Amount(v.n, 0) ELSE v

\* parseFloat: amounts of any precision compare, and nothing else does.
compareSample(actual, op, expected) ==
    LET numbers == {actual.kind, expected.kind} \subseteq {"amount", "int"}
        places == Max({v.places : v \in {u \in {actual, expected} : u.kind = "amount"}} \cup {0})
        x == Scaled(actual, places)
        y == Scaled(expected, places)
    IN /\ actual # Absent
       /\ \/ op = "eq" /\ AsText(actual) = expected
          \/ op = "neq" /\ AsText(actual) # expected
          \/ numbers /\ \/ op = "lte" /\ x <= y
                        \/ op = "gte" /\ x >= y
                        \/ op = "lt" /\ x < y
                        \/ op = "gt" /\ x > y

-----------------------------------------------------------------------------
(* Lookups. *)

\* (mutant) the key is asked for as it is written
queryForAsWritten(f, a) == [table |-> f.table, key |-> f.key]

queryFor(f, a) == [table |-> f.table, key |-> resolve(f.key, a)]

Blank(query) == query.table = "" \/ query.key = Text("")

collectLookupQueries(g, actions) ==
    LET lookups == {id \in DOMAIN g.nodes : TypeOf(g, id) = "lookup" /\ FieldsOf(g, id).mode # "http"}
        queries == {queryFor(FieldsOf(g, ia[1]), actions[ia[2]]) : ia \in lookups \X DOMAIN actions}
    IN {query \in queries : ~Blank(query)}

RowFound(evidence, query) ==
    query \in DOMAIN evidence /\ evidence[query].ok /\ evidence[query].found

-----------------------------------------------------------------------------
(* evalNode, for one action. *)

Depth(g) == Cardinality(DOMAIN g.nodes)

\* Whether the transaction gets through to the output of a node.
Routed(g, a, id) ==
    LET through[k \in 0 .. Depth(g)] == [x \in DOMAIN g.nodes |->
            /\ k > 0
            /\ \/ TypeOf(g, x) = "transaction"
               \/ /\ TypeOf(g, x) = "routeif"
                  /\ Text(FieldsOf(g, x).contract) = getPath(a, "contract")
                  /\ FieldsOf(g, x).action = "" \/ Text(FieldsOf(g, x).action) = getPath(a, "action")
                  /\ \E s \in inboundNodes(g, x, "tx") : through[k - 1][s]]
    IN through[Depth(g)][id]

\* The lookup whose row a Get Field reads a field of, if it found one.
RowsRead(g, a, evidence, field) ==
    {queryFor(FieldsOf(g, l), a) :
        l \in {x \in Sources(g, field, "in", "lookup") :
                 /\ \E s \in inboundNodes(g, x, "tx") : Routed(g, a, s)
                 /\ RowFound(evidence, queryFor(FieldsOf(g, x), a))}}

\* What a test is about: the value of a Get Field on the transaction or of a
\* Constant; a row as a whole is no value.
ValueInto(g, a, id) ==
    LET sources == inboundNodes(g, id, "a")
        s == CHOOSE x \in sources : TRUE
        routed == \E t \in inboundNodes(g, s, "in") : Routed(g, a, t)
    IN IF sources = {} THEN Absent
       ELSE IF TypeOf(g, s) = "constant" THEN resolve(FieldsOf(g, s).value, a)
       ELSE IF TypeOf(g, s) = "getfield" /\ routed THEN getPath(a, FieldsOf(g, s).path)
       ELSE Absent

InSample(g, a, id) ==
    LET v == ValueInto(g, a, id)
    IN v # Absent /\ \E i \in DOMAIN FieldsOf(g, id).list :
                        resolve(FieldsOf(g, id).list[i], a) = AsText(v)

ContainsSample(g, a, evidence, id) ==
    \E field \in Sources(g, id, "a", "getfield") :
        \E query \in RowsRead(g, a, evidence, field) :
            /\ FieldsOf(g, field).path = "allowed" /\ evidence[query].array
            /\ resolve(FieldsOf(g, id).value, a) \in evidence[query].elements

\* What a test or a Bool node puts out, given what the nodes before it do.
evalNode(g, a, evidence, id, value) ==
    LET f == FieldsOf(g, id)
        ins == inboundNodes(g, id, "in")
    IN CASE TypeOf(g, id) = "compare"  ->
              compareSample(ValueInto(g, a, id), f.op, resolve(f.value, a))
         [] TypeOf(g, id) = "inlist"   -> (f.mode = "notin") # InSample(g, a, id)
         [] TypeOf(g, id) = "contains" -> ContainsSample(g, a, evidence, id)
         [] TypeOf(g, id) = "booland"  -> ins # {} /\ \A s \in ins : value[s]
         [] TypeOf(g, id) = "boolor"   -> \E s \in ins : value[s]
         [] TypeOf(g, id) = "boolnot"  -> \A s \in ins : ~value[s]
         [] OTHER                      -> FALSE

Holds(g, a, evidence, id) ==
    LET holds[k \in 0 .. Depth(g)] == [x \in DOMAIN g.nodes |->
            k > 0 /\ evalNode(g, a, evidence, x, holds[k - 1])]
    IN holds[Depth(g)][id]

Fires(g, a, evidence, d) ==
    /\ \E s \in inboundNodes(g, d, "tx") : Routed(g, a, s)
    /\ \A c \in inboundNodes(g, d, "cond") : Holds(g, a, evidence, c)

-----------------------------------------------------------------------------
(* evaluateGraph. *)

FiringOf(g, a, evidence, effect) ==
    {d \in Decisions(g) : /\ reaches(g, d, The(g, "policy"))
                          /\ FieldsOf(g, d).effect = effect
                          /\ Fires(g, a, evidence, d)}

\* What governs an action, a set of at most one decision: the first deny,
\* else the first allow in the order the nodes were made.
sampleGoverning(g, a, evidence) ==
    LET denies == FiringOf(g, a, evidence, "deny")
        allows == FiringOf(g, a, evidence, "allow")
    IN IF denies # {} THEN {Min(denies)} ELSE IF allows # {} THEN {Min(allows)} ELSE {}

AmountOf(a) ==
    LET v == getPath(a, "data.quantity.amount") IN IF v.kind = "amount" THEN v ELSE Amount(0, 0)

\* A cap is read for its number alone, whatever its symbol.
Exceeds(actions, S, cap) ==
    LET places == Max({AmountOf(actions[i]).places : i \in S} \cup {cap.precision})
    IN SumOf([i \in DOMAIN actions |-> IF i \in S THEN Scaled(AmountOf(actions[i]), places) ELSE 0])
         > cap.units * 10 ^ (places - cap.precision)

SumAgainst(actions, S, cap) ==
    [amounts |-> [i \in S |-> AmountOf(actions[i])], cap |-> Amount(cap.units, cap.precision)]

Over(actions, S, cap) ==
    IF SumAgainst(actions, S, cap) \in Rounded THEN ~Exceeds(actions, S, cap)
    ELSE Exceeds(actions, S, cap)

IsCap(cap) == cap # None /\ cap # Malformed

\* What a rule's limits say of the actions it governs, all together.
ruleAggregateCheck(g, actions, governs) ==
    \E d \in Decisions(g) :
        LET f == FieldsOf(g, d)
            S == {i \in DOMAIN actions : d \in governs[i]}
            To(i) == {j \in S : getPath(actions[j], "data.to") = getPath(actions[i], "data.to")}
        IN /\ f.useLimit /\ f.effect = "allow" /\ S # {}
           /\ \/ IsCap(f.maxPerTx) /\ Over(actions, S, f.maxPerTx)
              \/ /\ f.rlCount \notin {None, Malformed} /\ f.rlPerRecipient
                 /\ \E i \in S : Cardinality(To(i)) > f.rlCount
              \/ f.cooldownH # None /\ f.cooldownH > 0 /\ \E i \in S : Cardinality(To(i)) > 1

\* A Global cap counts the transfers of every rule.
globalCapCheck(g, actions) ==
    \E id \in DOMAIN g.nodes :
        /\ TypeOf(g, id) = "aggregate" /\ reaches(g, id, The(g, "policy"))
        /\ IsCap(FieldsOf(g, id).maxTotal)
        /\ Over(actions, {i \in DOMAIN actions : getPath(actions[i], "action") = Text("transfer")},
                FieldsOf(g, id).maxTotal)

\* What decides, the first of the stages that refuses.
decidedBy(g, actions, governs) ==
    LET policy == FieldsOf(g, The(g, "policy"))
        verdicts(i) == IF governs[i] = {} THEN {policy.default}
                       ELSE {FieldsOf(g, d).effect : d \in governs[i]}
    IN IF Len(actions) > policy.maxActions THEN "maxActions"
       ELSE IF \E i \in DOMAIN actions : "deny" \in verdicts(i) THEN "action"
       ELSE IF ruleAggregateCheck(g, actions, governs) THEN "ruleAgg"
       ELSE IF globalCapCheck(g, actions) THEN "globalCap"
       ELSE "allow"

evaluateGraph(g, actions, evidence) ==
    decidedBy(g, actions, [i \in DOMAIN actions |-> sampleGoverning(g, actions[i], evidence)])

-----------------------------------------------------------------------------
(* A document as the policy engine reads it. *)

PredicateOf(c) ==
    IF c.op \in {"lte", "gte"} THEN [path |-> c.path, op |-> c.op, bound |-> c.arg[1]]
    ELSE [path |-> c.path, op |-> IF c.op = "eq" THEN "in" ELSE c.op, values |-> c.arg]

\* An empty object of limits is not written.
EngineLimits(l) == IF l = NoLimits THEN None ELSE l

Before(c, d) ==
    \/ Place(c.path) < Place(d.path)
    \/ /\ c.path = d.path
       /\ c.op = "gte"
       /\ d.op = "lte"

EngineRule(rule) ==
    LET conditions == Sorted(rule.match, [c \in rule.match |-> {d \in rule.match : Before(d, c)}])
    IN [id |-> rule.id, effect |-> rule.effect,
        match |-> [i \in DOMAIN conditions |-> PredicateOf(conditions[i])],
        limits |-> EngineLimits(rule.limits), providers |-> rule.providers]

Published(doc) ==
    [default |-> doc.default, chainId |-> ChainId, maxActions |-> doc.maxActions,
     rules |-> [i \in DOMAIN doc.rules |-> EngineRule(doc.rules[i])]]
=============================================================================
