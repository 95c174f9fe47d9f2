--------------------------- MODULE PolicyCompile ---------------------------
(***************************************************************************)
(* From the graph of the editor to the policy document and back            *)
(* (web/src/editor/compile.ts, decompile.ts).                              *)
(*                                                                         *)
(* A document is [default, maxActions, rules], a rule is [id, effect,      *)
(* match, limits, providers].  A match is a set of conditions [path, op,   *)
(* arg], since the canonical form sorts its keys, and arg a sequence; two  *)
(* conditions of one path are one object {lte, gte}.  The list of an In    *)
(* List is its items that are not blank.  maxActions is the number that    *)
(* was typed, or 1 if there was none.  A count is a number, Malformed      *)
(* when it is none, or None when nothing was typed; a cooldown that is no  *)
(* number is None too, and one is counted in tenths of a millisecond.  A   *)
(* lookup's contract and table are one name.  Warnings are the set of      *)
(* their kinds.                                                            *)
(***************************************************************************)
EXTENDS PolicyGraph, PolicySchema

CONSTANTS
    MatchPaths,         \* MATCH_PATH_RE: the paths a match of the daemon may have
    FieldPaths,         \* FIELD_PATHS: those the editor reopens
    MatchOrder,         \* match paths in the order of canonical JSON
    slug(_)             \* the id made of the parts of a rule, which others may share

ASSUME PathsAssumption ==
    /\ MatchOrder \in Seq(ToSet(MatchOrder))
    /\ {"contract", "action"} \subseteq MatchPaths
    /\ MatchPaths \cup FieldPaths \subseteq ToSet(MatchOrder)

TypeOf(g, id) == g.nodes[id].type
FieldsOf(g, id) == g.nodes[id].fields

Place(path) == SelectInSeq(MatchOrder, LAMBDA p : p = path)

\* The members of S in the order in which before[x] are those before x.
Sorted(S, before) ==
    [n \in 1 .. Cardinality(S) |-> CHOOSE x \in S : Cardinality(before[x]) = n - 1]

InOrder(S) == Sorted(S, [x \in S |-> {y \in S : y < x}])

\* The wires into a node, in the order they were drawn.
Into(g, id) == InOrder({w \in DOMAIN g.wires : g.wires[w].to = id})

\* One step of a search that follows the wire drawn last first.
follow(g, s) ==
    LET x == Last(s.stack)
        into == Into(g, x)
    IN IF s.stack = <<>> THEN s
       ELSE IF x \in ToSet(s.out) THEN [s EXCEPT !.stack = Front(@)]
       ELSE [stack |-> Front(s.stack) \o [i \in DOMAIN into |-> g.wires[into[i]].from],
             out   |-> Append(s.out, x)]

\* Everything a node depends on, itself included, in the order it is found.
upstream(g, id) ==
    LET steps == Cardinality(DOMAIN g.wires) + 1
        walk[k \in 0 .. steps] ==
            IF k = 0 THEN [stack |-> <<id>>, out |-> <<>>] ELSE follow(g, walk[k - 1])
    IN walk[steps].out

reaches(g, from, to) == from \in ToSet(upstream(g, to))

\* What feeds an input port that takes one wire: a set of at most one node.
inboundNodes(g, id, key) ==
    {g.wires[w].from : w \in {v \in DOMAIN g.wires : g.wires[v].to = id /\ g.wires[v].key = key}}

Sources(g, id, key, type) == {s \in inboundNodes(g, id, key) : TypeOf(g, s) = type}

-----------------------------------------------------------------------------
(* compileRule *)

\* (mutant) an In List is always a list of what is allowed
OpOfIn(g, id) == IF TypeOf(g, id) = "compare" THEN FieldsOf(g, id).op ELSE "in"

\* The operator of a Compare or an In List.
OpOf(g, id) ==
    IF TypeOf(g, id) = "compare" THEN FieldsOf(g, id).op
    ELSE IF FieldsOf(g, id).mode = "notin" THEN "notIn" ELSE "in"
ArgOf(g, id) == IF TypeOf(g, id) = "compare" THEN <<FieldsOf(g, id).value>> ELSE FieldsOf(g, id).list

Declarative == {"eq", "lte", "gte"}
Tests(g, id) == TypeOf(g, id) \in {"compare", "inlist"}

\* The condition of a node, or nothing; one on a path that is no match path
\* drops the rule.
ConditionsOf(g, id) ==
    {c \in {[path |-> FieldsOf(g, s).path, op |-> OpOf(g, id), arg |-> ArgOf(g, id)] :
              s \in IF Tests(g, id) THEN Sources(g, id, "a", "getfield") ELSE {}} :
       (TypeOf(g, id) = "compare" => c.op \in Declarative) /\ c.path \in MatchPaths}

LookupsOf(g, id) ==
    UNION {{<<s, l>> : l \in Sources(g, s, "in", "lookup")} : s \in Sources(g, id, "a", "getfield")}

\* A row has one field, "allowed", that a requirement may select.
ProvidersOf(g, id) ==
    IF TypeOf(g, id) # "contains" THEN {}
    ELSE {[table |-> FieldsOf(g, sl[2]).table, key |-> FieldsOf(g, sl[2]).key, op |-> "contains",
           value |-> FieldsOf(g, id).value] : sl \in LookupsOf(g, id)}

\* There is at most one.
ProviderIn(g, id) ==
    LET found == ProvidersOf(g, id) IN IF found = {} THEN <<>> ELSE <<CHOOSE p \in found : TRUE>>

\* A path, or an HTTP lookup, that the daemon would refuse.
Drops(g, id) ==
    \/ Tests(g, id) /\ \E s \in Sources(g, id, "a", "getfield") : FieldsOf(g, s).path \notin MatchPaths
    \/ TypeOf(g, id) = "contains" /\ \E sl \in LookupsOf(g, id) :
          FieldsOf(g, sl[2]).mode = "http" \/ FieldsOf(g, sl[1]).path # "allowed"

Warns(g, id) ==
    \/ TypeOf(g, id) \in {"boolor", "boolnot"}
    \/ TypeOf(g, id) = "compare" /\ \/ Sources(g, id, "a", "getfield") = {}
                                    \/ OpOf(g, id) \notin Declarative
    \/ TypeOf(g, id) = "contains" /\ LookupsOf(g, id) = {}
    \/ Drops(g, id)

\* The Route If found first, as conditions on the contract and the action.
RouteOf(g, up) == SelectInSeq(up, LAMBDA id : TypeOf(g, id) = "routeif")
RouteConditions(g, up) ==
    LET r == RouteOf(g, up)
        names == {<<"contract", FieldsOf(g, up[r]).contract>>, <<"action", FieldsOf(g, up[r]).action>>}
    IN IF r = 0 THEN {}
       ELSE {[path |-> n[1], op |-> "eq", arg |-> <<Text(n[2])>>] : n \in {m \in names : m[2] # ""}}

\* A condition replaces one on its path that came before.
MatchOf(g, up) ==
    LET all == <<RouteConditions(g, up)>> \o [i \in DOMAIN up |-> ConditionsOf(g, up[i])]
    IN UNION {{c \in all[i] : \A j \in DOMAIN all : \A d \in all[j] : d.path = c.path => j <= i} :
              i \in DOMAIN all}

\* parseInt of what was typed, or 1: a 0 and a word become 1.
CountOf(f) ==
    IF f.rlCount = None THEN None ELSE IF f.rlCount \in {0, Malformed} THEN 1 ELSE f.rlCount

\* Rounded to milliseconds, of which a short cooldown has none.
CooldownOf(f) ==
    IF f.cooldownH = None THEN None
    ELSE IF f.cooldownH > 0 THEN (f.cooldownH + 5) \div 10 ELSE None

\* (mutant) the limits of a rule that denies are written too
LimitsOfAny(f) ==
    IF ~f.useLimit THEN NoLimits ELSE [NoLimits EXCEPT !.maxPerTransaction = f.maxPerTx]

LimitsOf(f) ==
    IF ~f.useLimit \/ f.effect # "allow" THEN NoLimits
    ELSE [NoLimits EXCEPT
            !.maxPerTransaction = f.maxPerTx,
            !.cooldownPerRecipientMs = CooldownOf(f),
            !.maxCountPerRecipientPerHour = IF f.rlPerRecipient THEN CountOf(f) ELSE None,
            !.maxCountPerDay = IF ~f.rlPerRecipient /\ f.rlPeriod = "day" THEN CountOf(f) ELSE None,
            !.maxCountPerHour = IF ~f.rlPerRecipient /\ f.rlPeriod # "day" THEN CountOf(f) ELSE None]

RuleId(effect, contract, action) == slug(<<effect, contract, action>>)

compileRule(g, d) ==
    LET up == upstream(g, d)
        r  == RouteOf(g, up)
        f  == FieldsOf(g, d)
    IN [id        |-> IF r = 0 THEN RuleId(f.effect, f.effect, "")
                      ELSE RuleId(f.effect, FieldsOf(g, up[r]).contract, FieldsOf(g, up[r]).action),
        effect    |-> f.effect,
        match     |-> MatchOf(g, up),
        limits    |-> LimitsOf(f),
        providers |-> FlattenSeq([i \in DOMAIN up |-> ProviderIn(g, up[i])])]

-----------------------------------------------------------------------------
(* compilePolicy *)

Decisions(g) == {id \in DOMAIN g.nodes : TypeOf(g, id) = "decision"}

Reaching(g) == {d \in Decisions(g) : reaches(g, d, The(g, "policy"))}

\* Decisions from the top to the bottom.
Above(g, e, d) ==
    \/ g.nodes[e].y < g.nodes[d].y
    \/ g.nodes[e].y = g.nodes[d].y /\ e < d

Ranked(g, S) == Sorted(S, [d \in S |-> {e \in S : Above(g, e, d)}])

Dropped(g, d) == \E id \in ToSet(upstream(g, d)) : Drops(g, id)
Kept(g, d) == ~Dropped(g, d) /\ compileRule(g, d).match # {}

compilePolicy(g) ==
    LET policy == FieldsOf(g, The(g, "policy"))
        kept == Ranked(g, {d \in Reaching(g) : Kept(g, d)})
    IN [default |-> policy.default, maxActions |-> policy.maxActions,
        rules |-> [i \in DOMAIN kept |-> compileRule(g, kept[i])]]

compilesQuietly(g) ==
    \A d \in Reaching(g) :
        Kept(g, d) /\ \A id \in ToSet(upstream(g, d)) : ~Warns(g, id)

-----------------------------------------------------------------------------
(* decompilePolicy *)

Conditions(rule, path) == {c \in rule.match : c.path = path}

\* Of the operators on one path the editor shows the first of these.
Shown(conditions) ==
    LET i == SelectInSeq(<<"eq", "lte", "gte", "in", "notIn">>,
                         LAMBDA op : \E c \in conditions : c.op = op)
    IN CHOOSE c \in conditions : c.op = <<"eq", "lte", "gte", "in", "notIn">>[i]

\* A contract or action given by anything but a string becomes the default.
Named(rule, path, default) ==
    LET given == {c \in Conditions(rule, path) : c.op = "eq"}
    IN IF given = {} THEN default ELSE (CHOOSE c \in given : TRUE).arg[1].of

\* A new node, and a wire to it.
Attach(g, node, from, key) == Join(Put(g, node), Wire(from, g.nextId, key))

matchCondition(g, field, c) ==
    LET new == IF c.op \in {"in", "notIn"}
               THEN Node("inlist", 0, [mode |-> IF c.op = "in" THEN "in" ELSE "notin", list |-> c.arg])
               ELSE Node("compare", 0, [op |-> c.op, value |-> c.arg[1]])
    IN Attach(g, new, field, "a")

\* (mutant) a rule with a count for each recipient loses "per recipient"
DecisionFieldsOfDay(rule) ==
    LET l == rule.limits IN
    [Defaults["decision"] EXCEPT
        !.effect = rule.effect, !.useLimit = l # NoLimits,
        !.maxPerTx = IF l.maxPerTransaction = None THEN @ ELSE l.maxPerTransaction,
        !.rlCount = IF l.maxCountPerDay = None THEN l.maxCountPerRecipientPerHour ELSE l.maxCountPerDay,
        !.rlPerRecipient = FALSE]

\* One of the counts is shown; a cap the rule does not have is the default.
decisionFields(rule) ==
    LET l == rule.limits
        counts == <<l.maxCountPerRecipientPerHour, l.maxCountPerDay, l.maxCountPerHour>>
        shown == SelectInSeq(counts, LAMBDA n : n # None)
    IN [Defaults["decision"] EXCEPT
          !.effect = rule.effect,
          !.useLimit = [l EXCEPT !.maxPerHour = None, !.maxPerDay = None] # NoLimits,
          !.maxPerTx = IF l.maxPerTransaction = None THEN @ ELSE l.maxPerTransaction,
          !.cooldownH = IF l.cooldownPerRecipientMs = None THEN @ ELSE 10 * l.cooldownPerRecipientMs,
          !.rlCount = IF shown = 0 THEN @ ELSE counts[shown],
          !.rlPerRecipient = IF shown = 0 THEN @ ELSE shown = 1,
          !.rlPeriod = IF shown = 0 THEN @ ELSE IF shown = 2 THEN "day" ELSE "hour"]

\* Here s is the graph so far, and bools those of its nodes whose outputs the
\* decision of the rule needs; r is the route.
AddCondition(s, r, path, c) ==
    LET field == s.g.nextId
    IN [g |-> matchCondition(Attach(s.g, Node("getfield", 0, [path |-> path]), r, "in"), field, c),
        bools |-> Append(s.bools, field + 1)]

AddProvider(s, p) ==
    LET l == s.g.nextId
        lookup == Node("lookup", 0, [mode |-> "table", table |-> p.table, key |-> p.key])
        field == Node("getfield", 0, [path |-> "allowed"])
    IN IF p.op # "contains" THEN s
       ELSE [g |-> Attach(Attach(Attach(s.g, lookup, 1, "tx"), field, l, "in"),
                          Node("contains", 0, [value |-> p.value]), l + 1, "a"),
             bools |-> Append(s.bools, l + 2)]

TestedPaths(rule) ==
    LET S == {c.path : c \in rule.match} \cap (FieldPaths \ {"contract", "action"})
    IN Sorted(S, [path \in S |-> {p \in S : Place(p) < Place(path)}])

\* The conditions first, then the requirements.
AddTest(s, r, rule, n) ==
    LET paths == TestedPaths(rule)
    IN IF n <= Len(paths) THEN AddCondition(s, r, paths[n], Shown(Conditions(rule, paths[n])))
       ELSE AddProvider(s, rule.providers[n - Len(paths)])

Tested(g, r, rule) ==
    LET tests == Len(TestedPaths(rule)) + Len(rule.providers)
        tested[n \in 0 .. tests] ==
            IF n = 0 THEN [g |-> g, bools |-> <<>>] ELSE AddTest(tested[n - 1], r, rule, n)
    IN tested[tests]

\* Wires from all of bools to the node put last.
WireAll(g, bools) ==
    LET wired[n \in 0 .. Len(bools)] ==
            IF n = 0 THEN g ELSE Join(wired[n - 1], Wire(bools[n], g.nextId - 1, "in"))
    IN wired[Len(bools)]

\* Nodes 1 and 2 are the transaction and the policy.
decompileRule(g, rule, i) ==
    LET r == g.nextId
        route == Node("routeif", 0, [contract |-> Named(rule, "contract", "eosio.token"),
                                     action |-> Named(rule, "action", "transfer")])
        tested == Tested(Attach(g, route, 1, "tx"), r, rule)
        bools == tested.bools
        d == tested.g.nextId
        decided == Put(tested.g, Node("decision", i, decisionFields(rule)))
        combined ==
            IF bools = <<>> THEN decided
            ELSE IF Len(bools) = 1 THEN Join(decided, Wire(bools[1], d, "cond"))
            ELSE Join(WireAll(Put(decided, Node("booland", 0, Defaults["booland"])), bools),
                      Wire(d + 1, d, "cond"))
    IN IF rule.match = {} THEN g
       ELSE Join(Join(combined, Wire(r, d, "tx")), Wire(d, 2, "in"))

decompilePolicy(doc) ==
    LET frame == Put(Put(Empty, Node("transaction", 0, Defaults["transaction"])),
                     Node("policy", 0, [default |-> doc.default, maxActions |-> doc.maxActions]))
        opened[i \in 0 .. Len(doc.rules)] ==
            IF i = 0 THEN frame ELSE decompileRule(opened[i - 1], doc.rules[i], i)
    IN opened[Len(doc.rules)]

\* No rule without a match, no path, operator of a requirement or limit that
\* the editor does not have.
decompilesQuietly(doc) ==
    \A rule \in ToSet(doc.rules) :
        /\ rule.match # {}
        /\ {c.path : c \in rule.match} \subseteq FieldPaths
        /\ \A p \in ToSet(rule.providers) : p.op = "contains"
        /\ rule.limits.maxPerHour = None /\ rule.limits.maxPerDay = None
=============================================================================
