-------------------------- MODULE PolicyAuthoring --------------------------
(***************************************************************************)
(* What a policy means while it is edited: the graph of a row that was     *)
(* opened and any edits of it, against the document it compiles to, the    *)
(* graph that document opens as, what the editor says of test transactions *)
(* and what the daemon will say of them.                                   *)
(***************************************************************************)
EXTENDS PolicySimulator

CONSTANTS
    Documents,          \* the policies that rows hold
    MaxEdits,           \* bound: edits of a graph
    Samples, Evidences, \* test transactions, and what their lookups may find
    MaxUnits            \* bound: a number of so many digits is a double of its own

\* A document is a JSON text that was parsed: its rules are listed, and the
\* requirements of each.
ASSUME DocumentsAssumption ==
    \A doc \in Documents :
        /\ doc.rules \in Seq(ToSet(doc.rules))
        /\ \A rule \in ToSet(doc.rules) : rule.providers \in Seq(ToSet(rule.providers))

\* A test has its actions listed, and numbers are written in digits.
ASSUME SamplesAssumption ==
    /\ MaxUnits \in Nat
    /\ \A tx \in Samples :
          /\ tx.actions \in Seq(ToSet(tx.actions))
          /\ \A a \in ToSet(tx.actions) : \A path \in DOMAIN a.field :
                LET v == a.field[path]
                IN /\ v.kind = "amount" => v.units \in 0 .. MaxUnits /\ v.places \in Nat
                   /\ v.kind = "int" => v.n \in 0 .. MaxUnits

VARIABLE edits

AuthoringInit == graph \in {decompilePolicy(doc) : doc \in Documents} /\ edits = 0

AuthoringNext == edits < MaxEdits /\ Edit /\ edits' = edits + 1

AuthoringSpec == AuthoringInit /\ [][AuthoringNext]_<<graph, edits>>

-----------------------------------------------------------------------------
Distinct(f) == \A i, j \in DOMAIN f : f[i] = f[j] => i = j

\* A rule the editor can show: conditions of one kind on each path it knows,
\* a route by name, at most one requirement.
Shows(rule) ==
    /\ \A path \in {"contract", "action"} : \E c \in Conditions(rule, path) : c.op = "eq"
    /\ \A c, d \in rule.match : c.path = d.path => c = d
    /\ {c.path : c \in rule.match} \subseteq FieldPaths
    /\ Len(rule.providers) <= 1
    /\ rule.limits # NoLimits => rule.limits.maxPerTransaction # None
    /\ rule.limits.cooldownPerRecipientMs # 0
    /\ rule.id = RuleId(rule.effect, Named(rule, "contract", ""), Named(rule, "action", ""))

\* Reopening what was pushed: a policy the editor can show comes back as the
\* graph that compiles to it again, rule for rule and limit for limit, and
\* nothing is said to be missing (compile.ts and decompile.ts as inverses).
RoundTrip ==
    LET doc == compilePolicy(graph)
    IN (\A rule \in ToSet(doc.rules) : Shows(rule)) =>
          decompilesQuietly(doc) /\ compilePolicy(decompilePolicy(doc)) = doc

\* What the author has to see to: the default denies, a cap is an asset, a
\* cooldown lasts a day at most, a count is at most a million, and what is
\* compared, listed or looked up is neither blank nor too long.
Typed(node) ==
    LET f == node.fields
        Fits(v, most) == Chars(v) \in 1 .. most
    IN CASE node.type = "policy"   -> f.default = "deny" /\ f.maxActions \in 1 .. 64
         [] node.type = "routeif"  ->
              \A name \in {f.contract, f.action} : name = "" \/ Fits(Text(name), 256)
         [] node.type = "compare"  -> Fits(f.value, IF f.op = "eq" THEN 256 ELSE 64)
         [] node.type = "inlist"   ->
              IsList(f.list) /\ Len(f.list) \in 1 .. 256 /\ \A v \in ToSet(f.list) : Fits(v, 256)
         [] node.type = "contains" -> Fits(f.value, 256)
         [] node.type = "lookup"   -> Fits(Text(f.table), 64) /\ Fits(f.key, 64)
         [] node.type = "decision" ->
              /\ f.maxPerTx # Malformed
              /\ f.rlCount \in {None, Malformed} \/ f.rlCount \in 0 .. MaxCount
              /\ f.cooldownH # None => f.cooldownH \in Int /\ f.cooldownH <= 10 * MaxCooldown
         [] OTHER                  -> TRUE

\* What the editor writes the daemon accepts, whatever was edited, as long as
\* what was typed has a place in a policy and the rules are few enough and
\* differ in their ids (compile.ts against core/policy/schema.ts).
DaemonAccepts ==
    LET doc == compilePolicy(graph)
    IN (/\ \A id \in DOMAIN graph.nodes : Typed(graph.nodes[id])
        /\ Distinct([i \in DOMAIN doc.rules |-> doc.rules[i].id]) /\ Len(doc.rules) <= 256
        /\ \A rule \in ToSet(doc.rules) : Cardinality(rule.match) <= 32 /\ Len(rule.providers) <= 8)
       => validatePolicy(Published(doc))

\* A graph of which nothing is lost: every rule is routed once and by its
\* contract, every node that counts is wired up and none feeds itself, each
\* field of the transaction is tested once, and the rules are drawn in the
\* order they were made.
Plain(g) ==
    LET counted == ToSet(upstream(g, The(g, "policy")))
        Wired(id) == \A key \in InPorts(TypeOf(g, id)) \ {"cond"} : inboundNodes(g, id, key) # {}
        TestsOf(d) == {id \in ToSet(upstream(g, d)) : Tests(g, id)}
        PathOf(id) == {FieldsOf(g, s).path : s \in Sources(g, id, "a", "getfield")}
        ReadsTransaction(id) == \E s \in Sources(g, id, "a", "getfield") :
            \E t \in inboundNodes(g, s, "in") : OutType(TypeOf(g, t)) = "tx"
    IN /\ compilesQuietly(g)
       /\ \A id \in counted : Wired(id) /\ TypeOf(g, id) # "aggregate"
       /\ \A w \in DOMAIN g.wires : g.wires[w].to \in counted =>
             ~reaches(g, g.wires[w].to, g.wires[w].from)
       /\ \A d, e \in Decisions(g) \cap counted : g.nodes[d].y < g.nodes[e].y => d < e
       /\ \A d \in Decisions(g) \cap counted :
             /\ Cardinality({id \in ToSet(upstream(g, d)) : TypeOf(g, id) = "routeif"}) = 1
             /\ \A r \in inboundNodes(g, d, "tx") :
                   TypeOf(g, r) = "routeif" /\ FieldsOf(g, r).contract # ""
             /\ \A id \in TestsOf(d) :
                   /\ ReadsTransaction(id) /\ PathOf(id) \cap {"contract", "action"} = {}
                   /\ \A other \in TestsOf(d) : PathOf(id) = PathOf(other) => id = other

\* What was typed into a rule is of its kind: values are written out or stand
\* for the agent, and the limits, if only empty ones, are there.
Literal(v) ==
    \/ v.kind \in {"text", "embedded"}
    \/ v.kind = "amount" /\ v.units \in 0 .. MaxUnits
    \/ v = Variable("$agent")

Readable(rule) ==
    /\ \A c \in rule.match : c.arg \in Seq(ToSet(c.arg)) /\ \A v \in ToSet(c.arg) : Literal(v)
    /\ \A req \in ToSet(rule.providers) : \A v \in {req.key, req.value} :
          v.kind = "variable" => v.name = "$agent"
    /\ IsCap(rule.limits.maxPerTransaction) => rule.limits.maxPerTransaction.units \in Nat
    /\ rule.limits # None

\* The agent's own transactions, and those with what a policy's rules test.
Own(tx) == \A a \in ToSet(tx.actions) : getPath(a, "data.from") = Text(Agent)

Has(tx, policy) ==
    \A a \in ToSet(tx.actions), rule \in ToSet(policy.rules) :
        \A p \in ToSet(rule.match) : IsString(resolvePath(a, p.path))

\* The editor refuses no test that gets past the policy engine under the
\* policy compiled, unless the quota journal has yet to be asked about several
\* actions.
EnforcedAsTested(tx, evidence) ==
    LET policy == Published(compilePolicy(graph))
    IN (/\ Own(tx) /\ Has(tx, policy)
        /\ Code(tx, policy, evidence) = "ALLOW"
        /\ Len(tx.actions) > 1 => ~\E rule \in ToSet(policy.rules) : wantsWindow(rule))
       => evaluateGraph(graph, tx.actions, evidence) = "allow"

\* A plain graph of a policy that the daemon accepts.
Enforceable(g) ==
    LET doc == compilePolicy(g)
        Hours(d) == FieldsOf(g, d).cooldownH
    IN /\ Plain(g) /\ \A d \in Decisions(g) : Hours(d) # None => Hours(d) \in Int
       /\ validatePolicy(Published(doc)) /\ \A rule \in ToSet(doc.rules) : Readable(rule)

\* A count of 0 is written as 1.
NoneIsZero(g) == \A d \in Decisions(g) : FieldsOf(g, d).rlCount # 0

\* Amounts that add up, as doubles, to more than a cap they keep to.
RoundedUp(g, tx) ==
    \E d \in Decisions(g), S \in SUBSET DOMAIN tx.actions :
        LET cap == FieldsOf(g, d).maxPerTx
        IN IsCap(cap) /\ Over(tx.actions, S, cap) /\ ~Exceeds(tx.actions, S, cap)

\* What was tested is what is enforced: of a plain graph, no test that the
\* editor says is refused gets past the policy engine (eval.ts against
\* core/policy/engine.ts).  Nothing is said of rules with a count of 0, and of
\* amounts that are rounded up past a cap, both of which the editor alone
\* refuses; nor of tests of other senders, or without a field that a rule
\* tests: the editor takes the sender for the agent and what is not there for
\* an empty string.
TestedIsEnforced ==
    Enforceable(graph) /\ NoneIsZero(graph) =>
        \A tx \in Samples, evidence \in Evidences :
            ~RoundedUp(graph, tx) => EnforcedAsTested(tx, evidence)

\* The editor looks up what the daemon will: every row the daemon asks for to
\* decide a test under the policy compiled is among those the editor fetched
\* for it (lookups.ts against collectProviderQueries).  The editor takes the
\* sender for the agent and knows no other variable, and asks for no row
\* without a name; of such tests, lookups and rows nothing is said.
LooksUpWhatIsAsked ==
    LET policy == Published(compilePolicy(graph))
        AgentAlone(id) ==
            (TypeOf(graph, id) = "lookup" /\ FieldsOf(graph, id).key.kind = "variable")
                => FieldsOf(graph, id).key.name = "$agent"
    IN (\A id \in DOMAIN graph.nodes : AgentAlone(id)) =>
          \A tx \in Samples : Own(tx) =>
             {query \in collectProviderQueries(tx, policy) : ~Blank(query)}
                \subseteq collectLookupQueries(graph, tx.actions)
=============================================================================
