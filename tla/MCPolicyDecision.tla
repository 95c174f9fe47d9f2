-------------------------- MODULE MCPolicyDecision --------------------------
(***************************************************************************)
(* Small documents and transactions: transfers of two sizes to a good and  *)
(* a bad recipient, one in another precision, an action that moves nothing *)
(* and one with two authorizations; and rules of every kind, in policies   *)
(* of up to three.                                                         *)
(***************************************************************************)
EXTENDS PolicyDecision, TLC

CONSTANT MaxRules     \* bound: rules of a policy
CONSTANT RuleNames    \* the rules a policy may be made of

Fields(contract, to, amount, symbol, precision, n) ==
    ("contract" :> Text(contract)) @@ ("data.to" :> to) @@ ("data.n" :> n) @@
    ("data.quantity.amount" :> amount) @@ ("data.quantity.symbol" :> symbol) @@
    ("data.quantity.precision" :> precision)
Transfer(to, units, places) ==
    [field |-> Fields("token", Text(to), Amount(units, places), Text("XPR"),
                      Integer(places), Absent),
     authorizations |-> 1]
Vote == [field |-> Fields("eosio", Absent, Absent, Absent, Absent, Integer(2)),
         authorizations |-> 1]
Odd == [field |-> Fields("token", Structure, Structure, Absent, Absent, Structure),
        authorizations |-> 1]

One == Transfer("alice", 1, 1)
Two == Transfer("mallory", 2, 1)
Whole == Transfer("alice", 1, 0)

Of(actions) == [chainId |-> "xpr", actions |-> actions]
MCTransactions ==
    {Of(<<x>>) : x \in {One, Two, Whole, Vote, Odd}} \cup
    {Of(<<x, y>>) : x \in {One, Two}, y \in {One, Two, Whole, Vote}} \cup
    {Of(<<>>), Of(<<[One EXCEPT !.authorizations = 2]>>), Of(<<One, One, One>>),
     [Of(<<One>>) EXCEPT !.chainId = "other"]}

In(path, values) == [path |-> path, op |-> "in", values |-> values]
NotIn(path, values) == [path |-> path, op |-> "notIn", values |-> values]
Lte(path, bound) == [path |-> path, op |-> "lte", bound |-> bound]
Gte(path, bound) == [path |-> path, op |-> "gte", bound |-> bound]

Rule(id, effect, match, limits, providers) ==
    [id |-> id, effect |-> effect, match |-> match, limits |-> limits, providers |-> providers]
XPR(units) == [symbol |-> "XPR", precision |-> 1, units |-> units]
Limits(cap, windows) == windows @@ [NoLimits EXCEPT !.maxPerTransaction = cap]

Listed == [table |-> "lists", key |-> Variable("$agent"), op |-> "contains",
           value |-> [kind |-> "path", path |-> "data.to"]]
Flagged == [table |-> "flags", key |-> [kind |-> "path", path |-> "data.to"],
            op |-> "eq", value |-> Text("bad")]

Token == In("contract", <<Text("token")>>)
TheRules ==
    {Rule("small", "allow", <<Token, Lte("data.quantity.amount", Amount(2, 1))>>,
          Limits(XPR(2), "maxPerDay" :> XPR(9)), <<>>),
     Rule("listed", "allow", <<Token>>, Limits(XPR(1), "cooldownPerRecipientMs" :> 0), <<Listed>>),
     Rule("any", "allow", <<Token>>, None, <<>>),
     Rule("vote", "allow", <<Gte("data.n", Amount(2, 0))>>, None, <<>>),
     Rule("rated", "allow", <<Gte("data.n", Amount(1, 0))>>, Limits(None, "maxCountPerDay" :> 1), <<>>),
     Rule("nomallory", "deny", <<In("data.to", <<Variable("$agent"), Text("mallory")>>)>>, None, <<>>),
     Rule("embedded", "deny", <<NotIn("data.to", <<Text("alice"), Embedded>>)>>, None, <<>>),
     Rule("strange", "deny", <<Lte("data.n", Amount(1, 1))>>, None, <<>>),
     Rule("flagged", "deny", <<Token>>, None, <<Flagged>>),
     Rule("bothread", "allow", <<Lte("data.quantity.amount", Amount(2, 1))>>, None, <<Flagged, Listed>>)}

Document(m, rules) == [default |-> "deny", chainId |-> "xpr", maxActions |-> m, rules |-> rules]

Small == CHOOSE r \in TheRules : r.id = "small"
Flag == CHOOSE r \in TheRules : r.id = "flagged"

\* Documents that are refused: two rules of one name, a deny rule with limits,
\* limits that are empty, malformed or out of their range, no match, a blank
\* bound or table, no actions, a default that allows.
Refusable ==
    {Document(1, <<Small, [Small EXCEPT !.limits = Limits(XPR(1), <<>>)]>>),
     Document(1, <<[Flag EXCEPT !.limits = Limits(XPR(1), <<>>)]>>),
     Document(1, <<[Small EXCEPT !.limits = NoLimits]>>),
     Document(1, <<[Small EXCEPT !.limits.maxPerDay = Malformed]>>),
     Document(1, <<[Small EXCEPT !.limits.cooldownPerRecipientMs = 86400001]>>),
     Document(1, <<[Small EXCEPT !.limits.maxCountPerHour = 0]>>),
     Document(1, <<[Small EXCEPT !.limits.maxPerTransaction = Malformed]>>),
     Document(1, <<[Small EXCEPT !.match = <<>>]>>),
     Document(1, <<[Small EXCEPT !.match[2].bound = Text("")]>>),
     Document(1, <<[Flag EXCEPT !.providers[1].table = ""]>>),
     Document(0, <<Small>>), [Document(1, <<Small>>) EXCEPT !.default = "allow"]}

MCChars(v) == IF v = Text("") THEN 0 ELSE 8

MCPolicies ==
    {Document(m, rules) :
       m \in {1, 2},
       rules \in {s \in BoundedSeq({r \in TheRules : r.id \in RuleNames}, MaxRules) :
                     IsInjective(s)}}
    \cup {[Document(1, <<>>) EXCEPT !.chainId = "other"]} \cup Refusable

Stored(document, hashed, canonical) ==
    [policy |-> document, hashed |-> hashed, canonical |-> canonical]
MCRows ==
    {Stored(p, TRUE, TRUE) : p \in MCPolicies} \cup
    {Stored(Document(1, <<Small>>), FALSE, TRUE), Stored(Document(1, <<Small>>), TRUE, FALSE),
     Stored(None, TRUE, FALSE)}

MCRowsOf == [lists |-> {Found(TRUE, {Text("alice")}), Found(FALSE, {Text("alice")})},
             flags |-> {Found(FALSE, {Text("bad")}), Found(FALSE, {})}]
=============================================================================
