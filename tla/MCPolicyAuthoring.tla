-------------------------- MODULE MCPolicyAuthoring ------------------------
(***************************************************************************)
(* Documents of the kinds the editor meets, edits of every sort, and test  *)
(* transfers of two amounts, symbols and recipients.                       *)
(***************************************************************************)
EXTENDS PolicyAuthoring, TLC

CONSTANTS
    DocumentNames,      \* the documents that rows hold
    NewNodes            \* the types of nodes that are added

XPR(units) == [symbol |-> "XPR", precision |-> 1, units |-> units]

MCDefaults ==
    [transaction |-> <<>>,
     routeif  |-> [contract |-> "eosio.token", action |-> "transfer"],
     getfield |-> [path |-> "data.quantity.amount"],
     constant |-> [value |-> Amount(10, 1)],
     compare  |-> [op |-> "lte", value |-> Amount(10, 1)],
     inlist   |-> [mode |-> "in", list |-> <<Text("alice"), Text("bob")>>],
     contains |-> [value |-> [kind |-> "path", path |-> "data.to"]],
     booland  |-> <<>>, boolor |-> <<>>, boolnot |-> <<>>,
     lookup   |-> [mode |-> "table", table |-> "lists", key |-> Variable("$agent")],
     decision |-> [effect |-> "allow", useLimit |-> FALSE, maxPerTx |-> XPR(10), rlCount |-> None,
                   rlPeriod |-> "day", rlPerRecipient |-> TRUE, cooldownH |-> None],
     aggregate |-> [maxTotal |-> XPR(100)],
     policy   |-> [default |-> "deny", maxActions |-> 1]]

MCPalette == NewNodes
MCHeights == {0, 3}
MCSettings ==
    <<[type |-> "decision", key |-> "effect", value |-> "deny"],
      [type |-> "decision", key |-> "useLimit", value |-> FALSE],
      [type |-> "decision", key |-> "rlPeriod", value |-> "hour"],
      [type |-> "decision", key |-> "rlCount", value |-> 0],
      [type |-> "decision", key |-> "cooldownH", value |-> 1728000000],
      [type |-> "policy", key |-> "maxActions", value |-> 2],
      [type |-> "policy", key |-> "default", value |-> "allow"],
      [type |-> "compare", key |-> "value", value |-> Text("")],
      [type |-> "inlist", key |-> "mode", value |-> "in"],
      [type |-> "compare", key |-> "op", value |-> "gte"]>>
MCRoutes == {[contract |-> "eosio-token", action |-> "transfer", paths |-> <<"data.to">>]}

MCFieldPaths ==
    {"contract", "action", "data.from", "data.to", "data.quantity.amount", "data.quantity.symbol"}
MCMatchOrder ==
    <<"action", "contract", "data.from", "data.quantity.amount", "data.quantity.symbol", "data.to">>
MCMatchPaths == ToSet(MCMatchOrder)

MCChars(v) == IF v = Text("") THEN 0 ELSE 8

\* eosio.token and eosio-token make one id.
MCSlug(parts) == [i \in DOMAIN parts |-> IF parts[i] = "eosio-token" THEN "eosio.token" ELSE parts[i]]

\* As doubles 0.1 + 0.2 > 0.3.
MCRounded == {[amounts |-> <<Amount(1, 1), Amount(2, 1)>>, cap |-> Amount(3, 1)]}

Eq(path, v) == [path |-> path, op |-> "eq", arg |-> <<v>>]
Route(contract) == {Eq("contract", Text(contract)), Eq("action", Text("transfer"))}
Rule(effect, contract, conditions, limits, providers) ==
    [id |-> RuleId(effect, contract, "transfer"), effect |-> effect,
     match |-> Route(contract) \cup conditions, limits |-> limits, providers |-> providers]
Doc(maxActions, rules) == [default |-> "deny", maxActions |-> maxActions, rules |-> rules]

AtMost(units) == [path |-> "data.quantity.amount", op |-> "lte", arg |-> <<Amount(units, 1)>>]
AtLeast(units) == [path |-> "data.quantity.amount", op |-> "gte", arg |-> <<Amount(units, 1)>>]
NotTo(name) == [path |-> "data.to", op |-> "notIn", arg |-> <<Text(name)>>]
Listed == [table |-> "lists", key |-> Variable("$agent"), op |-> "contains",
           value |-> [kind |-> "path", path |-> "data.to"]]
Capped == [NoLimits EXCEPT !.maxPerTransaction = XPR(10)]

TheDocuments ==
    [listed |-> Doc(1, <<Rule("allow", "eosio.token", {AtMost(10)},
                        [Capped EXCEPT !.maxCountPerRecipientPerHour = 1], <<Listed>>)>>),
     barred |-> Doc(2, <<Rule("allow", "eosio.token", {NotTo("mallory")}, NoLimits, <<>>),
                         Rule("deny", "eosio.token", {Eq("data.quantity.symbol", Text("XUSDC"))},
                              NoLimits, <<>>)>>),
     tiny   |-> Doc(1, <<Rule("allow", "eosio.token", {}, NoLimits, <<>>)>>),
     between |-> Doc(1, <<Rule("allow", "eosio.token", {AtMost(10), AtLeast(5)}, NoLimits, <<>>)>>),
     thirds  |-> Doc(2, <<Rule("allow", "eosio.token", {},
                               [NoLimits EXCEPT !.maxPerTransaction = XPR(3)], <<>>)>>),
     closed  |-> Doc(1, <<[Rule("deny", "eosio.token", {}, NoLimits, <<>>)
                           EXCEPT !.match = {Eq("contract", Text("eosio.token"))}]>>)]
MCDocuments == {TheDocuments[name] : name \in DocumentNames}

Transfer(to, units, symbol) ==
    [field |-> ("contract" :> Text("eosio.token")) @@ ("action" :> Text("transfer")) @@
               ("data.from" :> Text("agent")) @@ ("data.to" :> Text(to)) @@
               ("data.quantity.amount" :> Amount(units, 1)) @@
               ("data.quantity.symbol" :> Text(symbol)) @@ ("data.quantity.precision" :> Integer(1)),
     authorizations |-> 1]
Of(actions) == [chainId |-> "xpr", actions |-> actions]
MCSamples ==
    {Of(<<Transfer(to, units, symbol)>>) :
        to \in {"alice", "mallory"}, units \in {5, 20}, symbol \in {"XPR", "XUSDC"}}
    \cup {Of(<<Transfer("alice", x, "XPR"), Transfer("bob", y, "XPR")>>) :
             <<x, y>> \in {<<7, 7>>, <<1, 2>>, <<1, 1>>}}

Row(found, array, elements) == [ok |-> TRUE, found |-> found, array |-> array, elements |-> elements]
MCEvidences ==
    {[table |-> "lists", key |-> Text("agent")] :> row :
        row \in {Row(TRUE, TRUE, {Text("alice"), Text("bob")}), Row(FALSE, FALSE, {}),
                 [Row(FALSE, FALSE, {}) EXCEPT !.ok = FALSE]}}
=============================================================================
