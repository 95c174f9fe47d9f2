---------------------------- MODULE PolicyGraph ----------------------------
(***************************************************************************)
(* The graph of the policy editor and the edits its reducer knows          *)
(* (web/src/editor: types.ts, nodeSpecs.ts, store.tsx, scaffold.ts, the    *)
(* wiring gesture of GraphCanvas.tsx).                                     *)
(*                                                                         *)
(* A node is found by its id and a wire by the number of its drawing, so   *)
(* that both keep the order of the arrays they are in.  A type of node has *)
(* at most one output port; a wire therefore starts at a node and ends at  *)
(* an input port of another.  Of the geometry only the height of a         *)
(* decision matters, which orders the rules; selection and view are left   *)
(* out.                                                                    *)
(***************************************************************************)
EXTENDS Integers, Sequences, FiniteSets, SequencesExt

NodeTypes ==
    {"transaction", "routeif", "getfield", "constant", "compare", "inlist", "contains",
     "booland", "boolor", "boolnot", "lookup", "decision", "aggregate", "policy"}

CONSTANTS
    Defaults,           \* [node type -> the fields of a new node]
    Palette,            \* node types the author adds
    Heights,            \* where a node may be dropped or moved
    Settings,           \* sequence of [type, key, value]: what may be typed into a field
    Routes              \* of the transactions converted: [contract, action, paths]

ASSUME EditsAssumption ==
    /\ Palette \subseteq NodeTypes
    /\ Heights \subseteq Int
    /\ \A route \in Routes : Len(route.paths) \in Nat

VARIABLE graph          \* [nodes, wires, nextId, nextWire]

-----------------------------------------------------------------------------
(* Ports. *)

OutType(type) ==
    CASE type \in {"transaction", "routeif"}         -> "tx"
      [] type \in {"getfield", "constant", "lookup"} -> "val"
      [] type \in {"decision", "aggregate"}          -> "verdict"
      [] type = "policy"                             -> "none"
      [] OTHER                                       -> "bool"

InPorts(type) ==
    CASE type \in {"transaction", "constant"}         -> {}
      [] type \in {"routeif", "lookup"}               -> {"tx"}
      [] type \in {"compare", "inlist", "contains"}   -> {"a"}
      [] type = "decision"                            -> {"tx", "cond"}
      [] OTHER                                        -> {"in"}

InType(type, key) ==
    CASE key = "tx"                                                  -> "tx"
      [] key = "cond"                                                -> "bool"
      [] type \in {"getfield", "compare", "inlist", "contains"}      -> "val"
      [] type \in {"booland", "boolor", "boolnot"}                   -> "bool"
      [] OTHER                                                       -> "verdict"

isMultiInput(type, key) == type \in {"booland", "boolor", "policy"} /\ key = "in"

\* Get Field takes a routed transaction as well as a value.
portsCompatible(from, type, key) ==
    \/ OutType(from) = InType(type, key)
    \/ type = "getfield" /\ OutType(from) = "tx"

single(type) == type \in {"transaction", "policy"}

-----------------------------------------------------------------------------
With(f, x, v) == [y \in DOMAIN f \cup {x} |-> IF y = x THEN v ELSE f[y]]
Without(f, S) == [y \in DOMAIN f \ S |-> f[y]]

Node(type, y, fields) == [type |-> type, y |-> y, fields |-> fields]
Wire(from, to, key) == [from |-> from, to |-> to, key |-> key]

Empty == [nodes |-> <<>>, wires |-> <<>>, nextId |-> 1, nextWire |-> 1]

Put(g, node) == [g EXCEPT !.nodes = With(g.nodes, g.nextId, node), !.nextId = g.nextId + 1]
Join(g, wire) == [g EXCEPT !.wires = With(g.wires, g.nextWire, wire), !.nextWire = g.nextWire + 1]

addNode(g, type, y) ==
    IF single(type) /\ \E id \in DOMAIN g.nodes : g.nodes[id].type = type
    THEN g ELSE Put(g, Node(type, y, Defaults[type]))

moveNode(g, id, y) == [g EXCEPT !.nodes = With(g.nodes, id, [g.nodes[id] EXCEPT !.y = y])]

\* (mutant) the wires of a node that is deleted stay
deleteNodeOnly(g, id) ==
    IF single(g.nodes[id].type) THEN g ELSE [g EXCEPT !.nodes = Without(g.nodes, {id})]

deleteNode(g, id) ==
    IF single(g.nodes[id].type) THEN g
    ELSE [g EXCEPT !.nodes = Without(g.nodes, {id}),
                   !.wires = Without(g.wires,
                       {w \in DOMAIN g.wires : id \in {g.wires[w].from, g.wires[w].to}})]

setField(g, id, key, value) ==
    [g EXCEPT !.nodes = With(g.nodes, id, [g.nodes[id] EXCEPT !.fields[key] = value])]

Connects(g, wire) ==
    /\ wire.from \in DOMAIN g.nodes /\ wire.to \in DOMAIN g.nodes
    /\ wire.from # wire.to
    /\ wire.key \in InPorts(g.nodes[wire.to].type)
    /\ portsCompatible(g.nodes[wire.from].type, g.nodes[wire.to].type, wire.key)

\* A wire to a port that takes one replaces the wire there.
addWire(g, wire) ==
    LET replaced == IF isMultiInput(g.nodes[wire.to].type, wire.key) THEN {}
                    ELSE {w \in DOMAIN g.wires : /\ g.wires[w].to = wire.to
                                                 /\ g.wires[w].key = wire.key}
        kept == [g EXCEPT !.wires = Without(g.wires, replaced)]
    IN IF ~Connects(g, wire) THEN g
       ELSE IF \E w \in DOMAIN kept.wires : kept.wires[w] = wire THEN kept
       ELSE Join(kept, wire)

deleteWire(g, w) == [g EXCEPT !.wires = Without(g.wires, {w})]

\* "Convert to route": a branch for a contract and action that no Route If
\* names yet, with a stub for each of the n data fields.
HasRoute(g, contract, action) ==
    \E id \in DOMAIN g.nodes :
        /\ g.nodes[id].type = "routeif"
        /\ g.nodes[id].fields.contract = contract /\ g.nodes[id].fields.action = action

The(g, type) == CHOOSE id \in DOMAIN g.nodes : g.nodes[id].type = type

addScaffold(g, route, n, y) ==
    LET r == g.nextId
        d == r + n + 1
        branch == [id \in r .. d |->
            CASE id = r -> Node("routeif", y, [contract |-> route.contract, action |-> route.action])
              [] id = d -> Node("decision", y, Defaults["decision"])
              [] OTHER  -> Node("getfield", y, [path |-> route.paths[id - r]])]
        wiring == [w \in g.nextWire .. g.nextWire + n + 2 |->
            CASE w = g.nextWire         -> Wire(The(g, "transaction"), r, "tx")
              [] w = g.nextWire + n + 1 -> Wire(r, d, "tx")
              [] w = g.nextWire + n + 2 -> Wire(d, The(g, "policy"), "in")
              [] OTHER                  -> Wire(r, r + (w - g.nextWire), "in")]
    IN IF HasRoute(g, route.contract, route.action) THEN g
       ELSE [nodes |-> [id \in DOMAIN g.nodes \cup DOMAIN branch |->
                          IF id \in DOMAIN g.nodes THEN g.nodes[id] ELSE branch[id]],
             wires |-> [w \in DOMAIN g.wires \cup DOMAIN wiring |->
                          IF w \in DOMAIN g.wires THEN g.wires[w] ELSE wiring[w]],
             nextId |-> d + 1, nextWire |-> g.nextWire + n + 3]

-----------------------------------------------------------------------------
(* The edits. *)

AddNode == \E type \in Palette, y \in Heights : graph' = addNode(graph, type, y)

\* What is dragged anywhere changes nothing here unless it is a decision.
MoveNode ==
    \E id \in DOMAIN graph.nodes, y \in Heights :
        graph.nodes[id].type = "decision" /\ graph' = moveNode(graph, id, y)

DeleteNode == \E id \in DOMAIN graph.nodes : graph' = deleteNode(graph, id)

SetField ==
    \E id \in DOMAIN graph.nodes, i \in DOMAIN Settings :
        /\ graph.nodes[id].type = Settings[i].type
        /\ graph' = setField(graph, id, Settings[i].key, Settings[i].value)

\* A wire is drawn from port to port, either way.
AddWire ==
    \E from, to \in DOMAIN graph.nodes, key \in {"tx", "in", "a", "cond"} :
        graph' = addWire(graph, Wire(from, to, key))

DeleteWire == \E w \in DOMAIN graph.wires : graph' = deleteWire(graph, w)

\* Below whatever is on the canvas.
AddScaffold ==
    LET below == Max({graph.nodes[id].y : id \in DOMAIN graph.nodes}) + 1
    IN \E route \in Routes : graph' = addScaffold(graph, route, Len(route.paths), below)

Edit == AddNode \/ MoveNode \/ DeleteNode \/ SetField \/ AddWire \/ DeleteWire \/ AddScaffold

-----------------------------------------------------------------------------
\* What everything that walks the graph relies on, after any sequence of
\* edits: there is one transaction and one policy, no wire hangs loose, every
\* wire joins ports that fit, a port that takes one wire has at most one, none
\* is drawn twice, and what is numbered next is new.
WiringOK(g) ==
    /\ g.nextId \in Nat /\ g.nextWire \in Nat
    /\ \A id \in DOMAIN g.nodes :
          id \in Nat /\ id < g.nextId /\ g.nodes[id].type \in NodeTypes
    /\ \A type \in NodeTypes : single(type) =>
          \E id \in DOMAIN g.nodes :
              \A other \in DOMAIN g.nodes : g.nodes[other].type = type <=> other = id
    /\ \A w \in DOMAIN g.wires : w \in Nat /\ w < g.nextWire /\ Connects(g, g.wires[w])
    /\ \A v, w \in DOMAIN g.wires :
          /\ g.wires[v] = g.wires[w] => v = w
          /\ (/\ g.wires[v].to = g.wires[w].to /\ g.wires[v].key = g.wires[w].key
              /\ ~isMultiInput(g.nodes[g.wires[v].to].type, g.wires[v].key)) => v = w

GraphOK == WiringOK(graph)
=============================================================================
