------------------------- MODULE PolicyEditingProofs -------------------------
(***************************************************************************)
(* The policy editor, for every policy that is opened, every graph edits   *)
(* make of it, and every table it is pushed to.                            *)
(*                                                                         *)
(* Drawing a policy makes a graph in order, and no edit breaks it: what    *)
(* was true of a port when a wire was drawn stays true.  Of a graph in     *)
(* order the compiler writes rules that the daemon accepts, and asks for   *)
(* every row that the daemon will ask for; and of a plain one, a test that *)
(* the engine allows is one that the editor allows: the two agree on each  *)
(* test, on each rule, on the rule that governs and on its limits.  No     *)
(* push overwrites what its dialog did not show, and no way out that asks  *)
(* nothing loses anything.                                                 *)
(***************************************************************************)
EXTENDS PolicyEditing, ListFacts, FiniteSetTheorems

\* WiringOK reads fields of records; that they are there makes it inductive.
Shaped(g) ==
    /\ DOMAIN g = {"nodes", "wires", "nextId", "nextWire"}
    /\ \A id \in DOMAIN g.nodes : DOMAIN g.nodes[id] = {"type", "y", "fields"}

GraphInv(g) == WiringOK(g) /\ Shaped(g)

-----------------------------------------------------------------------------
(* Graphs: what each edit keeps. *)

\* A wire fits wherever its two nodes are of the types they were.
LEMMA ConnectsByType ==
    ASSUME NEW g, NEW h, NEW wire, Connects(g, wire),
           wire.from \in DOMAIN h.nodes, wire.to \in DOMAIN h.nodes,
           h.nodes[wire.from].type = g.nodes[wire.from].type,
           h.nodes[wire.to].type = g.nodes[wire.to].type
    PROVE  Connects(h, wire)
BY DEF Connects

\* A node that is neither transaction nor policy may be put on the canvas.
LEMMA PutKeeps ==
    ASSUME NEW g, GraphInv(g), NEW node, DOMAIN node = {"type", "y", "fields"},
           node.type \in NodeTypes, ~single(node.type)
    PROVE  GraphInv(Put(g, node))
<1> DEFINE h == Put(g, node)
<1>1. /\ DOMAIN h = {"nodes", "wires", "nextId", "nextWire"}
      /\ h.nodes = With(g.nodes, g.nextId, node) /\ h.wires = g.wires
      /\ h.nextId = g.nextId + 1 /\ h.nextWire = g.nextWire
  BY DEF Put, GraphInv, Shaped
<1>2. /\ DOMAIN h.nodes = DOMAIN g.nodes \cup {g.nextId}
      /\ h.nodes[g.nextId] = node
      /\ \A id \in DOMAIN g.nodes : h.nodes[id] = g.nodes[id]
  <2>1. g.nextId \notin DOMAIN g.nodes
    BY SMT DEF GraphInv, WiringOK
  <2>2. QED
    BY <1>1, <2>1 DEF With
<1>3. Shaped(h)
  BY <1>1, <1>2 DEF GraphInv, Shaped
<1>4. /\ h.nextId \in Nat /\ h.nextWire \in Nat
      /\ \A id \in DOMAIN h.nodes : id \in Nat /\ id < h.nextId /\ h.nodes[id].type \in NodeTypes
  BY <1>1, <1>2 DEF GraphInv, WiringOK
<1>5. \A type \in NodeTypes : single(type) =>
          \E id \in DOMAIN h.nodes :
              \A other \in DOMAIN h.nodes : h.nodes[other].type = type <=> other = id
  <2>1. SUFFICES ASSUME NEW type \in NodeTypes, single(type)
                 PROVE  \E id \in DOMAIN h.nodes :
                            \A other \in DOMAIN h.nodes : h.nodes[other].type = type <=> other = id
    OBVIOUS
  <2>2. PICK id \in DOMAIN g.nodes :
            \A other \in DOMAIN g.nodes : g.nodes[other].type = type <=> other = id
    BY <2>1 DEF GraphInv, WiringOK
  <2>3. node.type # type
    BY <2>1
  <2>4. id # g.nextId
    BY SMT, <2>2 DEF GraphInv, WiringOK
  <2>5. QED
    BY <1>2, <2>2, <2>3, <2>4
<1>6. \A w \in DOMAIN h.wires : w \in Nat /\ w < h.nextWire /\ Connects(h, h.wires[w])
  <2>1. TAKE w \in DOMAIN h.wires
  <2>2. w \in Nat /\ w < g.nextWire /\ Connects(g, g.wires[w])
    BY <1>1 DEF GraphInv, WiringOK
  <2>3. g.wires[w].from \in DOMAIN g.nodes /\ g.wires[w].to \in DOMAIN g.nodes
    BY <2>2 DEF Connects
  <2>4. Connects(h, g.wires[w])
    BY <1>2, <2>2, <2>3, ConnectsByType
  <2>5. QED
    BY <1>1, <2>2, <2>4
<1>7. \A v, w \in DOMAIN h.wires :
          /\ h.wires[v] = h.wires[w] => v = w
          /\ (/\ h.wires[v].to = h.wires[w].to /\ h.wires[v].key = h.wires[w].key
              /\ ~isMultiInput(h.nodes[h.wires[v].to].type, h.wires[v].key)) => v = w
  <2>1. \A v \in DOMAIN g.wires : h.nodes[g.wires[v].to] = g.nodes[g.wires[v].to]
    BY <1>2 DEF GraphInv, WiringOK, Connects
  <2>2. QED
    BY <1>1, <2>1 DEF GraphInv, WiringOK
<1>8. QED
  BY <1>3, <1>4, <1>5, <1>6, <1>7 DEF GraphInv, WiringOK

\* A node may be exchanged for one of its type.
LEMMA ReplaceKeeps ==
    ASSUME NEW g, GraphInv(g), NEW id \in DOMAIN g.nodes, NEW node,
           DOMAIN node = {"type", "y", "fields"}, node.type = g.nodes[id].type
    PROVE  GraphInv([g EXCEPT !.nodes = With(g.nodes, id, node)])
<1> DEFINE h == [g EXCEPT !.nodes = With(g.nodes, id, node)]
<1>1. /\ DOMAIN h = {"nodes", "wires", "nextId", "nextWire"}
      /\ h.nodes = With(g.nodes, id, node) /\ h.wires = g.wires
      /\ h.nextId = g.nextId /\ h.nextWire = g.nextWire
  BY DEF GraphInv, Shaped
<1>2. /\ DOMAIN h.nodes = DOMAIN g.nodes
      /\ \A x \in DOMAIN g.nodes : h.nodes[x].type = g.nodes[x].type
      /\ \A x \in DOMAIN g.nodes : DOMAIN h.nodes[x] = {"type", "y", "fields"}
  BY <1>1 DEF With, GraphInv, Shaped
<1>3. Shaped(h)
  BY <1>1, <1>2 DEF Shaped
<1>4. \A w \in DOMAIN h.wires : Connects(h, h.wires[w])
  <2>1. TAKE w \in DOMAIN h.wires
  <2>2. Connects(g, g.wires[w])
    BY <1>1 DEF GraphInv, WiringOK
  <2>3. QED
    BY <1>1, <1>2, <2>2 DEF Connects
<1>5. \A v \in DOMAIN g.wires : h.nodes[g.wires[v].to].type = g.nodes[g.wires[v].to].type
  BY <1>2 DEF GraphInv, WiringOK, Connects
<1>6. WiringOK(h)
  BY <1>1, <1>2, <1>4, <1>5 DEF GraphInv, WiringOK
<1>7. QED
  BY <1>3, <1>6 DEF GraphInv

\* Wires may be taken away.
LEMMA UnwireKeeps ==
    ASSUME NEW g, GraphInv(g), NEW S
    PROVE  GraphInv([g EXCEPT !.wires = Without(g.wires, S)])
<1> DEFINE h == [g EXCEPT !.wires = Without(g.wires, S)]
<1>1. /\ DOMAIN h = {"nodes", "wires", "nextId", "nextWire"}
      /\ h.nodes = g.nodes /\ h.nextId = g.nextId /\ h.nextWire = g.nextWire
      /\ DOMAIN h.wires = DOMAIN g.wires \ S
      /\ \A w \in DOMAIN h.wires : h.wires[w] = g.wires[w]
  BY DEF GraphInv, Shaped, Without
<1>2. Shaped(h)
  BY <1>1 DEF GraphInv, Shaped
<1>3. \A w \in DOMAIN h.wires : Connects(h, h.wires[w])
  <2>1. TAKE w \in DOMAIN h.wires
  <2>2. w \in DOMAIN g.wires /\ h.wires[w] = g.wires[w]
    BY <1>1
  <2>3. Connects(g, g.wires[w])
    BY <2>2 DEF GraphInv, WiringOK
  <2>4. QED
    BY <1>1, <2>2, <2>3 DEF Connects
<1>4. WiringOK(h)
  BY <1>1, <1>3 DEF GraphInv, WiringOK
<1>5. QED
  BY <1>2, <1>4 DEF GraphInv

\* A wire that fits may be drawn to a port that is free or takes several.
LEMMA JoinKeeps ==
    ASSUME NEW g, GraphInv(g), NEW wire, Connects(g, wire),
           \A w \in DOMAIN g.wires : g.wires[w] # wire,
           \A w \in DOMAIN g.wires :
               (g.wires[w].to = wire.to /\ g.wires[w].key = wire.key)
                   => isMultiInput(g.nodes[wire.to].type, wire.key)
    PROVE  GraphInv(Join(g, wire))
<1> DEFINE h == Join(g, wire)
<1>1. /\ DOMAIN h = {"nodes", "wires", "nextId", "nextWire"}
      /\ h.wires = With(g.wires, g.nextWire, wire) /\ h.nodes = g.nodes
      /\ h.nextWire = g.nextWire + 1 /\ h.nextId = g.nextId
  BY DEF Join, GraphInv, Shaped
<1>2. g.nextWire \in Nat /\ g.nextWire \notin DOMAIN g.wires
  BY SMT DEF GraphInv, WiringOK
<1>3. /\ DOMAIN h.wires = DOMAIN g.wires \cup {g.nextWire}
      /\ h.wires[g.nextWire] = wire
      /\ \A w \in DOMAIN g.wires : h.wires[w] = g.wires[w]
  BY <1>1, <1>2 DEF With
<1>4. Shaped(h)
  BY <1>1 DEF GraphInv, Shaped
<1>5. \A w \in DOMAIN h.wires : w \in Nat /\ w < h.nextWire /\ Connects(h, h.wires[w])
  <2>1. \A w \in DOMAIN g.wires : w \in Nat /\ w < g.nextWire /\ Connects(g, g.wires[w])
    BY DEF GraphInv, WiringOK
  <2>2. \A w \in DOMAIN h.wires : Connects(g, h.wires[w])
    BY <1>3, <2>1
  <2>3. \A w \in DOMAIN h.wires : Connects(h, h.wires[w])
    BY <1>1, <2>2, ConnectsByType DEF Connects
  <2> HIDE DEF h
  <2>4. \A w \in DOMAIN h.wires : w \in Nat /\ w < h.nextWire
    BY <1>1, <1>2, <1>3, <2>1
  <2>5. QED
    BY <2>3, <2>4
<1>6. \A v, w \in DOMAIN h.wires :
          /\ h.wires[v] = h.wires[w] => v = w
          /\ (/\ h.wires[v].to = h.wires[w].to /\ h.wires[v].key = h.wires[w].key
              /\ ~isMultiInput(h.nodes[h.wires[v].to].type, h.wires[v].key)) => v = w
  BY <1>1, <1>3 DEF GraphInv, WiringOK
<1>7. QED
  BY <1>1, <1>4, <1>5, <1>6 DEF GraphInv, WiringOK

\* addWire: the wire it replaces is gone before the new one is there.
LEMMA AddWireKeeps ==
    ASSUME NEW g, GraphInv(g), NEW wire
    PROVE  GraphInv(addWire(g, wire))
<1> DEFINE replaced == IF isMultiInput(g.nodes[wire.to].type, wire.key) THEN {}
                       ELSE {w \in DOMAIN g.wires : /\ g.wires[w].to = wire.to
                                                    /\ g.wires[w].key = wire.key}
           kept == [g EXCEPT !.wires = Without(g.wires, replaced)]
<1>1. GraphInv(kept)
  BY UnwireKeeps
<1>2. /\ kept.nodes = g.nodes
      /\ DOMAIN kept.wires = DOMAIN g.wires \ replaced
      /\ \A w \in DOMAIN kept.wires : kept.wires[w] = g.wires[w]
  BY DEF GraphInv, Shaped, Without
<1>3. CASE ~Connects(g, wire)
  BY <1>3 DEF addWire
<1>4. CASE Connects(g, wire) /\ \E w \in DOMAIN kept.wires : kept.wires[w] = wire
  BY <1>1, <1>4 DEF addWire
<1>5. CASE Connects(g, wire) /\ ~\E w \in DOMAIN kept.wires : kept.wires[w] = wire
  <2>1. Connects(kept, wire)
    BY <1>2, <1>5 DEF Connects
  <2>2. \A w \in DOMAIN kept.wires :
            (kept.wires[w].to = wire.to /\ kept.wires[w].key = wire.key)
                => isMultiInput(kept.nodes[wire.to].type, wire.key)
    BY <1>2
  <2>3. GraphInv(Join(kept, wire))
    BY <1>1, <1>5, <2>1, <2>2, JoinKeeps
  <2>4. QED
    BY <1>5, <2>3 DEF addWire
<1>6. QED
  BY <1>3, <1>4, <1>5

\* deleteNode: the wires of the node go with it.
LEMMA DeleteNodeKeeps ==
    ASSUME NEW g, GraphInv(g), NEW id \in DOMAIN g.nodes
    PROVE  GraphInv(deleteNode(g, id))
<1> DEFINE loose == {w \in DOMAIN g.wires : id \in {g.wires[w].from, g.wires[w].to}}
           h == deleteNode(g, id)
<1>1. CASE single(g.nodes[id].type)
  BY <1>1 DEF deleteNode
<1>2. CASE ~single(g.nodes[id].type)
  <2>1. /\ DOMAIN h = {"nodes", "wires", "nextId", "nextWire"}
        /\ h.nodes = Without(g.nodes, {id}) /\ h.wires = Without(g.wires, loose)
        /\ h.nextId = g.nextId /\ h.nextWire = g.nextWire
    BY <1>2 DEF deleteNode, GraphInv, Shaped
  <2>2. /\ DOMAIN h.nodes = DOMAIN g.nodes \ {id}
        /\ \A x \in DOMAIN h.nodes : h.nodes[x] = g.nodes[x]
    BY <2>1 DEF Without
  <2>3. /\ DOMAIN h.wires = DOMAIN g.wires \ loose
        /\ \A w \in DOMAIN h.wires : h.wires[w] = g.wires[w]
    BY <2>1 DEF Without
  <2>4. Shaped(h)
    BY <2>1, <2>2 DEF GraphInv, Shaped
  <2>5. \A w \in DOMAIN h.wires : w \in Nat /\ w < h.nextWire /\ Connects(h, h.wires[w])
    <3>1. TAKE w \in DOMAIN h.wires
    <3>2. w \in Nat /\ w < g.nextWire /\ Connects(g, g.wires[w])
      BY <2>3 DEF GraphInv, WiringOK
    <3>3. g.wires[w].from \in DOMAIN h.nodes /\ g.wires[w].to \in DOMAIN h.nodes
      BY <2>2, <2>3, <3>2 DEF Connects
    <3>4. Connects(h, g.wires[w])
      BY <2>2, <3>2, <3>3, ConnectsByType
    <3>5. QED
      BY <2>1, <2>3, <3>2, <3>4
  <2>6. \A type \in NodeTypes : single(type) =>
            \E x \in DOMAIN h.nodes :
                \A other \in DOMAIN h.nodes : h.nodes[other].type = type <=> other = x
    BY <1>2, <2>2 DEF GraphInv, WiringOK
  <2>7. \A v \in DOMAIN h.wires : h.nodes[h.wires[v].to] = g.nodes[g.wires[v].to]
    BY <2>2, <2>3, <2>5 DEF Connects
  <2>8. \A v, w \in DOMAIN h.wires :
            /\ h.wires[v] = h.wires[w] => v = w
            /\ (/\ h.wires[v].to = h.wires[w].to /\ h.wires[v].key = h.wires[w].key
                /\ ~isMultiInput(h.nodes[h.wires[v].to].type, h.wires[v].key)) => v = w
    BY <2>3, <2>7 DEF GraphInv, WiringOK
  <2>9. /\ h.nextId \in Nat /\ h.nextWire \in Nat
        /\ \A x \in DOMAIN h.nodes : x \in Nat /\ x < h.nextId /\ h.nodes[x].type \in NodeTypes
    BY <2>1, <2>2 DEF GraphInv, WiringOK
  <2>10. WiringOK(h)
    BY <2>5, <2>6, <2>8, <2>9 DEF WiringOK
  <2>11. QED
    BY <2>4, <2>10 DEF GraphInv
<1>3. QED
  BY <1>1, <1>2

\* The ports a branch joins fit each other.
LEMMA BranchPorts ==
    /\ "tx" \in InPorts("routeif") /\ portsCompatible("transaction", "routeif", "tx")
    /\ "in" \in InPorts("getfield") /\ portsCompatible("routeif", "getfield", "in")
    /\ "tx" \in InPorts("decision") /\ portsCompatible("routeif", "decision", "tx")
    /\ "in" \in InPorts("policy") /\ portsCompatible("decision", "policy", "in")
<1>1. "tx" \in InPorts("routeif") /\ "in" \in InPorts("getfield")
      /\ "tx" \in InPorts("decision") /\ "in" \in InPorts("policy")
  BY DEF InPorts
<1>2. OutType("transaction") = "tx" /\ OutType("routeif") = "tx" /\ OutType("decision") = "verdict"
  BY DEF OutType
<1>3. InType("routeif", "tx") = "tx" /\ InType("decision", "tx") = "tx"
      /\ InType("policy", "in") = "verdict"
  BY DEF InType
<1>4. QED
  BY <1>1, <1>2, <1>3 DEF portsCompatible

\* addScaffold: the branch hangs on new nodes, between the transaction and the
\* policy.
LEMMA AddScaffoldKeeps ==
    ASSUME NEW g, GraphInv(g), NEW route, NEW n \in Nat, NEW y
    PROVE  GraphInv(addScaffold(g, route, n, y))
<1> DEFINE h == addScaffold(g, route, n, y)
           r == g.nextId
           d == r + n + 1
           f == g.nextWire
           branch == [id \in r .. d |->
               CASE id = r -> Node("routeif", y, [contract |-> route.contract, action |-> route.action])
                 [] id = d -> Node("decision", y, Defaults["decision"])
                 [] OTHER  -> Node("getfield", y, [path |-> route.paths[id - r]])]
           wiring == [w \in f .. f + n + 2 |->
               CASE w = f         -> Wire(The(g, "transaction"), r, "tx")
                 [] w = f + n + 1 -> Wire(r, d, "tx")
                 [] w = f + n + 2 -> Wire(d, The(g, "policy"), "in")
                 [] OTHER         -> Wire(r, r + (w - f), "in")]
<1> USE DEF Wire
<1>1. CASE HasRoute(g, route.contract, route.action)
  BY <1>1 DEF addScaffold
<1>2. CASE ~HasRoute(g, route.contract, route.action)
  <2>1. /\ DOMAIN h = {"nodes", "wires", "nextId", "nextWire"}
        /\ h.nextId = d + 1 /\ h.nextWire = f + n + 3
        /\ DOMAIN h.nodes = DOMAIN g.nodes \cup (r .. d)
        /\ DOMAIN h.wires = DOMAIN g.wires \cup (f .. f + n + 2)
        /\ \A id \in DOMAIN g.nodes : h.nodes[id] = g.nodes[id]
        /\ \A w \in DOMAIN g.wires : h.wires[w] = g.wires[w]
        /\ \A id \in (r .. d) \ DOMAIN g.nodes : h.nodes[id] = branch[id]
        /\ \A w \in (f .. f + n + 2) \ DOMAIN g.wires : h.wires[w] = wiring[w]
    BY <1>2 DEF addScaffold
  <2>2. /\ r \in Nat /\ f \in Nat /\ d \in Nat /\ r < d /\ d = r + n + 1
        /\ \A id \in DOMAIN g.nodes : id \in Nat /\ id < r /\ g.nodes[id].type \in NodeTypes
        /\ \A w \in DOMAIN g.wires : w \in Nat /\ w < f /\ Connects(g, g.wires[w])
    BY DEF GraphInv, WiringOK
  <2> HIDE DEF h, r, d, f
  <2>3. \A id \in r .. d :
            /\ id \notin DOMAIN g.nodes
            /\ DOMAIN h.nodes[id] = {"type", "y", "fields"}
            /\ h.nodes[id].type = IF id = r THEN "routeif" ELSE IF id = d THEN "decision" ELSE "getfield"
    <3>1. TAKE id \in r .. d
    <3>2. id \notin DOMAIN g.nodes /\ h.nodes[id] = branch[id]
      BY <2>1, <2>2
    <3>3. QED
      BY <2>2, <3>2 DEF Node
  <2>4. \A w \in f .. f + n + 2 : w \notin DOMAIN g.wires /\ h.wires[w] = wiring[w]
    BY <2>1, <2>2
  <2>5. /\ h.wires[f] = Wire(The(g, "transaction"), r, "tx")
        /\ h.wires[f + n + 1] = Wire(r, d, "tx")
        /\ h.wires[f + n + 2] = Wire(d, The(g, "policy"), "in")
        /\ \A w \in f + 1 .. f + n :
              h.wires[w].from = r /\ h.wires[w].to = r + (w - f) /\ h.wires[w].key = "in"
    <3>1. h.wires[f] = Wire(The(g, "transaction"), r, "tx")
      <4>1. f \in f .. f + n + 2 /\ f # f + n + 1 /\ f # f + n + 2
        BY <2>2
      <4>2. QED
        BY <2>4, <4>1
    <3>2. h.wires[f + n + 1] = Wire(r, d, "tx")
      <4>1. f + n + 1 \in f .. f + n + 2 /\ f + n + 1 # f /\ f + n + 1 # f + n + 2
        BY <2>2
      <4>2. QED
        BY <2>4, <4>1
    <3>3. h.wires[f + n + 2] = Wire(d, The(g, "policy"), "in")
      <4>1. f + n + 2 \in f .. f + n + 2 /\ f + n + 2 # f /\ f + n + 2 # f + n + 1
        BY <2>2
      <4>2. QED
        BY <2>4, <4>1
    <3>4. \A w \in f + 1 .. f + n :
              h.wires[w].from = r /\ h.wires[w].to = r + (w - f) /\ h.wires[w].key = "in"
      <4>1. TAKE w \in f + 1 .. f + n
      <4>2. w \in f .. f + n + 2 /\ w # f /\ w # f + n + 1 /\ w # f + n + 2
        BY <2>2
      <4>3. h.wires[w] = Wire(r, r + (w - f), "in")
        BY <2>4, <4>2
      <4>4. QED
        BY <4>3
    <3>5. QED
      BY <3>1, <3>2, <3>3, <3>4
  <2>5a. \A w \in f .. f + n + 1 : h.wires[w].to = r + (w - f)
    <3>1. TAKE w \in f .. f + n + 1
    <3>2. CASE w = f
      BY <2>2, <2>5, <3>2
    <3>3. CASE w = f + n + 1
      BY <2>2, <2>5, <3>3
    <3>4. CASE w # f /\ w # f + n + 1
      <4>1. w \in f + 1 .. f + n
        BY <2>2, <3>4
      <4>2. QED
        BY <2>5, <4>1
    <3>5. QED
      BY <3>2, <3>3, <3>4
  <2>6. \A type \in {"transaction", "policy"} :
            /\ The(g, type) \in DOMAIN g.nodes
            /\ g.nodes[The(g, type)].type = type
    <3>1. TAKE type \in {"transaction", "policy"}
    <3>2. \E id \in DOMAIN g.nodes : g.nodes[id].type = type
      BY DEF GraphInv, WiringOK, single, NodeTypes
    <3>3. QED
      BY <3>2 DEF The
  <2>7. Shaped(h)
    BY <2>1, <2>2, <2>3 DEF GraphInv, Shaped
  <2>8. /\ h.nextId \in Nat /\ h.nextWire \in Nat
        /\ \A id \in DOMAIN h.nodes : id \in Nat /\ id < h.nextId /\ h.nodes[id].type \in NodeTypes
    BY <2>1, <2>2, <2>3 DEF NodeTypes
  <2>9. \A type \in NodeTypes : single(type) =>
            \E id \in DOMAIN h.nodes :
                \A other \in DOMAIN h.nodes : h.nodes[other].type = type <=> other = id
    <3>1. SUFFICES ASSUME NEW type \in NodeTypes, single(type)
                   PROVE  \E id \in DOMAIN h.nodes :
                              \A other \in DOMAIN h.nodes : h.nodes[other].type = type <=> other = id
      OBVIOUS
    <3>2. PICK id \in DOMAIN g.nodes :
              \A other \in DOMAIN g.nodes : g.nodes[other].type = type <=> other = id
      BY <3>1 DEF GraphInv, WiringOK
    <3>3. \A other \in r .. d : h.nodes[other].type # type /\ other # id
      BY <2>3, <3>1 DEF single
    <3>4. QED
      BY <2>1, <3>2, <3>3
  <2>10. \A w \in f .. f + n + 2 : Connects(h, h.wires[w])
    <3>1. r \in DOMAIN h.nodes /\ d \in DOMAIN h.nodes
          /\ h.nodes[r].type = "routeif" /\ h.nodes[d].type = "decision"
      BY <2>1, <2>2, <2>3
    <3>2. \A type \in {"transaction", "policy"} :
              /\ The(g, type) \in DOMAIN h.nodes /\ h.nodes[The(g, type)].type = type
              /\ The(g, type) # r /\ The(g, type) # d
      BY <2>1, <2>2, <2>6
    <3>3. Connects(h, h.wires[f])
      BY <2>5, <3>1, <3>2, BranchPorts DEF Connects
    <3>4. Connects(h, h.wires[f + n + 1])
      BY <2>2, <2>5, <3>1, BranchPorts DEF Connects
    <3>5. Connects(h, h.wires[f + n + 2])
      BY <2>5, <3>1, <3>2, BranchPorts DEF Connects
    <3>6. \A w \in f + 1 .. f + n : Connects(h, h.wires[w])
      <4>1. TAKE w \in f + 1 .. f + n
      <4>2. /\ r + (w - f) \in r .. d /\ r + (w - f) # r /\ r + (w - f) # d
            /\ r + (w - f) \in DOMAIN h.nodes
        BY <2>1, <2>2
      <4>3. h.nodes[r + (w - f)].type = "getfield"
        BY <2>3, <4>2
      <4>4. QED
        BY <2>5, <3>1, <4>2, <4>3, BranchPorts DEF Connects
    <3>7. \A w \in f .. f + n + 2 :
              w = f \/ w = f + n + 1 \/ w = f + n + 2 \/ w \in f + 1 .. f + n
      BY <2>2
    <3>8. QED
      BY <3>3, <3>4, <3>5, <3>6, <3>7
  <2>11. \A w \in DOMAIN g.wires :
            /\ Connects(h, h.wires[w])
            /\ h.nodes[h.wires[w].to] = g.nodes[g.wires[w].to]
            /\ h.wires[w].from < r /\ h.wires[w].to < r
    <3>1. TAKE w \in DOMAIN g.wires
    <3>2. g.wires[w].from \in DOMAIN g.nodes /\ g.wires[w].to \in DOMAIN g.nodes
      BY <2>2 DEF Connects
    <3>3. Connects(h, g.wires[w])
      BY <2>1, <2>2, <3>2, ConnectsByType
    <3>4. QED
      BY <2>1, <2>2, <3>2, <3>3
  <2>12. \A w \in DOMAIN h.wires : w \in Nat /\ w < h.nextWire /\ Connects(h, h.wires[w])
    BY <2>1, <2>2, <2>10, <2>11
  <2>13. \A v, w \in DOMAIN h.wires :
            /\ h.wires[v] = h.wires[w] => v = w
            /\ (/\ h.wires[v].to = h.wires[w].to /\ h.wires[v].key = h.wires[w].key
                /\ ~isMultiInput(h.nodes[h.wires[v].to].type, h.wires[v].key)) => v = w
    <3> DEFINE Apart(v, w) ==
            /\ h.wires[v] = h.wires[w] => v = w
            /\ (/\ h.wires[v].to = h.wires[w].to /\ h.wires[v].key = h.wires[w].key
                /\ ~isMultiInput(h.nodes[h.wires[v].to].type, h.wires[v].key)) => v = w
    <3>1. \A v, w \in DOMAIN g.wires : Apart(v, w)
      BY <2>1, <2>11 DEF GraphInv, WiringOK
    <3>2. \A v \in DOMAIN g.wires, w \in f .. f + n + 2 : Apart(v, w) /\ Apart(w, v)
      <4>1. TAKE v \in DOMAIN g.wires, w \in f .. f + n + 2
      <4>2. h.wires[v].from < r /\ h.wires[v].to < r
        BY <2>11
      <4>3. CASE w = f + n + 2
        <5>1. h.wires[w].from = d /\ h.wires[w].key = "in" /\ h.wires[w].to = The(g, "policy")
          BY <2>5, <4>3
        <5>2. h.nodes[h.wires[w].to].type = "policy" /\ isMultiInput("policy", "in")
          BY <2>1, <2>6, <5>1 DEF isMultiInput
        <5>3. h.wires[v] # h.wires[w]
          BY <2>2, <4>2, <5>1
        <5>4. QED
          BY <5>1, <5>2, <5>3
      <4>4. CASE w # f + n + 2
        <5>1. h.wires[w].to \in r .. d
          <6>1. w \in f .. f + n + 1
            BY <2>2, <4>4
          <6>2. QED
            BY <2>2, <2>5a, <6>1
        <5>2. h.wires[w].to # h.wires[v].to
          BY <2>2, <4>2, <5>1
        <5>3. QED
          BY <5>2
      <4>5. QED
        BY <4>3, <4>4
    <3>3. \A v, w \in f .. f + n + 2 : Apart(v, w)
      <4>2. h.wires[f + n + 2].to < r
        BY <2>2, <2>5, <2>6
      <4>3. \A v, w \in f .. f + n + 2 : h.wires[v].to = h.wires[w].to => v = w
        <5>1. \A w \in f .. f + n + 1 : h.wires[w].to = r + (w - f) /\ h.wires[w].to >= r
          BY <2>2, <2>5a
        <5>2. \A w \in f .. f + n + 2 : w = f + n + 2 \/ w \in f .. f + n + 1
          BY <2>2
        <5>3. QED
          BY <2>2, <4>2, <5>1, <5>2
      <4>4. QED
        BY <4>3
    <3>4. QED
      BY <2>1, <3>1, <3>2, <3>3
  <2>14. WiringOK(h)
    BY <2>8, <2>9, <2>12, <2>13 DEF WiringOK
  <2>15. QED
    BY <2>7, <2>14 DEF h, GraphInv
<1>3. QED
  BY <1>1, <1>2

-----------------------------------------------------------------------------
\* One edit, whichever it is.
LEMMA EditKeeps ==
    ASSUME GraphInv(graph), Edit
    PROVE  GraphInv(graph')
<1>1. CASE AddNode
  <2>1. PICK type \in Palette, y \in Heights : graph' = addNode(graph, type, y)
    BY <1>1 DEF AddNode
  <2>2. CASE single(type)
    <3>1. \E id \in DOMAIN graph.nodes : graph.nodes[id].type = type
      BY <2>2, EditsAssumption DEF GraphInv, WiringOK
    <3>2. graph' = graph
      BY <2>1, <2>2, <3>1 DEF addNode
    <3>3. QED
      BY <3>2
  <2>3. CASE ~single(type)
    <3> DEFINE node == Node(type, y, Defaults[type])
    <3>1. graph' = Put(graph, node)
      BY <2>1, <2>3 DEF addNode
    <3>2. DOMAIN node = {"type", "y", "fields"} /\ node.type = type
      BY DEF Node
    <3>3. node.type \in NodeTypes /\ ~single(node.type)
      BY <2>3, <3>2, EditsAssumption
    <3> HIDE DEF node
    <3>4. QED
      BY <3>1, <3>2, <3>3, PutKeeps
  <2>4. QED
    BY <2>2, <2>3
<1>2. CASE MoveNode
  <2>1. PICK id \in DOMAIN graph.nodes, y \in Heights : graph' = moveNode(graph, id, y)
    BY <1>2 DEF MoveNode
  <2> DEFINE node == [graph.nodes[id] EXCEPT !.y = y]
  <2>2. DOMAIN node = {"type", "y", "fields"} /\ node.type = graph.nodes[id].type
    BY DEF GraphInv, Shaped
  <2>3. graph' = [graph EXCEPT !.nodes = With(graph.nodes, id, node)]
    BY <2>1 DEF moveNode
  <2> HIDE DEF node
  <2>4. QED
    BY <2>2, <2>3, ReplaceKeeps
<1>3. CASE DeleteNode
  BY <1>3, DeleteNodeKeeps DEF DeleteNode
<1>4. CASE SetField
  <2>1. PICK id \in DOMAIN graph.nodes, i \in DOMAIN Settings :
            graph' = setField(graph, id, Settings[i].key, Settings[i].value)
    BY <1>4 DEF SetField
  <2> DEFINE node == [graph.nodes[id] EXCEPT !.fields[Settings[i].key] = Settings[i].value]
  <2>2. DOMAIN node = {"type", "y", "fields"} /\ node.type = graph.nodes[id].type
    BY DEF GraphInv, Shaped
  <2>3. graph' = [graph EXCEPT !.nodes = With(graph.nodes, id, node)]
    BY <2>1 DEF setField
  <2> HIDE DEF node
  <2>4. QED
    BY <2>2, <2>3, ReplaceKeeps
<1>5. CASE AddWire
  BY <1>5, AddWireKeeps DEF AddWire
<1>6. CASE DeleteWire
  BY <1>6, UnwireKeeps DEF DeleteWire, deleteWire
<1>7. CASE AddScaffold
  <2>1. PICK route \in Routes :
            graph' = addScaffold(graph, route, Len(route.paths),
                                 Max({graph.nodes[id].y : id \in DOMAIN graph.nodes}) + 1)
    BY <1>7 DEF AddScaffold
  <2>2. Len(route.paths) \in Nat
    BY EditsAssumption
  <2>3. QED
    BY <2>1, <2>2, AddScaffoldKeeps
<1>8. QED
  BY <1>1, <1>2, <1>3, <1>4, <1>5, <1>6, <1>7 DEF Edit

-----------------------------------------------------------------------------
(* Sets put in order, and the search upstream. *)

\* What orders a set: of two members one is before the other, and what is
\* before a member is what is before all after it.
Orders(S, before) ==
    /\ before \in [S -> SUBSET S]
    /\ \A x \in S : x \notin before[x]
    /\ \A x, y \in S : x = y \/ x \in before[y] \/ y \in before[x]
    /\ \A x, y \in S : y \in before[x] => before[y] \subseteq before[x]

\* The rank of a member tells it from the others.
LEMMA RanksAre ==
    ASSUME NEW S, IsFiniteSet(S), NEW before, Orders(S, before)
    PROVE  /\ Cardinality(S) \in Nat
           /\ \A x \in S : Cardinality(before[x]) \in 0 .. Cardinality(S) - 1
           /\ \A x, y \in S : y \in before[x] <=> Cardinality(before[y]) < Cardinality(before[x])
           /\ \A x, y \in S : Cardinality(before[y]) = Cardinality(before[x]) => x = y
           /\ \A k \in 1 .. Cardinality(S) : \E x \in S : Cardinality(before[x]) = k - 1
<1> DEFINE n == Cardinality(S)
           rank == [x \in S |-> Cardinality(before[x])]
<1>1. n \in Nat /\ (n = 0 <=> S = {})
  BY FS_CardinalityType, FS_EmptySet
<1>2. \A x \in S : before[x] \in SUBSET S /\ before[x] # S
  BY DEF Orders
<1>3. \A x \in S : rank[x] \in 0 .. n - 1
  <2>1. TAKE x \in S
  <2>2. /\ IsFiniteSet(before[x]) /\ Cardinality(before[x]) <= n
        /\ n = Cardinality(before[x]) => S = before[x]
    BY <1>2, FS_Subset
  <2>3. Cardinality(before[x]) \in Nat
    BY <2>2, FS_CardinalityType
  <2>4. QED
    BY <1>1, <1>2, <2>2, <2>3
<1>4. \A x, y \in S : y \in before[x] => rank[y] < rank[x]
  <2>1. SUFFICES ASSUME NEW x \in S, NEW y \in S, y \in before[x]
                 PROVE  rank[y] < rank[x]
    OBVIOUS
  <2>2. before[y] \in SUBSET before[x] /\ before[y] # before[x]
    BY <2>1 DEF Orders
  <2>3. IsFiniteSet(before[x])
    BY <1>2, FS_Subset
  <2>4. /\ Cardinality(before[y]) <= Cardinality(before[x])
        /\ Cardinality(before[x]) = Cardinality(before[y]) => before[x] = before[y]
    BY <2>2, <2>3, FS_Subset
  <2>5. rank[x] \in Nat /\ rank[y] \in Nat
    BY <1>1, <1>3
  <2>6. QED
    BY <2>2, <2>4, <2>5
<1>5. rank \in Injection(S, 0 .. n - 1)
  <2>1. \A x, y \in S : rank[x] = rank[y] => x = y
    BY <1>1, <1>3, <1>4 DEF Orders
  <2>2. rank \in [S -> 0 .. n - 1]
    BY <1>3
  <2> HIDE DEF rank
  <2>3. QED
    BY <2>1, <2>2 DEF Injection, IsInjective
<1>6. rank \in Surjection(S, 0 .. n - 1)
  <2>1. 0 \in Int /\ n - 1 \in Int
    BY <1>1
  <2>2. IsFiniteSet(0 .. n - 1) /\ Cardinality(0 .. n - 1) = IF 0 > n - 1 THEN 0 ELSE (n - 1) - 0 + 1
    BY <2>1, FS_Interval
  <2>3. Cardinality(0 .. n - 1) = n
    BY <1>1, <2>2
  <2> HIDE DEF rank
  <2>4. QED
    BY <1>5, <2>2, <2>3, FS_Injection
<1>7. \A k \in 1 .. n : \E x \in S : Cardinality(before[x]) = k - 1
  <2>1. TAKE k \in 1 .. n
  <2>2. k - 1 \in 0 .. n - 1
    BY <1>1
  <2>3. \E x \in S : rank[x] = k - 1
    BY <1>6, <2>2 DEF Surjection
  <2>4. QED
    BY <2>3
<1>8. \A x \in S : rank[x] = Cardinality(before[x]) /\ rank[x] \in Int
  BY <1>1, <1>3
<1> HIDE DEF rank
<1>9. \A x, y \in S : y \in before[x] <=> rank[y] < rank[x]
  BY <1>4, <1>8 DEF Orders
<1>10. \A x, y \in S : rank[y] = rank[x] => x = y
  BY <1>8, <1>9 DEF Orders
<1>11. QED
  BY <1>1, <1>3, <1>7, <1>8, <1>9, <1>10

\* Sorted lists a finite set that is ordered: all of its members, each once.
LEMMA SortedIs ==
    ASSUME NEW S, IsFiniteSet(S), NEW before, Orders(S, before)
    PROVE  /\ Cardinality(S) \in Nat
           /\ Sorted(S, before) \in [1 .. Cardinality(S) -> S]
           /\ Sorted(S, before) \in Seq(S)
           /\ Len(Sorted(S, before)) = Cardinality(S)
           /\ S # {} => Sorted(S, before) # <<>>
<1>1. Cardinality(S) \in Nat /\ (Cardinality(S) = 0 <=> S = {})
  BY FS_CardinalityType, FS_EmptySet
<1>2. Sorted(S, before) \in [1 .. Cardinality(S) -> S]
  BY RanksAre DEF Sorted
<1>3. QED
  BY <1>1, <1>2

LEMMA SortedAll ==
    ASSUME NEW S, IsFiniteSet(S), NEW before, Orders(S, before)
    PROVE  LET list == Sorted(S, before)
           IN /\ \A x \in S : \E i \in DOMAIN list : list[i] = x
              /\ \A i, j \in DOMAIN list : i < j <=> list[i] \in before[list[j]]
              /\ \A i, j \in DOMAIN list : list[i] = list[j] => i = j
<1> DEFINE n == Cardinality(S)
           list == Sorted(S, before)
           R(x) == Cardinality(before[x])
<1>1. /\ n \in Nat
      /\ \A x \in S : R(x) \in 0 .. n - 1
      /\ \A x, y \in S : y \in before[x] <=> R(y) < R(x)
      /\ \A x, y \in S : R(y) = R(x) => x = y
      /\ \A k \in 1 .. n : \E x \in S : R(x) = k - 1
  BY RanksAre
<1>2. DOMAIN list = 1 .. n
  BY DEF Sorted
<1>3. ASSUME NEW i \in 1 .. n PROVE list[i] \in S /\ R(list[i]) = i - 1
  BY <1>1 DEF Sorted
<1> HIDE DEF list, R, n
<1>4. ASSUME NEW x \in S PROVE \E i \in DOMAIN list : list[i] = x
  <2>1. R(x) \in 0 .. n - 1
    BY <1>1
  <2> DEFINE i == R(x) + 1
  <2>2. i \in 1 .. n /\ i - 1 = R(x)
    BY <1>1, <2>1
  <2> HIDE DEF i
  <2>3. list[i] \in S /\ R(list[i]) = R(x)
    BY <1>3, <2>2
  <2>4. list[i] = x
    BY <1>1, <2>3
  <2>5. QED
    BY <1>2, <2>2, <2>4
<1>5. ASSUME NEW i \in DOMAIN list, NEW j \in DOMAIN list
      PROVE  (i < j <=> list[i] \in before[list[j]]) /\ (list[i] = list[j] => i = j)
  <2>1. /\ list[i] \in S /\ R(list[i]) = i - 1
        /\ list[j] \in S /\ R(list[j]) = j - 1
        /\ i \in Int /\ j \in Int
    BY <1>1, <1>2, <1>3
  <2>2. i < j <=> i - 1 < j - 1
    BY <2>1
  <2>3. QED
    BY <1>1, <2>1, <2>2
<1>6. QED
  BY <1>4, <1>5 DEF list

LEMMA FiniteGraph ==
    ASSUME NEW g, GraphInv(g)
    PROVE  /\ IsFiniteSet(DOMAIN g.nodes) /\ DOMAIN g.nodes \subseteq Nat
           /\ IsFiniteSet(DOMAIN g.wires) /\ DOMAIN g.wires \subseteq Nat
<1>1. /\ DOMAIN g.nodes \in SUBSET Nat /\ \A id \in DOMAIN g.nodes : id <= g.nextId
      /\ DOMAIN g.wires \in SUBSET Nat /\ \A w \in DOMAIN g.wires : w <= g.nextWire
      /\ g.nextId \in Nat /\ g.nextWire \in Nat
  BY DEF GraphInv, WiringOK
<1>2. QED
  BY <1>1, FS_BoundedSetOfNaturals

LEMMA InOrderIs ==
    ASSUME NEW S \in SUBSET Nat, IsFiniteSet(S)
    PROVE  /\ InOrder(S) \in Seq(S) /\ Len(InOrder(S)) = Cardinality(S)
           /\ \A x \in S : \E i \in DOMAIN InOrder(S) : InOrder(S)[i] = x
<1> DEFINE before == [x \in S |-> {y \in S : y < x}]
<1>1. /\ DOMAIN before = S
      /\ \A x \in S : before[x] \in SUBSET S /\ \A y \in S : y \in before[x] <=> y < x
  OBVIOUS
<1>2. before \in [S -> SUBSET S]
  OBVIOUS
<1>3. InOrder(S) = Sorted(S, before)
  BY DEF InOrder
<1> HIDE DEF before
<1>4. Orders(S, before)
  <2>1. \A x, y \in S : x = y \/ x \in before[y] \/ y \in before[x]
    BY <1>1
  <2>2. \A x, y \in S : y \in before[x] => before[y] \subseteq before[x]
    <3>1. SUFFICES ASSUME NEW x \in S, NEW y \in S, y \in before[x], NEW z \in before[y]
                   PROVE  z \in before[x]
      OBVIOUS
    <3>2. z \in S /\ z < y /\ y < x
      BY <1>1, <3>1
    <3>3. z \in Nat /\ y \in Nat /\ x \in Nat
      BY <3>2
    <3>4. QED
      BY <1>1, <3>2, <3>3
  <2>3. \A x \in S : x \notin before[x]
    <3>1. TAKE x \in S
    <3>2. x \in Nat /\ ~(x < x)
      OBVIOUS
    <3>3. QED
      BY <1>1, <3>2
  <2>4. QED
    BY <1>2, <2>1, <2>2, <2>3 DEF Orders
<1>5. QED
  BY <1>3, <1>4, SortedIs, SortedAll

\* The search exists, by induction on its number of steps.
Walks(n, g, id, f) ==
    f = [k \in 0 .. n |-> IF k = 0 THEN [stack |-> <<id>>, out |-> <<>>] ELSE follow(g, f[k - 1])]

LEMMA WalkExists ==
    ASSUME NEW g, NEW id, NEW n \in Nat
    PROVE  \E f : Walks(n, g, id, f)
<1> DEFINE S == {k \in Nat : \E f : Walks(k, g, id, f)}
<1>1. 0 \in S
  <2>1. Walks(0, g, id, [k \in 0 .. 0 |-> [stack |-> <<id>>, out |-> <<>>]])
    BY DEF Walks
  <2>2. QED
    BY <2>1
<1>2. ASSUME NEW m \in S PROVE m + 1 \in S
  <2>1. PICK f : Walks(m, g, id, f)
    OBVIOUS
  <2> DEFINE last == follow(g, f[m])
             h == [k \in 0 .. m + 1 |-> IF k = m + 1 THEN last ELSE f[k]]
  <2>2. m \in Nat
    OBVIOUS
  <2>3. \A k \in 0 .. m + 1 : h[k] = IF k = m + 1 THEN last ELSE f[k]
    OBVIOUS
  <2> HIDE DEF h
  <2>4. ASSUME NEW k \in 0 .. m + 1
        PROVE  h[k] = IF k = 0 THEN [stack |-> <<id>>, out |-> <<>>] ELSE follow(g, h[k - 1])
    <3>1. CASE k = m + 1
      <4>1. k # 0 /\ k - 1 = m /\ m \in 0 .. m + 1 /\ m # m + 1
        BY <2>2, <3>1
      <4>2. h[k] = last /\ h[k - 1] = f[m]
        BY <2>3, <3>1, <4>1
      <4>3. QED
        BY <3>1, <4>1, <4>2
    <3>2. CASE k # m + 1
      <4>1. k \in 0 .. m
        BY <2>2, <3>2
      <4>2. f[k] = IF k = 0 THEN [stack |-> <<id>>, out |-> <<>>] ELSE follow(g, f[k - 1])
        BY <2>1, <4>1 DEF Walks
      <4>3. h[k] = f[k]
        BY <2>3, <3>2
      <4>4. k # 0 => k - 1 \in 0 .. m + 1 /\ k - 1 # m + 1
        BY <2>2, <4>1
      <4>5. k # 0 => h[k - 1] = f[k - 1]
        BY <2>3, <4>4
      <4>6. QED
        BY <4>2, <4>3, <4>5
    <3>3. QED
      BY <3>1, <3>2
  <2>5. h = [k \in 0 .. m + 1 |-> h[k]]
    BY DEF h
  <2>6. h = [k \in 0 .. m + 1 |-> IF k = 0 THEN [stack |-> <<id>>, out |-> <<>>] ELSE follow(g, h[k - 1])]
    BY <2>4, <2>5
  <2>7. Walks(m + 1, g, id, h)
    BY <2>6 DEF Walks
  <2>8. QED
    BY <2>2, <2>7
<1>3. S = Nat
  <2> HIDE DEF S
  <2>1. S \in SUBSET Nat
    BY DEF S
  <2>2. QED
    BY <1>1, <1>2, <2>1, Induct
<1>4. QED
  BY <1>3

\* What is found depends on nothing that is not on the canvas.
SearchOK(g, s) ==
    /\ s = [stack |-> s.stack, out |-> s.out]
    /\ s.stack \in Seq(DOMAIN g.nodes) /\ s.out \in Seq(DOMAIN g.nodes)

LEMMA FollowKeeps ==
    ASSUME NEW g, GraphInv(g), NEW s, SearchOK(g, s)
    PROVE  SearchOK(g, follow(g, s))
<1> DEFINE x == Last(s.stack)
           into == Into(g, x)
           sources == [i \in DOMAIN into |-> g.wires[into[i]].from]
           N == DOMAIN g.nodes
<1>1. s.stack \in Seq(N) /\ s.out \in Seq(N)
  BY DEF SearchOK
<1>2. CASE s.stack = <<>>
  BY <1>2 DEF follow
<1>3. CASE s.stack # <<>>
  <2>1. Front(s.stack) \in Seq(N) /\ x \in N
    <3>1. Len(s.stack) \in Nat \ {0} /\ \A k \in 1 .. Len(s.stack) : s.stack[k] \in N
      BY <1>1, <1>3
    <3>2. x \in N
      BY <3>1 DEF Last
    <3>3. Front(s.stack) \in Seq(N)
      <4>1. \A k \in 1 .. Len(s.stack) - 1 : s.stack[k] \in N
        BY <3>1
      <4>2. QED
        <5> DEFINE n == Len(s.stack) - 1
        <5>1. n \in Int /\ 1 \in Int
          BY <3>1
        <5>2. \A k \in 1 .. n : s.stack[k] \in N
          BY <4>1
        <5> HIDE DEF n
        <5>3. SubSeq(s.stack, 1, n) \in Seq(N)
          BY <5>1, <5>2, SubSeqProperties
        <5>4. QED
          BY <5>3 DEF Front, n
    <3>4. QED
      BY <3>2, <3>3
  <2>2. into \in Seq(DOMAIN g.wires)
    <3>1. DOMAIN g.wires \in SUBSET Nat /\ IsFiniteSet(DOMAIN g.wires)
      BY FiniteGraph
    <3> DEFINE W == {w \in DOMAIN g.wires : g.wires[w].to = x}
    <3>2. W \in SUBSET DOMAIN g.wires
      OBVIOUS
    <3>3. W \in SUBSET Nat /\ IsFiniteSet(W)
      BY <3>1, <3>2, FS_Subset
    <3>4. into = InOrder(W)
      BY DEF Into
    <3> HIDE DEF W
    <3>5. into \in Seq(W)
      BY <3>3, <3>4, InOrderIs
    <3>6. QED
      BY <3>2, <3>5
  <2>3. sources \in Seq(N)
    <3>1. \A w \in DOMAIN g.wires : g.wires[w].from \in N
      BY DEF GraphInv, WiringOK, Connects
    <3> HIDE DEF into
    <3>2. QED
      BY <2>2, <3>1
  <2>4. CASE x \in ToSet(s.out)
    <3>1. follow(g, s) = [s EXCEPT !.stack = Front(s.stack)]
      BY <1>3, <2>4 DEF follow
    <3>2. QED
      BY <2>1, <3>1 DEF SearchOK
  <2>5. CASE x \notin ToSet(s.out)
    <3>1. follow(g, s) = [stack |-> Front(s.stack) \o sources, out |-> Append(s.out, x)]
      BY <1>3, <2>5 DEF follow
    <3> HIDE DEF sources, x, N
    <3>2. Front(s.stack) \o sources \in Seq(N) /\ Append(s.out, x) \in Seq(N)
      BY <1>1, <2>1, <2>3
    <3>3. QED
      BY <3>1, <3>2 DEF SearchOK, N
  <2>6. QED
    BY <2>4, <2>5
<1>4. QED
  BY <1>2, <1>3

\* upstream lists nodes of the graph.
LEMMA UpstreamIs ==
    ASSUME NEW g, GraphInv(g), NEW id \in DOMAIN g.nodes
    PROVE  upstream(g, id) \in Seq(DOMAIN g.nodes)
<1> DEFINE steps == Cardinality(DOMAIN g.wires) + 1
           walk == CHOOSE f : Walks(steps, g, id, f)
<1>1. steps \in Nat
  BY FiniteGraph, FS_CardinalityType
<1>2. upstream(g, id) = walk[steps].out
  BY DEF upstream, Walks
<1>3. Walks(steps, g, id, walk)
  BY <1>1, WalkExists
<1> HIDE DEF walk, steps
<1>4. /\ walk[0] = [stack |-> <<id>>, out |-> <<>>]
      /\ \A k \in 1 .. steps : walk[k] = follow(g, walk[k - 1])
  BY <1>1, <1>3 DEF Walks
<1> DEFINE S == {k \in Nat : k <= steps => SearchOK(g, walk[k])}
<1>5. 0 \in S
  <2>1. <<id>> \in Seq(DOMAIN g.nodes) /\ <<>> \in Seq(DOMAIN g.nodes)
    <3> DEFINE N == DOMAIN g.nodes
    <3>1. id \in N
      OBVIOUS
    <3> HIDE DEF N
    <3>2. <<id>> \in Seq(N) /\ <<>> \in Seq(N)
      BY <3>1
    <3>3. QED
      BY <3>2 DEF N
  <2>2. walk[0].stack = <<id>> /\ walk[0].out = <<>> /\ walk[0] = [stack |-> <<id>>, out |-> <<>>]
    BY <1>4
  <2>3. SearchOK(g, walk[0])
    BY <2>1, <2>2 DEF SearchOK
  <2>4. QED
    BY <2>3
<1>6. ASSUME NEW k \in S PROVE k + 1 \in S
  <2>1. SUFFICES ASSUME k + 1 <= steps PROVE SearchOK(g, walk[k + 1])
    OBVIOUS
  <2>2. SearchOK(g, walk[k]) /\ k + 1 \in 1 .. steps /\ (k + 1) - 1 = k
    BY <1>1, <2>1
  <2>3. walk[k + 1] = follow(g, walk[k])
    BY <1>4, <2>2
  <2>4. QED
    BY <2>2, <2>3, FollowKeeps
<1>7. S = Nat
  <2> HIDE DEF S
  <2>1. S \in SUBSET Nat
    BY DEF S
  <2>2. QED
    BY <1>5, <1>6, <2>1, Induct
<1>8. SearchOK(g, walk[steps])
  BY <1>1, <1>7
<1>9. QED
  BY <1>2, <1>8 DEF SearchOK

-----------------------------------------------------------------------------
(* Heights. *)

\* Heights are numbers: a finite set of them has a greatest.
LEMMA MaxIs ==
    ASSUME NEW S \in SUBSET Int, IsFiniteSet(S), S # {}
    PROVE  Max(S) \in S
<1>1. PICK n \in Nat : \E f : f \in Bijection(1 .. n, S)
  <2>1. QED
    BY FS_NatBijection DEF ExistsBijection
<1>2. PICK f : f \in Bijection(1 .. n, S)
  BY <1>1
<1>3. f \in [1 .. n -> S] /\ \A x \in S : \E i \in 1 .. n : f[i] = x
  BY <1>2 DEF Bijection, Surjection, Injection
<1> DEFINE T == {k \in Nat : k \in 1 .. n => \E m \in 1 .. k : \A i \in 1 .. k : f[i] <= f[m]}
<1>4. 0 \in T
  OBVIOUS
<1>5. ASSUME NEW k \in T PROVE k + 1 \in T
  <2>1. SUFFICES ASSUME k + 1 \in 1 .. n
                 PROVE  \E m \in 1 .. k + 1 : \A i \in 1 .. k + 1 : f[i] <= f[m]
    OBVIOUS
  <2>2. \A i \in 1 .. k + 1 : f[i] \in Int
    <3>1. TAKE i \in 1 .. k + 1
    <3>2. i \in 1 .. n
      BY <2>1
    <3>3. f[i] \in S
      BY <1>3, <3>2
    <3>4. QED
      BY <3>3
  <2>3. CASE k = 0
    BY <2>2, <2>3
  <2>4. CASE k # 0
    <3>1. PICK m \in 1 .. k : \A i \in 1 .. k : f[i] <= f[m]
      BY <2>1, <2>4
    <3>2. CASE f[m] <= f[k + 1]
      <4>1. \A i \in 1 .. k + 1 : f[i] <= f[k + 1]
        BY <2>2, <3>1, <3>2
      <4>2. QED
        BY <4>1
    <3>3. CASE ~(f[m] <= f[k + 1])
      <4>1. \A i \in 1 .. k + 1 : f[i] <= f[m]
        BY <2>2, <3>1, <3>3
      <4>2. QED
        BY <4>1
    <3>4. QED
      BY <3>2, <3>3
  <2>5. QED
    BY <2>3, <2>4
<1>6. T = Nat
  <2> HIDE DEF T
  <2>1. T \in SUBSET Nat
    BY DEF T
  <2>2. QED
    BY <1>4, <1>5, <2>1, Induct
<1>7. n \in 1 .. n
  <2>1. PICK x \in S : TRUE
    OBVIOUS
  <2>2. PICK i \in 1 .. n : f[i] = x
    BY <1>3
  <2>3. QED
    BY <2>2
<1>8. PICK m \in 1 .. n : \A i \in 1 .. n : f[i] <= f[m]
  BY <1>6, <1>7
<1>9. f[m] \in S /\ \A x \in S : x <= f[m]
  BY <1>3, <1>8
<1>10. QED
  BY <1>9 DEF Max

\* Nodes 1 and 2 are the transaction and the policy of every graph opened.
Heighted(g) == \A id \in DOMAIN g.nodes : g.nodes[id].y \in Int

Framed(g) ==
    /\ GraphInv(g) /\ Heighted(g)
    /\ {1, 2} \subseteq DOMAIN g.nodes
    /\ g.nodes[1].type = "transaction" /\ g.nodes[2].type = "policy"

LEMMA EditHeights ==
    ASSUME GraphInv(graph), Heighted(graph), Edit
    PROVE  Heighted(graph')
<1>0. DOMAIN graph = {"nodes", "wires", "nextId", "nextWire"}
      /\ \A id \in DOMAIN graph.nodes : DOMAIN graph.nodes[id] = {"type", "y", "fields"}
  BY DEF GraphInv, Shaped
<1>1. CASE AddNode
  <2>1. PICK type \in Palette, y \in Heights : graph' = addNode(graph, type, y)
    BY <1>1 DEF AddNode
  <2>2. y \in Int
    BY EditsAssumption
  <2>3. CASE graph' = Put(graph, Node(type, y, Defaults[type]))
    BY <1>0, <2>2, <2>3 DEF Heighted, Put, Node, With
  <2>4. QED
    BY <2>1, <2>3 DEF addNode
<1>2. CASE MoveNode
  <2>1. PICK id \in DOMAIN graph.nodes, y \in Heights : graph' = moveNode(graph, id, y)
    BY <1>2 DEF MoveNode
  <2>2. y \in Int
    BY EditsAssumption
  <2>3. QED
    BY <1>0, <2>1, <2>2 DEF Heighted, moveNode, With
<1>3. CASE DeleteNode
  <2>1. PICK id \in DOMAIN graph.nodes : graph' = deleteNode(graph, id)
    BY <1>3 DEF DeleteNode
  <2>2. DOMAIN graph'.nodes \subseteq DOMAIN graph.nodes
        /\ \A x \in DOMAIN graph'.nodes : graph'.nodes[x] = graph.nodes[x]
    BY <1>0, <2>1 DEF deleteNode, Without
  <2>3. QED
    BY <2>2 DEF Heighted
<1>4. CASE SetField
  <2>1. PICK id \in DOMAIN graph.nodes, i \in DOMAIN Settings :
            graph' = setField(graph, id, Settings[i].key, Settings[i].value)
    BY <1>4 DEF SetField
  <2>2. QED
    BY <1>0, <2>1 DEF Heighted, setField, With
<1>5. CASE AddWire \/ DeleteWire
  <2>1. graph'.nodes = graph.nodes
    <3>1. \A wire : addWire(graph, wire).nodes = graph.nodes
      BY <1>0 DEF addWire, Join
    <3>2. \A w : deleteWire(graph, w).nodes = graph.nodes
      BY <1>0 DEF deleteWire
    <3>3. QED
      BY <1>5, <3>1, <3>2 DEF AddWire, DeleteWire
  <2>2. QED
    BY <2>1 DEF Heighted
<1>6. CASE AddScaffold
  <2> DEFINE ys == {graph.nodes[id].y : id \in DOMAIN graph.nodes}
             below == Max(ys) + 1
  <2>1. PICK route \in Routes : graph' = addScaffold(graph, route, Len(route.paths), below)
    BY <1>6 DEF AddScaffold
  <2>2. below \in Int
    <3>1. IsFiniteSet(ys)
      <4> DEFINE height == [id \in DOMAIN graph.nodes |-> graph.nodes[id].y]
      <4>1. height \in Surjection(DOMAIN graph.nodes, ys)
        BY DEF Surjection
      <4> HIDE DEF height, ys
      <4>2. QED
        BY <4>1, FiniteGraph, FS_Surjection
    <3>2. ys \in SUBSET Int
      BY DEF Heighted
    <3>3. ys # {}
      <4>1. "policy" \in NodeTypes /\ single("policy")
        BY DEF single, NodeTypes
      <4>2. PICK id \in DOMAIN graph.nodes : TRUE
        BY <4>1 DEF GraphInv, WiringOK
      <4>3. graph.nodes[id].y \in ys
        OBVIOUS
      <4>4. QED
        BY <4>3
    <3> HIDE DEF ys
    <3>4. Max(ys) \in Int
      BY <3>1, <3>2, <3>3, MaxIs
    <3>5. QED
      BY <3>4
  <2> HIDE DEF below
  <2>3. \A id \in DOMAIN graph'.nodes :
            \/ id \in DOMAIN graph.nodes /\ graph'.nodes[id] = graph.nodes[id]
            \/ graph'.nodes[id].y = below
    BY <2>1 DEF addScaffold, Node
  <2>4. QED
    BY <2>2, <2>3 DEF Heighted
<1>7. QED
  BY <1>1, <1>2, <1>3, <1>4, <1>5, <1>6 DEF Edit

-----------------------------------------------------------------------------
(* What decompile.ts draws, node by node. *)

\* Drawing a wire leaves the nodes as they are.
LEMMA JoinNodes ==
    ASSUME NEW g, GraphInv(g), NEW wire
    PROVE  /\ Join(g, wire).nodes = g.nodes /\ Join(g, wire).nextId = g.nextId
           /\ DOMAIN Join(g, wire).wires = DOMAIN g.wires \cup {g.nextWire}
           /\ Join(g, wire).wires[g.nextWire] = wire
           /\ \A w \in DOMAIN g.wires : Join(g, wire).wires[w] = g.wires[w]
<1>1. g.nextWire \notin DOMAIN g.wires
  BY SMT DEF GraphInv, WiringOK
<1>2. QED
  BY <1>1 DEF Join, With, GraphInv, Shaped

\* Putting a node leaves the rest as it is.
LEMMA PutNodes ==
    ASSUME NEW g, GraphInv(g), NEW node
    PROVE  /\ Put(g, node).wires = g.wires /\ Put(g, node).nextId = g.nextId + 1
           /\ DOMAIN Put(g, node).nodes = DOMAIN g.nodes \cup {g.nextId}
           /\ g.nextId \notin DOMAIN g.nodes /\ g.nextId \in Nat
           /\ Put(g, node).nodes[g.nextId] = node
           /\ \A id \in DOMAIN g.nodes : Put(g, node).nodes[id] = g.nodes[id]
<1>1. g.nextId \notin DOMAIN g.nodes /\ g.nextId \in Nat
  BY SMT DEF GraphInv, WiringOK
<1>2. QED
  BY <1>1 DEF Put, With, GraphInv, Shaped

\* No wire touches a node that is not there.
LEMMA WiresAt ==
    ASSUME NEW g, GraphInv(g), NEW w \in DOMAIN g.wires
    PROVE  g.wires[w].from \in DOMAIN g.nodes /\ g.wires[w].to \in DOMAIN g.nodes
BY DEF GraphInv, WiringOK, Connects

Addable(node) ==
    /\ DOMAIN node = {"type", "y", "fields"}
    /\ node.type \in NodeTypes /\ ~single(node.type) /\ node.y \in Int

LEMMA PutFramed ==
    ASSUME NEW g, Framed(g), NEW node, Addable(node)
    PROVE  Framed(Put(g, node))
<1>1. GraphInv(g) /\ Heighted(g) /\ node.y \in Int
  BY DEF Framed, Addable
<1>2. GraphInv(Put(g, node))
  BY <1>1, PutKeeps DEF Addable
<1>3. /\ DOMAIN Put(g, node).nodes = DOMAIN g.nodes \cup {g.nextId}
      /\ Put(g, node).nodes[g.nextId] = node
      /\ \A id \in DOMAIN g.nodes : Put(g, node).nodes[id] = g.nodes[id]
  BY <1>1, PutNodes
<1>4. Heighted(Put(g, node))
  BY <1>1, <1>3 DEF Heighted
<1>5. QED
  BY <1>2, <1>3, <1>4 DEF Framed

LEMMA JoinFramed ==
    ASSUME NEW g, Framed(g), NEW wire, Connects(g, wire),
           \A w \in DOMAIN g.wires : g.wires[w] # wire,
           \A w \in DOMAIN g.wires :
               (g.wires[w].to = wire.to /\ g.wires[w].key = wire.key)
                   => isMultiInput(g.nodes[wire.to].type, wire.key)
    PROVE  Framed(Join(g, wire))
<1>1. GraphInv(g)
  BY DEF Framed
<1>2. GraphInv(Join(g, wire))
  BY <1>1, JoinKeeps
<1>3. Join(g, wire).nodes = g.nodes
  BY <1>1, JoinNodes
<1>4. QED
  BY <1>2, <1>3 DEF Framed, Heighted

\* A new node with a wire to it from a node that fits.
LEMMA AttachFramed ==
    ASSUME NEW g, Framed(g), NEW node, Addable(node), NEW from \in DOMAIN g.nodes, NEW key,
           key \in InPorts(node.type), portsCompatible(g.nodes[from].type, node.type, key)
    PROVE  /\ Framed(Attach(g, node, from, key))
           /\ Attach(g, node, from, key).nextId = g.nextId + 1
           /\ DOMAIN Attach(g, node, from, key).nodes = DOMAIN g.nodes \cup {g.nextId}
           /\ g.nextId \notin DOMAIN g.nodes /\ g.nextId \in Nat
           /\ Attach(g, node, from, key).nodes[g.nextId] = node
           /\ \A id \in DOMAIN g.nodes : Attach(g, node, from, key).nodes[id] = g.nodes[id]
<1> DEFINE p == Put(g, node)
           wire == Wire(from, g.nextId, key)
<1>1. GraphInv(g)
  BY DEF Framed
<1>2. Framed(p)
  BY PutFramed
<1>3. /\ p.wires = g.wires /\ p.nextId = g.nextId + 1
      /\ DOMAIN p.nodes = DOMAIN g.nodes \cup {g.nextId}
      /\ g.nextId \notin DOMAIN g.nodes /\ g.nextId \in Nat
      /\ p.nodes[g.nextId] = node
      /\ \A id \in DOMAIN g.nodes : p.nodes[id] = g.nodes[id]
  BY <1>1, PutNodes
<1>4. wire.from = from /\ wire.to = g.nextId /\ wire.key = key
  BY DEF Wire
<1> HIDE DEF p, wire
<1>5. Connects(p, wire)
  BY <1>3, <1>4 DEF Connects
<1>6. \A w \in DOMAIN p.wires : p.wires[w].to # wire.to
  BY <1>1, <1>3, <1>4, WiresAt
<1>7. Framed(Join(p, wire))
  BY <1>2, <1>5, <1>6, JoinFramed
<1>8. Join(p, wire).nodes = p.nodes /\ Join(p, wire).nextId = p.nextId
  BY <1>2, JoinNodes DEF Framed
<1>9. Attach(g, node, from, key) = Join(p, wire)
  BY DEF Attach, p, wire
<1>10. QED
  BY <1>3, <1>7, <1>8, <1>9

-----------------------------------------------------------------------------
\* A rule that is being drawn: its route, and the nodes its decision needs.
RuleInv(r, s) ==
    /\ Framed(s.g)
    /\ r \in DOMAIN s.g.nodes /\ s.g.nodes[r].type = "routeif"
    /\ s.bools \in Seq(DOMAIN s.g.nodes)
    /\ \A i \in DOMAIN s.bools : OutType(s.g.nodes[s.bools[i]].type) = "bool"
    /\ \A i, j \in DOMAIN s.bools : s.bools[i] = s.bools[j] => i = j

\* One node more that the decision needs.
LEMMA RuleGrows ==
    ASSUME NEW r, NEW s, RuleInv(r, s), NEW g, Framed(g),
           DOMAIN s.g.nodes \subseteq DOMAIN g.nodes,
           \A id \in DOMAIN s.g.nodes : g.nodes[id] = s.g.nodes[id],
           NEW x \in DOMAIN g.nodes \ DOMAIN s.g.nodes, OutType(g.nodes[x].type) = "bool"
    PROVE  RuleInv(r, [g |-> g, bools |-> Append(s.bools, x)])
<1> DEFINE N == DOMAIN s.g.nodes
           M == DOMAIN g.nodes
           b == Append(s.bools, x)
<1>1. s.bools \in Seq(N) /\ N \subseteq M /\ x \in M /\ x \notin N
  BY DEF RuleInv
<1> HIDE DEF N, M
<1>2. s.bools \in Seq(M)
  BY <1>1
<1>3. /\ b \in Seq(M) /\ Len(s.bools) \in Nat
      /\ DOMAIN b = 1 .. Len(s.bools) + 1 /\ DOMAIN s.bools = 1 .. Len(s.bools)
      /\ b[Len(s.bools) + 1] = x
      /\ \A i \in 1 .. Len(s.bools) : b[i] = s.bools[i] /\ s.bools[i] \in N
  BY <1>1, <1>2
<1> HIDE DEF b
<1>4. \A i \in DOMAIN b : i \in DOMAIN s.bools \/ i = Len(s.bools) + 1
  BY <1>3
<1>5. \A i \in DOMAIN b : OutType(g.nodes[b[i]].type) = "bool"
  BY <1>3, <1>4 DEF RuleInv, N
<1>6. \A i, j \in DOMAIN b : b[i] = b[j] => i = j
  BY <1>1, <1>3, <1>4 DEF RuleInv
<1>7. r \in M /\ g.nodes[r].type = "routeif"
  BY DEF RuleInv, M
<1>8. QED
  BY <1>3, <1>5, <1>6, <1>7 DEF RuleInv, b, M

\* The types of the nodes of a test fit each other.
LEMMA TestPorts ==
    /\ "in" \in InPorts("getfield") /\ portsCompatible("routeif", "getfield", "in")
    /\ portsCompatible("lookup", "getfield", "in")
    /\ "tx" \in InPorts("lookup") /\ portsCompatible("transaction", "lookup", "tx")
    /\ \A type \in {"compare", "inlist", "contains"} :
          "a" \in InPorts(type) /\ portsCompatible("getfield", type, "a") /\ OutType(type) = "bool"
<1>1. /\ InPorts("getfield") = {"in"} /\ InPorts("lookup") = {"tx"}
      /\ \A type \in {"compare", "inlist", "contains"} : InPorts(type) = {"a"}
  BY DEF InPorts
<1>2. /\ OutType("routeif") = "tx" /\ OutType("transaction") = "tx"
      /\ OutType("lookup") = "val" /\ OutType("getfield") = "val"
      /\ \A type \in {"compare", "inlist", "contains"} : OutType(type) = "bool"
  BY DEF OutType
<1>3. /\ InType("getfield", "in") = "val" /\ InType("lookup", "tx") = "tx"
      /\ \A type \in {"compare", "inlist", "contains"} : InType(type, "a") = "val"
  BY DEF InType
<1>4. QED
  BY <1>1, <1>2, <1>3 DEF portsCompatible

LEMMA NodeIsAddable ==
    ASSUME NEW type \in NodeTypes \ {"transaction", "policy"}, NEW y \in Int, NEW fields
    PROVE  Addable(Node(type, y, fields)) /\ Node(type, y, fields).type = type
BY DEF Addable, Node, single

LEMMA AddConditionKeeps ==
    ASSUME NEW r, NEW s, RuleInv(r, s), NEW path, NEW c
    PROVE  RuleInv(r, AddCondition(s, r, path, c))
<1> DEFINE field == s.g.nextId
           node == Node("getfield", 0, [path |-> path])
           g1 == Attach(s.g, node, r, "in")
           test == IF c.op \in {"in", "notIn"}
               THEN Node("inlist", 0, [mode |-> IF c.op = "in" THEN "in" ELSE "notin", list |-> c.arg])
               ELSE Node("compare", 0, [op |-> c.op, value |-> c.arg[1]])
           g2 == Attach(g1, test, field, "a")
<1>1. AddCondition(s, r, path, c) = [g |-> g2, bools |-> Append(s.bools, field + 1)]
  BY DEF AddCondition, matchCondition
<1>2. Addable(node) /\ node.type = "getfield"
  <2>1. "getfield" \in NodeTypes
    BY DEF NodeTypes
  <2>2. QED
    BY <2>1, NodeIsAddable
<1>3. Addable(test) /\ test.type \in {"compare", "inlist", "contains"}
  <2>1. {"inlist", "compare"} \subseteq NodeTypes
    BY DEF NodeTypes
  <2>2. QED
    BY <2>1, NodeIsAddable
<1> HIDE DEF node, test
<1>4. Framed(s.g) /\ r \in DOMAIN s.g.nodes /\ s.g.nodes[r].type = "routeif"
  BY DEF RuleInv
<1>5. /\ Framed(g1) /\ g1.nextId = field + 1
      /\ DOMAIN g1.nodes = DOMAIN s.g.nodes \cup {field}
      /\ field \notin DOMAIN s.g.nodes /\ field \in Nat
      /\ g1.nodes[field] = node
      /\ \A id \in DOMAIN s.g.nodes : g1.nodes[id] = s.g.nodes[id]
  BY <1>2, <1>4, TestPorts, AttachFramed
<1> HIDE DEF g1
<1>6. /\ Framed(g2)
      /\ DOMAIN g2.nodes = DOMAIN g1.nodes \cup {field + 1}
      /\ field + 1 \notin DOMAIN g1.nodes
      /\ g2.nodes[field + 1] = test
      /\ \A id \in DOMAIN g1.nodes : g2.nodes[id] = g1.nodes[id]
  BY <1>2, <1>3, <1>5, TestPorts, AttachFramed
<1> HIDE DEF g2
<1>7. OutType(g2.nodes[field + 1].type) = "bool"
  BY <1>3, <1>6, TestPorts
<1>8. /\ DOMAIN s.g.nodes \subseteq DOMAIN g2.nodes
      /\ \A id \in DOMAIN s.g.nodes : g2.nodes[id] = s.g.nodes[id]
      /\ field + 1 \in DOMAIN g2.nodes \ DOMAIN s.g.nodes
  BY <1>5, <1>6
<1> HIDE DEF field
<1>9. QED
  BY <1>1, <1>6, <1>7, <1>8, RuleGrows

LEMMA AddProviderKeeps ==
    ASSUME NEW r, NEW s, RuleInv(r, s), NEW p
    PROVE  RuleInv(r, AddProvider(s, p))
<1>1. CASE p.op # "contains"
  BY <1>1 DEF AddProvider
<1>2. CASE p.op = "contains"
  <2> DEFINE l == s.g.nextId
             lookup == Node("lookup", 0, [mode |-> "table", table |-> p.table, key |-> p.key])
             field == Node("getfield", 0, [path |-> "allowed"])
             test == Node("contains", 0, [value |-> p.value])
             g1 == Attach(s.g, lookup, 1, "tx")
             g2 == Attach(g1, field, l, "in")
             g3 == Attach(g2, test, l + 1, "a")
  <2>1. AddProvider(s, p) = [g |-> g3, bools |-> Append(s.bools, l + 2)]
    BY <1>2 DEF AddProvider
  <2>2. /\ Addable(lookup) /\ lookup.type = "lookup"
        /\ Addable(field) /\ field.type = "getfield"
        /\ Addable(test) /\ test.type = "contains"
    <3>1. {"lookup", "getfield", "contains"} \subseteq NodeTypes
      BY DEF NodeTypes
    <3>2. QED
      BY <3>1, NodeIsAddable
  <2> HIDE DEF lookup, field, test
  <2>3. Framed(s.g) /\ 1 \in DOMAIN s.g.nodes /\ s.g.nodes[1].type = "transaction"
    BY DEF RuleInv, Framed
  <2>4. /\ Framed(g1) /\ g1.nextId = l + 1
        /\ DOMAIN g1.nodes = DOMAIN s.g.nodes \cup {l}
        /\ l \notin DOMAIN s.g.nodes /\ l \in Nat
        /\ g1.nodes[l] = lookup
        /\ \A id \in DOMAIN s.g.nodes : g1.nodes[id] = s.g.nodes[id]
    BY <2>2, <2>3, TestPorts, AttachFramed
  <2> HIDE DEF g1
  <2>5. /\ Framed(g2) /\ g2.nextId = (l + 1) + 1
        /\ DOMAIN g2.nodes = DOMAIN g1.nodes \cup {l + 1}
        /\ l + 1 \notin DOMAIN g1.nodes
        /\ g2.nodes[l + 1] = field
        /\ \A id \in DOMAIN g1.nodes : g2.nodes[id] = g1.nodes[id]
    BY <2>2, <2>4, TestPorts, AttachFramed
  <2> HIDE DEF g2
  <2>6. (l + 1) + 1 = l + 2
    BY <2>4
  <2>7. /\ Framed(g3)
        /\ DOMAIN g3.nodes = DOMAIN g2.nodes \cup {l + 2}
        /\ l + 2 \notin DOMAIN g2.nodes
        /\ g3.nodes[l + 2] = test
        /\ \A id \in DOMAIN g2.nodes : g3.nodes[id] = g2.nodes[id]
    BY <2>2, <2>5, <2>6, TestPorts, AttachFramed
  <2> HIDE DEF g3
  <2>8. OutType(g3.nodes[l + 2].type) = "bool"
    BY <2>2, <2>7, TestPorts
  <2>9. /\ DOMAIN s.g.nodes \subseteq DOMAIN g3.nodes
        /\ \A id \in DOMAIN s.g.nodes : g3.nodes[id] = s.g.nodes[id]
        /\ l + 2 \in DOMAIN g3.nodes \ DOMAIN s.g.nodes
    BY <2>4, <2>5, <2>7
  <2> HIDE DEF l
  <2>10. QED
    BY <2>1, <2>7, <2>8, <2>9, RuleGrows
<1>3. QED
  BY <1>1, <1>2

LEMMA AddTestKeeps ==
    ASSUME NEW r, NEW s, RuleInv(r, s), NEW rule, NEW n
    PROVE  RuleInv(r, AddTest(s, r, rule, n))
BY AddConditionKeeps, AddProviderKeeps DEF AddTest

\* The conditions and requirements drawn one after the other.
TestsFrom(n, g, r, rule, f) ==
    f = [k \in 0 .. n |-> IF k = 0 THEN [g |-> g, bools |-> <<>>] ELSE AddTest(f[k - 1], r, rule, k)]

LEMMA TestsExist ==
    ASSUME NEW g, NEW r, NEW rule, NEW n \in Nat
    PROVE  \E f : TestsFrom(n, g, r, rule, f)
<1> DEFINE S == {k \in Nat : \E f : TestsFrom(k, g, r, rule, f)}
<1>1. 0 \in S
  <2>1. TestsFrom(0, g, r, rule, [k \in 0 .. 0 |-> [g |-> g, bools |-> <<>>]])
    BY DEF TestsFrom
  <2>2. QED
    BY <2>1
<1>2. ASSUME NEW m \in S PROVE m + 1 \in S
  <2>1. PICK f : TestsFrom(m, g, r, rule, f)
    OBVIOUS
  <2> DEFINE last == AddTest(f[m], r, rule, m + 1)
             h == [k \in 0 .. m + 1 |-> IF k = m + 1 THEN last ELSE f[k]]
  <2>2. m \in Nat
    OBVIOUS
  <2>3. \A k \in 0 .. m + 1 : h[k] = IF k = m + 1 THEN last ELSE f[k]
    OBVIOUS
  <2> HIDE DEF h
  <2>4. ASSUME NEW k \in 0 .. m + 1
        PROVE  h[k] = IF k = 0 THEN [g |-> g, bools |-> <<>>] ELSE AddTest(h[k - 1], r, rule, k)
    <3>1. CASE k = m + 1
      <4>1. k # 0 /\ k - 1 = m /\ m \in 0 .. m + 1 /\ m # m + 1
        BY <2>2, <3>1
      <4>2. h[k] = last /\ h[k - 1] = f[m]
        BY <2>3, <3>1, <4>1
      <4>3. QED
        BY <3>1, <4>1, <4>2
    <3>2. CASE k # m + 1
      <4>1. k \in 0 .. m
        BY <2>2, <3>2
      <4>2. f[k] = IF k = 0 THEN [g |-> g, bools |-> <<>>] ELSE AddTest(f[k - 1], r, rule, k)
        BY <2>1, <4>1 DEF TestsFrom
      <4>3. h[k] = f[k]
        BY <2>3, <3>2
      <4>4. k # 0 => k - 1 \in 0 .. m + 1 /\ k - 1 # m + 1
        BY <2>2, <4>1
      <4>5. k # 0 => h[k - 1] = f[k - 1]
        BY <2>3, <4>4
      <4>6. QED
        BY <4>2, <4>3, <4>5
    <3>3. QED
      BY <3>1, <3>2
  <2>5. h = [k \in 0 .. m + 1 |-> h[k]]
    BY DEF h
  <2>6. h = [k \in 0 .. m + 1 |-> IF k = 0 THEN [g |-> g, bools |-> <<>>] ELSE AddTest(h[k - 1], r, rule, k)]
    BY <2>4, <2>5
  <2>7. TestsFrom(m + 1, g, r, rule, h)
    BY <2>6 DEF TestsFrom
  <2>8. QED
    BY <2>2, <2>7
<1>3. S = Nat
  <2> HIDE DEF S
  <2>1. S \in SUBSET Nat
    BY DEF S
  <2>2. QED
    BY <1>1, <1>2, <2>1, Induct
<1>4. QED
  BY <1>3

LEMMA TestedIs ==
    ASSUME NEW g, NEW r, NEW rule, Framed(g), r \in DOMAIN g.nodes, g.nodes[r].type = "routeif",
           rule.providers \in Seq(ToSet(rule.providers))
    PROVE  RuleInv(r, Tested(g, r, rule))
<1> DEFINE tests == Len(TestedPaths(rule)) + Len(rule.providers)
           tested == CHOOSE f : TestsFrom(tests, g, r, rule, f)
<1>1. tests \in Nat
  <2>1. Len(TestedPaths(rule)) \in Nat
    <3> DEFINE S == {c.path : c \in rule.match} \cap (FieldPaths \ {"contract", "action"})
    <3>1. IsFiniteSet(ToSet(MatchOrder))
      <4> DEFINE D == 1 .. Len(MatchOrder)
      <4>1. Len(MatchOrder) \in Nat /\ DOMAIN MatchOrder = D
        BY PathsAssumption
      <4>2. IsFiniteSet(D)
        BY <4>1, FS_Interval
      <4>3. [i \in D |-> MatchOrder[i]] \in Surjection(D, ToSet(MatchOrder))
        BY <4>1 DEF Surjection, ToSet
      <4> HIDE DEF D
      <4>4. QED
        BY <4>2, <4>3, FS_Surjection
    <3>2. S \in SUBSET ToSet(MatchOrder)
      BY PathsAssumption
    <3>3. Cardinality(S) \in Nat
      BY <3>1, <3>2, FS_Subset, FS_CardinalityType
    <3> DEFINE before == [path \in S |-> {p \in S : Place(p) < Place(path)}]
    <3>5. TestedPaths(rule) = Sorted(S, before)
      BY DEF TestedPaths
    <3> HIDE DEF S, before
    <3>6. QED
      BY <3>3, <3>5 DEF Sorted
  <2>2. Len(rule.providers) \in Nat
    OBVIOUS
  <2>3. QED
    BY <2>1, <2>2
<1>2. Tested(g, r, rule) = tested[tests]
  BY DEF Tested, TestsFrom
<1>3. TestsFrom(tests, g, r, rule, tested)
  BY <1>1, TestsExist
<1> HIDE DEF tests, tested
<1>4. /\ tested[0] = [g |-> g, bools |-> <<>>]
      /\ \A k \in 1 .. tests : tested[k] = AddTest(tested[k - 1], r, rule, k)
  BY <1>1, <1>3 DEF TestsFrom
<1> DEFINE S == {k \in Nat : k <= tests => RuleInv(r, tested[k])}
<1>5. 0 \in S
  <2>1. tested[0].g = g /\ tested[0].bools = <<>>
    BY <1>4
  <2> DEFINE N == DOMAIN g.nodes
  <2>2. <<>> \in Seq(N)
    OBVIOUS
  <2>3. RuleInv(r, tested[0])
    BY <2>1, <2>2 DEF RuleInv
  <2>4. QED
    BY <2>3
<1>6. ASSUME NEW k \in S PROVE k + 1 \in S
  <2>1. SUFFICES ASSUME k + 1 <= tests PROVE RuleInv(r, tested[k + 1])
    OBVIOUS
  <2>2. RuleInv(r, tested[k]) /\ k + 1 \in 1 .. tests /\ (k + 1) - 1 = k
    BY <1>1, <2>1
  <2>3. tested[k + 1] = AddTest(tested[k], r, rule, k + 1)
    BY <1>4, <2>2
  <2>4. QED
    BY <2>2, <2>3, AddTestKeeps
<1>7. S = Nat
  <2> HIDE DEF S
  <2>1. S \in SUBSET Nat
    BY DEF S
  <2>2. QED
    BY <1>5, <1>6, <2>1, Induct
<1>8. QED
  BY <1>1, <1>2, <1>7

\* The wires to a conjunction drawn one after the other.
WiresFrom(n, g, bools, f) ==
    f = [k \in 0 .. n |-> IF k = 0 THEN g ELSE Join(f[k - 1], Wire(bools[k], g.nextId - 1, "in"))]

LEMMA WiresExist ==
    ASSUME NEW g, NEW bools, NEW n \in Nat
    PROVE  \E f : WiresFrom(n, g, bools, f)
<1> DEFINE S == {k \in Nat : \E f : WiresFrom(k, g, bools, f)}
<1>1. 0 \in S
  <2>1. WiresFrom(0, g, bools, [k \in 0 .. 0 |-> g])
    BY DEF WiresFrom
  <2>2. QED
    BY <2>1
<1>2. ASSUME NEW m \in S PROVE m + 1 \in S
  <2>1. PICK f : WiresFrom(m, g, bools, f)
    OBVIOUS
  <2> DEFINE last == Join(f[m], Wire(bools[m + 1], g.nextId - 1, "in"))
             h == [k \in 0 .. m + 1 |-> IF k = m + 1 THEN last ELSE f[k]]
  <2>2. m \in Nat
    OBVIOUS
  <2>3. \A k \in 0 .. m + 1 : h[k] = IF k = m + 1 THEN last ELSE f[k]
    OBVIOUS
  <2> HIDE DEF h
  <2>4. ASSUME NEW k \in 0 .. m + 1
        PROVE  h[k] = IF k = 0 THEN g ELSE Join(h[k - 1], Wire(bools[k], g.nextId - 1, "in"))
    <3>1. CASE k = m + 1
      <4>1. k # 0 /\ k - 1 = m /\ m \in 0 .. m + 1 /\ m # m + 1
        BY <2>2, <3>1
      <4>2. h[k] = last /\ h[k - 1] = f[m]
        BY <2>3, <3>1, <4>1
      <4>3. QED
        BY <3>1, <4>1, <4>2
    <3>2. CASE k # m + 1
      <4>1. k \in 0 .. m
        BY <2>2, <3>2
      <4>2. f[k] = IF k = 0 THEN g ELSE Join(f[k - 1], Wire(bools[k], g.nextId - 1, "in"))
        BY <2>1, <4>1 DEF WiresFrom
      <4>3. h[k] = f[k]
        BY <2>3, <3>2
      <4>4. k # 0 => k - 1 \in 0 .. m + 1 /\ k - 1 # m + 1
        BY <2>2, <4>1
      <4>5. k # 0 => h[k - 1] = f[k - 1]
        BY <2>3, <4>4
      <4>6. QED
        BY <4>2, <4>3, <4>5
    <3>3. QED
      BY <3>1, <3>2
  <2>5. h = [k \in 0 .. m + 1 |-> h[k]]
    BY DEF h
  <2>6. h = [k \in 0 .. m + 1 |-> IF k = 0 THEN g ELSE Join(h[k - 1], Wire(bools[k], g.nextId - 1, "in"))]
    BY <2>4, <2>5
  <2>7. WiresFrom(m + 1, g, bools, h)
    BY <2>6 DEF WiresFrom
  <2>8. QED
    BY <2>2, <2>7
<1>3. S = Nat
  <2> HIDE DEF S
  <2>1. S \in SUBSET Nat
    BY DEF S
  <2>2. QED
    BY <1>1, <1>2, <2>1, Induct
<1>4. QED
  BY <1>3

\* A decision that is being wired up: nothing but its condition so far.
Deciding(g, d) ==
    /\ Framed(g) /\ d \in DOMAIN g.nodes /\ g.nodes[d].type = "decision"
    /\ \A w \in DOMAIN g.wires : /\ g.wires[w].from # d
                                 /\ g.wires[w].to = d => g.wires[w].key = "cond"

\* All of bools are wired to the conjunction that was put last.
LEMMA WireAllIs ==
    ASSUME NEW g, NEW bools, Framed(g), NEW and \in DOMAIN g.nodes, and = g.nextId - 1,
           g.nodes[and].type = "booland", NEW d, Deciding(g, d), d # and,
           bools \in Seq(DOMAIN g.nodes),
           \A i \in DOMAIN bools : OutType(g.nodes[bools[i]].type) = "bool" /\ bools[i] # and,
           \A i, j \in DOMAIN bools : bools[i] = bools[j] => i = j,
           \A w \in DOMAIN g.wires : g.wires[w].from # and /\ g.wires[w].to \notin {and, d}
    PROVE  /\ Deciding(WireAll(g, bools), d) /\ WireAll(g, bools).nodes = g.nodes
           /\ \A w \in DOMAIN WireAll(g, bools).wires : WireAll(g, bools).wires[w].to # d
<1> DEFINE n == Len(bools)
           wired == CHOOSE f : WiresFrom(n, g, bools, f)
           wire(k) == Wire(bools[k], and, "in")
<1>1. n \in Nat /\ DOMAIN bools = 1 .. n
  OBVIOUS
<1>2. WireAll(g, bools) = wired[n]
  BY DEF WireAll, WiresFrom
<1>3. WiresFrom(n, g, bools, wired)
  BY <1>1, WiresExist
<1> HIDE DEF wired
<1>4. wired[0] = g /\ \A k \in 1 .. n : wired[k] = Join(wired[k - 1], wire(k))
  BY <1>1, <1>3 DEF WiresFrom
<1> DEFINE Inv(k, h) ==
        /\ Framed(h) /\ h.nodes = g.nodes /\ h.nextId = g.nextId
        /\ \A w \in DOMAIN h.wires :
              /\ h.wires[w].from \notin {and, d} /\ h.wires[w].to # d
              /\ h.wires[w].to = and => \E j \in 1 .. k : h.wires[w].from = bools[j]
           S == {k \in Nat : k <= n => Inv(k, wired[k])}
<1>5. 0 \in S
  <2>1. wired[0] = g
    BY <1>4
  <2>2. Inv(0, g)
    BY DEF Deciding
  <2>3. QED
    BY <2>1, <2>2
<1>6. ASSUME NEW k \in S PROVE k + 1 \in S
  <2>1. SUFFICES ASSUME k + 1 <= n PROVE Inv(k + 1, wired[k + 1])
    OBVIOUS
  <2>2. Inv(k, wired[k]) /\ k \in Nat /\ k + 1 \in 1 .. n /\ (k + 1) - 1 = k
    BY <1>1, <2>1
  <2> DEFINE h == wired[k]
             b == bools[k + 1]
             x == Wire(b, and, "in")
  <2>3. wired[k + 1] = Join(h, x)
    BY <1>4, <2>2
  <2>4. x.from = b /\ x.to = and /\ x.key = "in"
    BY DEF Wire
  <2>5. b \in DOMAIN g.nodes /\ OutType(g.nodes[b].type) = "bool" /\ b # and
    BY <1>1, <2>2
  <2>6. b # d
    BY <2>5 DEF Deciding, OutType
  <2> HIDE DEF wired, x
  <2>7. Connects(h, x)
    <3>1. "in" \in InPorts("booland") /\ InType("booland", "in") = "bool"
      BY DEF InPorts, InType
    <3>2. QED
      BY <2>2, <2>4, <2>5, <3>1 DEF Connects, portsCompatible
  <2>8. \A w \in DOMAIN h.wires : h.wires[w] # x
    <3>1. SUFFICES ASSUME NEW w \in DOMAIN h.wires, h.wires[w] = x PROVE FALSE
      OBVIOUS
    <3>2. PICK j \in 1 .. k : b = bools[j]
      BY <2>2, <2>4, <3>1
    <3>3. j \in DOMAIN bools /\ k + 1 \in DOMAIN bools /\ j # k + 1
      BY <1>1, <2>2
    <3>4. QED
      BY <3>2, <3>3
  <2>9. isMultiInput(h.nodes[x.to].type, x.key)
    BY <2>2, <2>4 DEF isMultiInput
  <2>10. Framed(Join(h, x))
    BY <2>2, <2>7, <2>8, <2>9, JoinFramed
  <2>11. /\ Join(h, x).nodes = h.nodes /\ Join(h, x).nextId = h.nextId
         /\ DOMAIN Join(h, x).wires = DOMAIN h.wires \cup {h.nextWire}
         /\ Join(h, x).wires[h.nextWire] = x
         /\ \A w \in DOMAIN h.wires : Join(h, x).wires[w] = h.wires[w]
    BY <2>2, JoinNodes DEF Framed
  <2>12. k + 1 \in 1 .. k + 1 /\ 1 .. k \subseteq 1 .. k + 1
    BY <2>2
  <2> DEFINE j == Join(h, x)
  <2> HIDE DEF h, b, j
  <2>13. ASSUME NEW w \in DOMAIN j.wires
         PROVE  /\ j.wires[w].from \notin {and, d} /\ j.wires[w].to # d
                /\ j.wires[w].to = and => \E i \in 1 .. k + 1 : j.wires[w].from = bools[i]
    <3>1. CASE j.wires[w] = x
      BY <2>4, <2>5, <2>6, <2>12, <3>1 DEF b
    <3>2. CASE w \in DOMAIN h.wires /\ j.wires[w] = h.wires[w]
      BY <2>2, <2>12, <3>2 DEF h
    <3>3. QED
      BY <2>11, <3>1, <3>2 DEF j
  <2>14. Framed(j) /\ j.nodes = g.nodes /\ j.nextId = g.nextId
    BY <2>2, <2>10, <2>11 DEF j, h
  <2>15. QED
    BY <2>3, <2>13, <2>14 DEF j
<1>7. S = Nat
  <2> HIDE DEF S
  <2>1. S \in SUBSET Nat
    BY DEF S
  <2>2. QED
    BY <1>5, <1>6, <2>1, Induct
<1>8. Inv(n, wired[n])
  BY <1>1, <1>7
<1>9. QED
  BY <1>2, <1>8 DEF Deciding

\* A wire to the condition of a decision that has none.
LEMMA ConditionKeeps ==
    ASSUME NEW g, NEW d, Deciding(g, d), NEW b \in DOMAIN g.nodes, b # d,
           OutType(g.nodes[b].type) = "bool",
           \A w \in DOMAIN g.wires : g.wires[w].to # d
    PROVE  /\ Deciding(Join(g, Wire(b, d, "cond")), d)
           /\ Join(g, Wire(b, d, "cond")).nodes = g.nodes
<1> DEFINE x == Wire(b, d, "cond")
           j == Join(g, x)
<1>1. x.from = b /\ x.to = d /\ x.key = "cond"
  BY DEF Wire
<1> HIDE DEF x
<1>2. Connects(g, x)
  <2>1. "cond" \in InPorts("decision") /\ InType("decision", "cond") = "bool"
    BY DEF InPorts, InType
  <2>2. QED
    BY <1>1, <2>1 DEF Deciding, Connects, portsCompatible
<1>3. Framed(j)
  BY <1>1, <1>2, JoinFramed DEF Deciding
<1>4. /\ j.nodes = g.nodes
      /\ DOMAIN j.wires = DOMAIN g.wires \cup {g.nextWire}
      /\ j.wires[g.nextWire] = x
      /\ \A w \in DOMAIN g.wires : j.wires[w] = g.wires[w]
  BY JoinNodes DEF Deciding, Framed
<1> HIDE DEF j
<1>5. Deciding(j, d)
  BY <1>1, <1>3, <1>4 DEF Deciding
<1>6. QED
  BY <1>4, <1>5 DEF j, x

\* The wires of a decision to its route and to the policy.
LEMMA RouteKeeps ==
    ASSUME NEW g, NEW d, Deciding(g, d), NEW r \in DOMAIN g.nodes, g.nodes[r].type = "routeif"
    PROVE  Framed(Join(Join(g, Wire(r, d, "tx")), Wire(d, 2, "in")))
<1> DEFINE x == Wire(r, d, "tx")
           j == Join(g, x)
           y == Wire(d, 2, "in")
<1>1. x.from = r /\ x.to = d /\ x.key = "tx" /\ y.from = d /\ y.to = 2 /\ y.key = "in"
  BY DEF Wire
<1> HIDE DEF x, y
<1>2. Framed(g) /\ d \in DOMAIN g.nodes /\ g.nodes[d].type = "decision" /\ r # d
      /\ 2 \in DOMAIN g.nodes /\ g.nodes[2].type = "policy" /\ d # 2
  BY DEF Deciding, Framed
<1>3. Connects(g, x)
  BY <1>1, <1>2, BranchPorts DEF Connects
<1>4. \A w \in DOMAIN g.wires : ~(g.wires[w].to = x.to /\ g.wires[w].key = x.key)
  BY <1>1 DEF Deciding
<1>5. Framed(j)
  BY <1>2, <1>3, <1>4, JoinFramed
<1>6. /\ j.nodes = g.nodes
      /\ DOMAIN j.wires = DOMAIN g.wires \cup {g.nextWire}
      /\ j.wires[g.nextWire] = x
      /\ \A w \in DOMAIN g.wires : j.wires[w] = g.wires[w]
  BY <1>2, JoinNodes DEF Framed
<1> HIDE DEF j
<1>7. Connects(j, y)
  BY <1>1, <1>2, <1>6, BranchPorts DEF Connects
<1>8. \A w \in DOMAIN j.wires : j.wires[w] # y
  BY <1>1, <1>2, <1>6 DEF Deciding
<1>9. isMultiInput(j.nodes[y.to].type, y.key)
  BY <1>1, <1>2, <1>6 DEF isMultiInput
<1>10. Framed(Join(j, y))
  BY <1>5, <1>7, <1>8, <1>9, JoinFramed
<1>11. QED
  BY <1>10 DEF j, x, y

-----------------------------------------------------------------------------
\* decompileRule draws a rule on what is there.
LEMMA DecompileRuleKeeps ==
    ASSUME NEW g, Framed(g), NEW rule, NEW i \in Int,
           rule.providers \in Seq(ToSet(rule.providers))
    PROVE  Framed(decompileRule(g, rule, i))
<1> DEFINE r == g.nextId
           route == Node("routeif", 0, [contract |-> Named(rule, "contract", "eosio.token"),
                                        action |-> Named(rule, "action", "transfer")])
           routed == Attach(g, route, 1, "tx")
           tested == Tested(routed, r, rule)
           bools == tested.bools
           d == tested.g.nextId
           decision == Node("decision", i, decisionFields(rule))
           decided == Put(tested.g, decision)
           and == Node("booland", 0, Defaults["booland"])
           anded == Put(decided, and)
           combined ==
               IF bools = <<>> THEN decided
               ELSE IF Len(bools) = 1 THEN Join(decided, Wire(bools[1], d, "cond"))
               ELSE Join(WireAll(anded, bools), Wire(d + 1, d, "cond"))
<1>1. CASE rule.match = {}
  BY <1>1 DEF decompileRule
<1>2. CASE rule.match # {}
  <2>1. decompileRule(g, rule, i) = Join(Join(combined, Wire(r, d, "tx")), Wire(d, 2, "in"))
    BY <1>2 DEF decompileRule
  <2>2. /\ Addable(route) /\ route.type = "routeif"
        /\ Addable(decision) /\ decision.type = "decision"
        /\ Addable(and) /\ and.type = "booland"
    <3>1. {"routeif", "decision", "booland"} \subseteq NodeTypes
      BY DEF NodeTypes
    <3>2. QED
      BY <3>1, NodeIsAddable
  <2> HIDE DEF route, decision, and
  <2>3. 1 \in DOMAIN g.nodes /\ g.nodes[1].type = "transaction"
    BY DEF Framed
  <2>4. Framed(routed) /\ r \in DOMAIN routed.nodes /\ routed.nodes[r].type = "routeif"
    BY <2>2, <2>3, BranchPorts, AttachFramed
  <2> HIDE DEF r, routed
  <2>5. RuleInv(r, tested)
    BY <2>4, TestedIs
  <2> HIDE DEF tested
  <2>6. /\ Framed(tested.g) /\ GraphInv(tested.g) /\ bools \in Seq(DOMAIN tested.g.nodes)
        /\ r \in DOMAIN tested.g.nodes /\ tested.g.nodes[r].type = "routeif"
    BY <2>5 DEF RuleInv, Framed
  <2>7. /\ decided.wires = tested.g.wires /\ decided.nextId = d + 1
        /\ DOMAIN decided.nodes = DOMAIN tested.g.nodes \cup {d}
        /\ d \notin DOMAIN tested.g.nodes /\ d \in Nat
        /\ decided.nodes[d] = decision
        /\ \A id \in DOMAIN tested.g.nodes : decided.nodes[id] = tested.g.nodes[id]
    BY <2>6, PutNodes
  <2>8. Framed(decided)
    BY <2>2, <2>6, PutFramed
  <2> HIDE DEF decided
  <2>9. \A w \in DOMAIN decided.wires : decided.wires[w].from # d /\ decided.wires[w].to # d
    BY <2>6, <2>7, WiresAt
  <2>10. Deciding(decided, d)
    BY <2>2, <2>7, <2>8, <2>9 DEF Deciding
  <2>11. \A k \in DOMAIN bools : /\ bools[k] \in DOMAIN decided.nodes /\ bools[k] # d
                                 /\ bools[k] \in DOMAIN tested.g.nodes
                                 /\ OutType(decided.nodes[bools[k]].type) = "bool"
    <3>1. \A k \in DOMAIN bools : bools[k] \in DOMAIN tested.g.nodes
      BY <2>6
    <3>2. QED
      BY <2>5, <2>7, <3>1 DEF RuleInv
  <2>12. Deciding(combined, d) /\ r \in DOMAIN combined.nodes /\ combined.nodes[r].type = "routeif"
    <3>1. CASE bools = <<>>
      BY <2>6, <2>7, <2>10, <3>1
    <3>2. CASE bools # <<>> /\ Len(bools) = 1
      <4>1. combined = Join(decided, Wire(bools[1], d, "cond"))
        BY <3>2
      <4>2. 1 \in DOMAIN bools
        BY <3>2, <2>6
      <4> HIDE DEF bools, d
      <4>3. Deciding(combined, d) /\ combined.nodes = decided.nodes
        BY <2>9, <2>10, <2>11, <4>1, <4>2, ConditionKeeps
      <4>4. QED
        BY <2>6, <2>7, <4>3
    <3>3. CASE bools # <<>> /\ Len(bools) # 1
      <4>1. /\ anded.wires = decided.wires /\ anded.nextId = (d + 1) + 1
            /\ DOMAIN anded.nodes = DOMAIN decided.nodes \cup {d + 1}
            /\ d + 1 \notin DOMAIN decided.nodes
            /\ anded.nodes[d + 1] = and
            /\ \A id \in DOMAIN decided.nodes : anded.nodes[id] = decided.nodes[id]
        BY <2>7, <2>8, PutNodes DEF Framed
      <4>2. Framed(anded)
        BY <2>2, <2>8, PutFramed
      <4>3. d + 1 = anded.nextId - 1 /\ d # d + 1
        BY <2>7, <4>1
      <4>4. Deciding(anded, d)
        BY <2>7, <2>9, <2>10, <4>1, <4>2 DEF Deciding
      <4>5. \A w \in DOMAIN anded.wires :
                anded.wires[w].from # d + 1 /\ anded.wires[w].to \notin {d + 1, d}
        BY <2>8, <2>9, <4>1, WiresAt DEF Framed
      <4>6. combined = Join(WireAll(anded, bools), Wire(d + 1, d, "cond"))
        BY <3>3
      <4> DEFINE all == WireAll(anded, bools)
                 a == d + 1
                 N == DOMAIN tested.g.nodes
                 M == DOMAIN anded.nodes
      <4> HIDE DEF anded, combined, a
      <4>7. bools \in Seq(M)
        <5>1. N \subseteq M /\ bools \in Seq(N)
          BY <2>6, <2>7, <4>1
        <5> HIDE DEF N, M
        <5>2. QED
          BY <5>1
      <4>8. \A k \in DOMAIN bools : OutType(anded.nodes[bools[k]].type) = "bool" /\ bools[k] # a
        BY <2>11, <4>1 DEF a
      <4>9. \A k, j \in DOMAIN bools : bools[k] = bools[j] => k = j
        BY <2>5 DEF RuleInv
      <4>10. a \in DOMAIN anded.nodes /\ anded.nodes[a].type = "booland"
             /\ a = anded.nextId - 1 /\ d # a
        BY <2>2, <4>1, <4>3 DEF a
      <4>11. \A w \in DOMAIN anded.wires : anded.wires[w].from # a /\ anded.wires[w].to \notin {a, d}
        BY <4>5 DEF a
      <4> HIDE DEF bools, d
      <4>12. /\ Deciding(all, d) /\ all.nodes = anded.nodes
             /\ \A w \in DOMAIN all.wires : all.wires[w].to # d
        BY <4>2, <4>4, <4>7, <4>8, <4>9, <4>10, <4>11, WireAllIs
      <4> HIDE DEF all
      <4>13. a \in DOMAIN all.nodes /\ OutType(all.nodes[a].type) = "bool" /\ a # d
        BY <4>10, <4>12 DEF OutType
      <4>14. Deciding(combined, d) /\ combined.nodes = all.nodes
        BY <4>6, <4>12, <4>13, ConditionKeeps DEF all, a
      <4>15. QED
        BY <2>6, <2>7, <4>1, <4>12, <4>14
    <3>4. QED
      BY <3>1, <3>2, <3>3
  <2> HIDE DEF combined, d
  <2>13. QED
    BY <2>1, <2>12, RouteKeeps
<1>3. QED
  BY <1>1, <1>2

\* The canvas a policy is drawn on: the transaction, and the policy.
LEMMA FrameIs ==
    ASSUME NEW fields, NEW others
    PROVE  Framed(Put(Put(Empty, Node("transaction", 0, fields)), Node("policy", 0, others)))
<1> DEFINE t == Node("transaction", 0, fields)
           p == Node("policy", 0, others)
           g == Put(Put(Empty, t), p)
<1>1. /\ DOMAIN t = {"type", "y", "fields"} /\ t.type = "transaction" /\ t.y = 0
      /\ DOMAIN p = {"type", "y", "fields"} /\ p.type = "policy" /\ p.y = 0
  BY DEF Node
<1> HIDE DEF t, p
<1>2. /\ DOMAIN Empty.nodes = {} /\ DOMAIN Empty.wires = {}
      /\ Empty.nextId = 1 /\ Empty.nextWire = 1
      /\ DOMAIN Empty = {"nodes", "wires", "nextId", "nextWire"}
  BY DEF Empty
<1>3. /\ DOMAIN Put(Empty, t) = {"nodes", "wires", "nextId", "nextWire"}
      /\ DOMAIN Put(Empty, t).nodes = {1} /\ Put(Empty, t).nodes[1] = t
      /\ DOMAIN Put(Empty, t).wires = {}
      /\ Put(Empty, t).nextId = 2 /\ Put(Empty, t).nextWire = 1
  BY <1>2 DEF Put, With
<1>4. /\ DOMAIN g = {"nodes", "wires", "nextId", "nextWire"}
      /\ DOMAIN g.nodes = {1, 2} /\ g.nodes[1] = t /\ g.nodes[2] = p
      /\ DOMAIN g.wires = {}
      /\ g.nextId = 3 /\ g.nextWire = 1
  BY <1>3 DEF Put, With
<1> HIDE DEF g
<1>5. \A type \in NodeTypes : single(type) => type \in {"transaction", "policy"}
  BY DEF single
<1>6. WiringOK(g)
  <2>1. "transaction" \in NodeTypes /\ "policy" \in NodeTypes
    BY DEF NodeTypes
  <2>2. \A type \in NodeTypes : single(type) =>
          \E id \in DOMAIN g.nodes :
              \A other \in DOMAIN g.nodes : g.nodes[other].type = type <=> other = id
    <3>1. \A other \in DOMAIN g.nodes : g.nodes[other].type = "transaction" <=> other = 1
      BY <1>1, <1>4
    <3>2. \A other \in DOMAIN g.nodes : g.nodes[other].type = "policy" <=> other = 2
      BY <1>1, <1>4
    <3>3. QED
      BY <1>4, <1>5, <3>1, <3>2
  <2>3. \A id \in DOMAIN g.nodes : id \in Nat /\ id < g.nextId /\ g.nodes[id].type \in NodeTypes
    BY <1>1, <1>4, <2>1
  <2>4. QED
    BY <1>4, <2>2, <2>3 DEF WiringOK
<1>7. Shaped(g) /\ Heighted(g)
  BY <1>1, <1>4 DEF Shaped, Heighted
<1>8. QED
  BY <1>1, <1>4, <1>6, <1>7 DEF Framed, GraphInv, g, t, p

\* The rules of a document drawn one after the other.
RulesFrom(n, frame, rules, f) ==
    f = [k \in 0 .. n |-> IF k = 0 THEN frame ELSE decompileRule(f[k - 1], rules[k], k)]

LEMMA RulesExist ==
    ASSUME NEW frame, NEW rules, NEW n \in Nat
    PROVE  \E f : RulesFrom(n, frame, rules, f)
<1> DEFINE S == {k \in Nat : \E f : RulesFrom(k, frame, rules, f)}
<1>1. 0 \in S
  <2>1. RulesFrom(0, frame, rules, [k \in 0 .. 0 |-> frame])
    BY DEF RulesFrom
  <2>2. QED
    BY <2>1
<1>2. ASSUME NEW m \in S PROVE m + 1 \in S
  <2>1. PICK f : RulesFrom(m, frame, rules, f)
    OBVIOUS
  <2> DEFINE last == decompileRule(f[m], rules[m + 1], m + 1)
             h == [k \in 0 .. m + 1 |-> IF k = m + 1 THEN last ELSE f[k]]
  <2>2. m \in Nat
    OBVIOUS
  <2>3. \A k \in 0 .. m + 1 : h[k] = IF k = m + 1 THEN last ELSE f[k]
    OBVIOUS
  <2> HIDE DEF h
  <2>4. ASSUME NEW k \in 0 .. m + 1
        PROVE  h[k] = IF k = 0 THEN frame ELSE decompileRule(h[k - 1], rules[k], k)
    <3>1. CASE k = m + 1
      <4>1. k # 0 /\ k - 1 = m /\ m \in 0 .. m + 1 /\ m # m + 1
        BY <2>2, <3>1
      <4>2. h[k] = last /\ h[k - 1] = f[m]
        BY <2>3, <3>1, <4>1
      <4>3. QED
        BY <3>1, <4>1, <4>2
    <3>2. CASE k # m + 1
      <4>1. k \in 0 .. m
        BY <2>2, <3>2
      <4>2. f[k] = IF k = 0 THEN frame ELSE decompileRule(f[k - 1], rules[k], k)
        BY <2>1, <4>1 DEF RulesFrom
      <4>3. h[k] = f[k]
        BY <2>3, <3>2
      <4>4. k # 0 => k - 1 \in 0 .. m + 1 /\ k - 1 # m + 1
        BY <2>2, <4>1
      <4>5. k # 0 => h[k - 1] = f[k - 1]
        BY <2>3, <4>4
      <4>6. QED
        BY <4>2, <4>3, <4>5
    <3>3. QED
      BY <3>1, <3>2
  <2>5. h = [k \in 0 .. m + 1 |-> h[k]]
    BY DEF h
  <2>6. h = [k \in 0 .. m + 1 |-> IF k = 0 THEN frame ELSE decompileRule(h[k - 1], rules[k], k)]
    BY <2>4, <2>5
  <2>7. RulesFrom(m + 1, frame, rules, h)
    BY <2>6 DEF RulesFrom
  <2>8. QED
    BY <2>2, <2>7
<1>3. S = Nat
  <2> HIDE DEF S
  <2>1. S \in SUBSET Nat
    BY DEF S
  <2>2. QED
    BY <1>1, <1>2, <2>1, Induct
<1>4. QED
  BY <1>3

\* A document that was parsed opens as a graph in order.
LEMMA DecompileIs ==
    ASSUME NEW doc \in Documents
    PROVE  Framed(decompilePolicy(doc))
<1> DEFINE n == Len(doc.rules)
           frame == Put(Put(Empty, Node("transaction", 0, Defaults["transaction"])),
                        Node("policy", 0, [default |-> doc.default, maxActions |-> doc.maxActions]))
           opened == CHOOSE f : RulesFrom(n, frame, doc.rules, f)
<1>1. n \in Nat /\ \A k \in 1 .. n : doc.rules[k] \in ToSet(doc.rules)
  BY DocumentsAssumption DEF ToSet
<1>2. decompilePolicy(doc) = opened[n]
  BY DEF decompilePolicy, RulesFrom
<1>3. RulesFrom(n, frame, doc.rules, opened)
  BY <1>1, RulesExist
<1>4. Framed(frame)
  BY FrameIs
<1> HIDE DEF n, frame, opened
<1>5. /\ opened[0] = frame
      /\ \A k \in 1 .. n : opened[k] = decompileRule(opened[k - 1], doc.rules[k], k)
  BY <1>1, <1>3 DEF RulesFrom
<1> DEFINE S == {k \in Nat : k <= n => Framed(opened[k])}
<1>6. 0 \in S
  BY <1>4, <1>5
<1>7. ASSUME NEW k \in S PROVE k + 1 \in S
  <2>1. SUFFICES ASSUME k + 1 <= n PROVE Framed(opened[k + 1])
    OBVIOUS
  <2>2. Framed(opened[k]) /\ k + 1 \in 1 .. n /\ (k + 1) - 1 = k /\ k + 1 \in Int
    BY <1>1, <2>1
  <2>3. opened[k + 1] = decompileRule(opened[k], doc.rules[k + 1], k + 1)
    BY <1>5, <2>2
  <2>4. doc.rules[k + 1].providers \in Seq(ToSet(doc.rules[k + 1].providers))
    BY <1>1, <2>2, DocumentsAssumption
  <2>5. QED
    BY <2>2, <2>3, <2>4, DecompileRuleKeeps
<1>8. S = Nat
  <2> HIDE DEF S
  <2>1. S \in SUBSET Nat
    BY DEF S
  <2>2. QED
    BY <1>6, <1>7, <2>1, Induct
<1>9. QED
  BY <1>1, <1>2, <1>8

-----------------------------------------------------------------------------
(* Any policy opened, any edits: the graph is in order. *)

\* What every graph of the editor is, whatever was opened and edited.
AuthoringInv == GraphInv(graph) /\ Heighted(graph)

LEMMA AuthoringInductive == AuthoringSpec => []AuthoringInv
<1>1. AuthoringInit => AuthoringInv
  BY DecompileIs DEF AuthoringInit, AuthoringInv, Framed
<1>2. AuthoringInv /\ [AuthoringNext]_<<graph, edits>> => AuthoringInv'
  <2>1. CASE AuthoringInv /\ AuthoringNext
    <3>1. GraphInv(graph) /\ Heighted(graph) /\ Edit
      BY <2>1 DEF AuthoringInv, AuthoringNext
    <3>2. GraphInv(graph') /\ Heighted(graph')
      BY <3>1, EditKeeps, EditHeights
    <3>3. QED
      BY <3>2 DEF AuthoringInv
  <2>2. CASE AuthoringInv /\ UNCHANGED <<graph, edits>>
    BY <2>2 DEF AuthoringInv
  <2>3. QED
    BY <2>1, <2>2
<1>3. QED
  BY <1>1, <1>2, PTL DEF AuthoringSpec

\* Whatever policy is opened and however it is edited, the graph is in order
\* (decompile.ts, store.tsx): what drawing a policy made holds, and no edit
\* breaks it.
THEOREM GraphStaysInOrder == AuthoringSpec => []GraphOK
<1>1. AuthoringInv => GraphOK
  BY DEF AuthoringInv, GraphInv, GraphOK
<1>2. QED
  BY <1>1, AuthoringInductive, PTL

-----------------------------------------------------------------------------
(* What compile.ts writes. *)

\* Numbers that tell the members of a set apart order it.
LEMMA RanksOrder ==
    ASSUME NEW S, NEW rank \in [S -> Int], \A x, y \in S : rank[x] = rank[y] => x = y,
           NEW before \in [S -> SUBSET S],
           \A x, y \in S : y \in before[x] <=> rank[y] < rank[x]
    PROVE  Orders(S, before)
<1>1. \A x \in S : rank[x] \in Int
  OBVIOUS
<1>2. \A x \in S : x \notin before[x]
  BY <1>1
<1>3. \A x, y \in S : x = y \/ x \in before[y] \/ y \in before[x]
  BY <1>1
<1>4. ASSUME NEW x \in S, NEW y \in S, y \in before[x], NEW z \in before[y]
      PROVE  z \in before[x]
  <2>1. z \in S
    OBVIOUS
  <2>2. rank[z] < rank[y] /\ rank[y] < rank[x]
    BY <1>4, <2>1
  <2>3. QED
    BY <1>1, <2>1, <2>2
<1>5. QED
  BY <1>2, <1>3, <1>4 DEF Orders

LEMMA PlaceIs ==
    ASSUME NEW path \in ToSet(MatchOrder)
    PROVE  Place(path) \in 1 .. Len(MatchOrder) /\ MatchOrder[Place(path)] = path
<1> DEFINE I == {i \in 1 .. Len(MatchOrder) : MatchOrder[i] = path}
<1>1. I # {} /\ I \in SUBSET Nat
  BY PathsAssumption DEF ToSet
<1>2. Place(path) = Min(I)
  BY <1>1 DEF Place, SelectInSeq
<1> HIDE DEF I
<1>3. Place(path) \in I
  BY <1>1, <1>2, MinIsLeast
<1>4. QED
  BY <1>3 DEF I

LEMMA TheIs ==
    ASSUME NEW g, GraphInv(g), NEW type \in {"transaction", "policy"}
    PROVE  The(g, type) \in DOMAIN g.nodes /\ g.nodes[The(g, type)].type = type
<1>1. \E id \in DOMAIN g.nodes : g.nodes[id].type = type
  BY DEF GraphInv, WiringOK, single, NodeTypes
<1>2. QED
  BY <1>1 DEF The

-----------------------------------------------------------------------------
\* A node tests one path: its port takes one wire.
LEMMA ConditionsAre ==
    ASSUME NEW g, GraphInv(g), NEW id
    PROVE  /\ \A c \in ConditionsOf(g, id) : c.path \in MatchPaths /\ (c.op = "eq" => c.arg # <<>>)
           /\ \A c, d \in ConditionsOf(g, id) : c = d
<1>1. CASE ~Tests(g, id)
  BY <1>1 DEF ConditionsOf
<1>2. CASE Tests(g, id)
  <2> DEFINE Cond(s) == [path |-> FieldsOf(g, s).path, op |-> OpOf(g, id), arg |-> ArgOf(g, id)]
  <2>1. \A c \in ConditionsOf(g, id) :
            /\ c.path \in MatchPaths
            /\ \E s \in Sources(g, id, "a", "getfield") : c = Cond(s)
    BY <1>2 DEF ConditionsOf
  <2>2. \A s, t \in Sources(g, id, "a", "getfield") : s = t
    <3>1. SUFFICES ASSUME NEW s \in inboundNodes(g, id, "a"), NEW t \in inboundNodes(g, id, "a")
                   PROVE  s = t
      BY DEF Sources
    <3>2. PICK v \in DOMAIN g.wires : g.wires[v].to = id /\ g.wires[v].key = "a" /\ s = g.wires[v].from
      BY <3>1 DEF inboundNodes
    <3>3. PICK w \in DOMAIN g.wires : g.wires[w].to = id /\ g.wires[w].key = "a" /\ t = g.wires[w].from
      BY <3>1 DEF inboundNodes
    <3>4. ~isMultiInput(g.nodes[id].type, "a")
      BY DEF isMultiInput
    <3>5. v = w
      BY <3>2, <3>3, <3>4 DEF GraphInv, WiringOK
    <3>6. QED
      BY <3>2, <3>3, <3>5
  <2>3. OpOf(g, id) = "eq" => ArgOf(g, id) # <<>>
    BY DEF OpOf, ArgOf
  <2>4. \A s : Cond(s).op = OpOf(g, id) /\ Cond(s).arg = ArgOf(g, id)
    OBVIOUS
  <2> HIDE DEF Cond
  <2>5. QED
    BY <2>1, <2>2, <2>3, <2>4
<1>3. QED
  BY <1>1, <1>2

LEMMA RouteConditionsAre ==
    ASSUME NEW g, NEW up
    PROVE  /\ \A c \in RouteConditions(g, up) : c.path \in MatchPaths /\ (c.op = "eq" => c.arg # <<>>)
           /\ \A c, d \in RouteConditions(g, up) : c.path = d.path => c = d
<1> DEFINE r == RouteOf(g, up)
           names == {<<"contract", FieldsOf(g, up[r]).contract>>, <<"action", FieldsOf(g, up[r]).action>>}
           Cond(n) == [path |-> n[1], op |-> "eq", arg |-> <<Text(n[2])>>]
<1>1. \A c \in RouteConditions(g, up) : \E n \in names : c = Cond(n)
  BY DEF RouteConditions
<1>2. \A n \in names : n[1] \in {"contract", "action"}
  OBVIOUS
<1>3. \A m, n \in names : m[1] = n[1] => m = n
  OBVIOUS
<1>4. \A n : Cond(n).path = n[1] /\ Cond(n).arg # <<>>
  OBVIOUS
<1> HIDE DEF names, Cond
<1>5. QED
  BY <1>1, <1>2, <1>3, <1>4, PathsAssumption

\* The conditions of a rule, one on each path.
LEMMA MatchIs ==
    ASSUME NEW g, GraphInv(g), NEW up \in Seq(DOMAIN g.nodes)
    PROVE  /\ \A c \in MatchOf(g, up) : c.path \in MatchPaths /\ (c.op = "eq" => c.arg # <<>>)
           /\ \A c, d \in MatchOf(g, up) : c.path = d.path => c = d
<1> DEFINE tests == [i \in DOMAIN up |-> ConditionsOf(g, up[i])]
           all == <<RouteConditions(g, up)>> \o tests
           Fine(C) == /\ \A c \in C : c.path \in MatchPaths /\ (c.op = "eq" => c.arg # <<>>)
                      /\ \A c, d \in C : c.path = d.path => c = d
<1>1. \A i \in DOMAIN all : i \in Nat /\ Fine(all[i])
  <2>1. Len(up) \in Nat /\ DOMAIN up = 1 .. Len(up)
    OBVIOUS
  <2>2. Len(tests) = Len(up) /\ DOMAIN tests = 1 .. Len(up)
    BY <2>1
  <2>3. \A i \in DOMAIN tests : Fine(tests[i])
    BY ConditionsAre
  <2>4. Fine(RouteConditions(g, up))
    BY RouteConditionsAre
  <2> DEFINE T == {C \in {RouteConditions(g, up)} \cup {tests[i] : i \in DOMAIN tests} : Fine(C)}
  <2>5. tests \in Seq(T) /\ <<RouteConditions(g, up)>> \in Seq(T)
    <3>1. \A i \in 1 .. Len(up) : tests[i] \in T
      BY <2>2, <2>3
    <3>2. RouteConditions(g, up) \in T
      BY <2>4
    <3> DEFINE route == RouteConditions(g, up)
    <3>3. tests = [i \in 1 .. Len(up) |-> tests[i]]
      BY <2>1
    <3> HIDE DEF T, tests, route
    <3>4. tests \in Seq(T)
      BY <2>1, <3>1, <3>3
    <3>5. <<route>> \in Seq(T)
      BY <3>2 DEF route
    <3>6. QED
      BY <3>4, <3>5 DEF route
  <2>6. \A C \in T : Fine(C)
    OBVIOUS
  <2> HIDE DEF T, tests, Fine
  <2>7. all \in Seq(T)
    BY <2>5
  <2> HIDE DEF all
  <2>8. QED
    BY <2>6, <2>7
<1>2. ASSUME NEW c \in MatchOf(g, up)
      PROVE  \E i \in DOMAIN all : /\ c \in all[i]
                                   /\ \A j \in DOMAIN all : \A d \in all[j] : d.path = c.path => j <= i
  BY DEF MatchOf
<1> HIDE DEF all
<1>3. ASSUME NEW c \in MatchOf(g, up), NEW d \in MatchOf(g, up), c.path = d.path PROVE c = d
  <2>1. PICK i \in DOMAIN all : /\ c \in all[i]
                                /\ \A j \in DOMAIN all : \A e \in all[j] : e.path = c.path => j <= i
    BY <1>2
  <2>2. PICK j \in DOMAIN all : /\ d \in all[j]
                                /\ \A k \in DOMAIN all : \A e \in all[k] : e.path = d.path => k <= j
    BY <1>2
  <2>3. i <= j /\ j <= i /\ i \in Nat /\ j \in Nat
    BY <1>1, <1>3, <2>1, <2>2
  <2>4. i = j
    BY <2>3
  <2>5. QED
    BY <1>1, <1>3, <2>1, <2>2, <2>4
<1>4. QED
  BY <1>1, <1>2, <1>3

\* They are listed, in the order of their paths.
LEMMA MatchIsListed ==
    ASSUME NEW M, \A c \in M : c.path \in MatchPaths, \A c, d \in M : c.path = d.path => c = d
    PROVE  LET list == Sorted(M, [c \in M |-> {d \in M : Before(d, c)}])
           IN /\ list \in Seq(M) /\ (M # {} => list # <<>>)
              /\ \A c \in M : \E i \in DOMAIN list : list[i] = c
              /\ Len(list) = Cardinality(M)
              /\ \A i, j \in DOMAIN list : list[i] = list[j] => i = j
<1> DEFINE rank == [c \in M |-> Place(c.path)]
           before == [c \in M |-> {d \in M : Before(d, c)}]
<1>1. \A c \in M : Place(c.path) \in 1 .. Len(MatchOrder) /\ MatchOrder[Place(c.path)] = c.path
  BY PathsAssumption, PlaceIs
<1>2. \A c, d \in M : Place(c.path) = Place(d.path) => c = d
  BY <1>1
<1>3. Len(MatchOrder) \in Nat
  BY PathsAssumption
<1>4. IsFiniteSet(M)
  <2>1. rank \in Injection(M, 1 .. Len(MatchOrder))
    BY <1>1, <1>2 DEF Injection, IsInjective
  <2>2. IsFiniteSet(1 .. Len(MatchOrder))
    BY <1>3, FS_Interval
  <2> HIDE DEF rank
  <2>3. QED
    BY <2>1, <2>2, FS_Injection
<1>5. Orders(M, before)
  <2>1. rank \in [M -> Int] /\ \A c, d \in M : rank[c] = rank[d] => c = d
    BY <1>1, <1>2, <1>3
  <2>2. before \in [M -> SUBSET M]
    OBVIOUS
  <2>3. \A c, d \in M : d \in before[c] <=> rank[d] < rank[c]
    BY DEF Before
  <2> HIDE DEF rank, before
  <2>4. QED
    BY <2>1, <2>2, <2>3, RanksOrder
<1> HIDE DEF before
<1> DEFINE list == Sorted(M, before)
<1>6. list \in Seq(M) /\ (M # {} => list # <<>>) /\ Len(list) = Cardinality(M)
  BY <1>4, <1>5, SortedIs
<1>7. /\ \A c \in M : \E i \in DOMAIN list : list[i] = c
      /\ \A i, j \in DOMAIN list : list[i] = list[j] => i = j
  BY <1>4, <1>5, SortedAll
<1>8. QED
  BY <1>6, <1>7 DEF before

\* The rules of the policy compiled: one of each decision that is kept.
LEMMA CompileIs ==
    ASSUME NEW g, GraphInv(g), Heighted(g)
    PROVE  \E kept \in Seq({d \in Reaching(g) : Kept(g, d)}) :
              /\ compilePolicy(g).rules = [i \in DOMAIN kept |-> compileRule(g, kept[i])]
              /\ \A d \in Reaching(g) : Kept(g, d) => \E i \in DOMAIN kept : kept[i] = d
              /\ \A i, j \in DOMAIN kept : i < j => Above(g, kept[i], kept[j])
<1> DEFINE K == {d \in Reaching(g) : Kept(g, d)}
           before == [d \in K |-> {e \in K : Above(g, e, d)}]
<1>1. K \in SUBSET DOMAIN g.nodes
  BY DEF Reaching, Decisions
<1>2. IsFiniteSet(K) /\ \A d \in K : d \in Nat /\ g.nodes[d].y \in Int
  BY <1>1, FiniteGraph, FS_Subset DEF Heighted
<1>3. compilePolicy(g).rules = [i \in DOMAIN Sorted(K, before) |-> compileRule(g, Sorted(K, before)[i])]
  BY DEF compilePolicy, Ranked
<1>4. /\ DOMAIN before = K
      /\ \A d \in K : before[d] \in SUBSET K /\ \A e \in K : e \in before[d] <=> Above(g, e, d)
  OBVIOUS
<1>5. before \in [K -> SUBSET K]
  OBVIOUS
<1> HIDE DEF K, before
<1>6. Orders(K, before)
  <2>1. \A x \in K : x \notin before[x]
    BY <1>2, <1>4 DEF Above
  <2>2. \A x, y \in K : x = y \/ x \in before[y] \/ y \in before[x]
    BY <1>2, <1>4 DEF Above
  <2>3. ASSUME NEW x \in K, NEW y \in K, y \in before[x], NEW z \in before[y]
        PROVE  z \in before[x]
    <3>1. z \in K /\ Above(g, z, y) /\ Above(g, y, x)
      BY <1>4, <2>3
    <3>2. Above(g, z, x)
      BY <1>2, <2>3, <3>1 DEF Above
    <3>3. QED
      BY <1>4, <2>3, <3>1, <3>2
  <2>4. QED
    BY <1>5, <2>1, <2>2, <2>3 DEF Orders
<1> DEFINE kept == Sorted(K, before)
<1>7. kept \in Seq(K)
  BY <1>2, <1>6, SortedIs
<1>8. /\ \A d \in K : \E i \in DOMAIN kept : kept[i] = d
      /\ \A i, j \in DOMAIN kept : i < j <=> kept[i] \in before[kept[j]]
  BY <1>2, <1>6, SortedAll
<1> HIDE DEF kept
<1>9. \A i, j \in DOMAIN kept : i < j => Above(g, kept[i], kept[j])
  <2>1. \A i \in DOMAIN kept : kept[i] \in K
    BY <1>7
  <2>2. QED
    BY <1>4, <1>8, <2>1
<1>10. compilePolicy(g).rules = [i \in DOMAIN kept |-> compileRule(g, kept[i])]
  BY <1>3 DEF kept
<1>11. \A d \in Reaching(g) : Kept(g, d) => \E i \in DOMAIN kept : kept[i] = d
  BY <1>8 DEF K
<1>12. kept \in Seq({d \in Reaching(g) : Kept(g, d)})
  BY <1>7 DEF K
<1>13. QED
  BY <1>9, <1>10, <1>11, <1>12

\* The limits of a rule are within those of the schema.
LEMMA LimitsHaveShape ==
    ASSUME NEW node, node.type = "decision", Typed(node), LimitsOf(node.fields) # NoLimits
    PROVE  LET l == LimitsOf(node.fields)
           IN /\ LimitsShape(l) /\ node.fields.effect = "allow"
              /\ Malformed \notin {l.maxPerTransaction, l.maxPerHour, l.maxPerDay}
<1> DEFINE f == node.fields
           l == LimitsOf(f)
           n == CountOf(f)
           ms == CooldownOf(f)
           fields == {"maxPerTransaction", "maxPerHour", "maxPerDay", "cooldownPerRecipientMs",
                      "maxCountPerHour", "maxCountPerDay", "maxCountPerRecipientPerHour"}
<1>1. f.effect = "allow"
  BY DEF LimitsOf
<1>2. /\ l = [x \in fields |-> l[x]]
      /\ l.maxPerTransaction = f.maxPerTx /\ l.maxPerHour = None /\ l.maxPerDay = None
      /\ l.cooldownPerRecipientMs = ms
      /\ \A x \in CountLimits : l[x] \in {None, n}
  BY DEF LimitsOf, NoLimits, CountLimits
<1>3. n # None => n \in 1 .. MaxCount
  <2>1. f.rlCount \in {None, Malformed} \/ f.rlCount \in 0 .. MaxCount
    BY DEF Typed
  <2>2. MaxCount \in Nat /\ MaxCount >= 1
    BY DEF MaxCount
  <2> HIDE DEF f
  <2>3. QED
    BY <2>1, <2>2 DEF CountOf
<1>4. ms # None => ms \in 0 .. MaxCooldown
  <2>1. f.cooldownH # None => f.cooldownH \in Int /\ f.cooldownH <= 10 * MaxCooldown
    BY DEF Typed
  <2>2. MaxCooldown \in Nat
    BY DEF MaxCooldown
  <2> HIDE DEF f
  <2>3. QED
    BY <2>1, <2>2 DEF CooldownOf
<1>5. NoLimits = [x \in fields |-> None]
  BY DEF NoLimits
<1>6. l # NoLimits
  OBVIOUS
<1> HIDE DEF l, n, ms, fields, f
<1>7. DOMAIN l = fields /\ \E x \in fields : l[x] # None
  BY <1>2, <1>5, <1>6
<1>8. LimitsShape(l)
  BY <1>2, <1>3, <1>4, <1>7 DEF LimitsShape
<1>9. Malformed \notin {l.maxPerTransaction, l.maxPerHour, l.maxPerDay}
  <2>1. f.maxPerTx # Malformed
    BY DEF Typed, f
  <2>2. QED
    BY <1>2, <2>1, MalformedAssumption
<1>10. QED
  BY <1>1, <1>8, <1>9 DEF l, f

\* What is tested is written in as many characters as the schema allows.
LEMMA ConditionsFit ==
    ASSUME NEW g, GraphInv(g), \A id \in DOMAIN g.nodes : Typed(g.nodes[id]),
           NEW up \in Seq(DOMAIN g.nodes)
    PROVE  \A c \in MatchOf(g, up) : PredicateShape(PredicateOf(c))
<1> DEFINE Fits(C) == \A c \in C : PredicateShape(PredicateOf(c))
<1>1. ASSUME NEW c, NEW v, c.op = "eq", c.arg = <<v>>, Chars(v) \in 1 .. 256
      PROVE  PredicateShape(PredicateOf(c))
  <2>1. PredicateOf(c).op = "in" /\ PredicateOf(c).values = <<v>>
    BY <1>1 DEF PredicateOf
  <2>2. Len(<<v>>) = 1 /\ ToSet(<<v>>) = {v}
    BY DEF ToSet
  <2> DEFINE p == PredicateOf(c)
  <2>3. p.op = "in" /\ Len(p.values) \in 1 .. 256 /\ ToSet(p.values) = {v}
    BY <2>1, <2>2
  <2> HIDE DEF p
  <2>4. PredicateShape(p)
    BY <1>1, <2>3 DEF PredicateShape
  <2>5. QED
    BY <2>4 DEF p
<1>2. Len(up) \in Nat /\ \A i \in 1 .. Len(up) : up[i] \in DOMAIN g.nodes
  OBVIOUS
<1>3. ASSUME NEW id \in DOMAIN g.nodes PROVE Fits(ConditionsOf(g, id))
  <2>1. SUFFICES ASSUME NEW c \in ConditionsOf(g, id) PROVE PredicateShape(PredicateOf(c))
    OBVIOUS
  <2>2. /\ Tests(g, id) /\ c.op = OpOf(g, id) /\ c.arg = ArgOf(g, id)
        /\ TypeOf(g, id) = "compare" => c.op \in Declarative
    BY DEF ConditionsOf
  <2> DEFINE f == FieldsOf(g, id)
  <2>3. CASE TypeOf(g, id) = "compare"
    <3>1. c.op = f.op /\ c.arg = <<f.value>> /\ f.op \in {"eq", "lte", "gte"}
      BY <2>2, <2>3 DEF OpOf, ArgOf, Declarative
    <3>2. Chars(f.value) \in 1 .. IF f.op = "eq" THEN 256 ELSE 64
      BY <2>3 DEF Typed, TypeOf, FieldsOf
    <3> HIDE DEF f
    <3>3. CASE f.op = "eq"
      BY <1>1, <3>1, <3>2, <3>3
    <3>4. CASE f.op \in {"lte", "gte"}
      <4>1. PredicateOf(c).op = f.op /\ PredicateOf(c).bound = f.value
        BY <3>1, <3>4 DEF PredicateOf
      <4>2. QED
        BY <3>2, <3>4, <4>1 DEF PredicateShape
    <3>5. QED
      BY <3>1, <3>3, <3>4
  <2>4. CASE TypeOf(g, id) = "inlist"
    <3>1. c.op \in {"in", "notIn"} /\ c.arg = f.list
      BY <2>2, <2>4 DEF OpOf, ArgOf
    <3>2. Len(f.list) \in 1 .. 256 /\ \A v \in ToSet(f.list) : Chars(v) \in 1 .. 256
      BY <2>4 DEF Typed, TypeOf, FieldsOf
    <3> HIDE DEF f
    <3>3. PredicateOf(c).op \in {"in", "notIn"} /\ PredicateOf(c).values = f.list
      BY <3>1 DEF PredicateOf
    <3>4. QED
      BY <3>2, <3>3 DEF PredicateShape
  <2>5. QED
    BY <2>2, <2>3, <2>4 DEF Tests
<1>4. Fits(RouteConditions(g, up))
  <2>1. ASSUME NEW x, NEW y, NEW n \in {<<"contract", x>>, <<"action", y>>} PROVE n[2] \in {x, y}
    OBVIOUS
  <2> DEFINE r == RouteOf(g, up)
             f == FieldsOf(g, up[r])
             I == {i \in 1 .. Len(up) : TypeOf(g, up[i]) = "routeif"}
             names == {<<"contract", f.contract>>, <<"action", f.action>>}
             Cond(n) == [path |-> n[1], op |-> "eq", arg |-> <<Text(n[2])>>]
  <2>2. I \in SUBSET Nat
    BY <1>2
  <2> SUFFICES ASSUME NEW c \in RouteConditions(g, up) PROVE PredicateShape(PredicateOf(c))
    OBVIOUS
  <2>3. r # 0 /\ \E n \in names : n[2] # "" /\ c = Cond(n)
    BY DEF RouteConditions
  <2> PICK n \in names : n[2] # "" /\ c = Cond(n)
    BY <2>3
  <2> DEFINE name == n[2]
  <2>4. name \in {f.contract, f.action} /\ name # "" /\ c.op = "eq" /\ c.arg = <<Text(name)>>
    <3>1. c.op = "eq" /\ c.arg = <<Text(name)>>
      OBVIOUS
    <3>2. name \in {f.contract, f.action}
      BY <2>1
    <3>3. QED
      BY <3>1, <3>2
  <2>5. r = IF I # {} THEN Min(I) ELSE 0
    BY Zenon DEF RouteOf, SelectInSeq
  <2>6. up[r] \in DOMAIN g.nodes /\ TypeOf(g, up[r]) = "routeif"
    <3> HIDE DEF r, I, names, Cond
    <3>1. r \in I
      BY <2>2, <2>3, <2>5, MinIsLeast
    <3>2. r \in 1 .. Len(up) /\ TypeOf(g, up[r]) = "routeif"
      BY <3>1 DEF I
    <3>3. QED
      BY <1>2, <3>2
  <2> HIDE DEF r, name, names, Cond
  <2>7. Typed(g.nodes[up[r]])
    BY <2>6
  <2>8. Chars(Text(name)) \in 1 .. 256
    BY <2>4, <2>6, <2>7 DEF Typed, TypeOf, FieldsOf
  <2>9. QED
    BY <1>1, <2>4, <2>8
<1> DEFINE tests == [i \in DOMAIN up |-> ConditionsOf(g, up[i])]
           route == RouteConditions(g, up)
           all == <<route>> \o tests
           n == Len(up)
<1>5. n \in Nat /\ DOMAIN up = 1 .. n /\ \A i \in 1 .. n : up[i] \in DOMAIN g.nodes
  OBVIOUS
<1>6. tests = [i \in 1 .. n |-> tests[i]] /\ \A i \in 1 .. n : Fits(tests[i])
  BY <1>3, <1>5
<1>7. \A c \in MatchOf(g, up) : \E i \in DOMAIN all : c \in all[i]
  BY DEF MatchOf
<1> HIDE DEF tests, route, n, Fits
<1>8. DOMAIN all = 1 .. n + 1 /\ all[1] = route /\ \A i \in 1 .. n : all[i + 1] = tests[i]
  BY <1>5, <1>6, HeadAndRest
<1> HIDE DEF all
<1>9. ASSUME NEW i \in DOMAIN all PROVE Fits(all[i])
  <2>1. i = 1 \/ (i - 1 \in 1 .. n /\ i = (i - 1) + 1)
    BY <1>5, <1>8
  <2>2. QED
    BY <1>4, <1>6, <1>8, <2>1 DEF route
<1>10. QED
  BY <1>7, <1>9 DEF Fits

\* The predicates of a rule are those of its conditions, as many, and no two
\* of one path.
LEMMA PublishedMatch ==
    ASSUME NEW g, GraphInv(g), NEW d \in Decisions(g)
    PROVE  LET M == compileRule(g, d).match
               match == EngineRule(compileRule(g, d)).match
           IN /\ match \in Seq({PredicateOf(c) : c \in M})
              /\ Len(match) = Cardinality(M) /\ (M # {} => match # <<>>)
              /\ \A i, j \in DOMAIN match : match[i].path = match[j].path => i = j
<1> DEFINE M == compileRule(g, d).match
           list == Sorted(M, [c \in M |-> {e \in M : Before(e, c)}])
           P == {PredicateOf(c) : c \in M}
<1>1. upstream(g, d) \in Seq(DOMAIN g.nodes)
  BY UpstreamIs DEF Decisions
<1>2. M = MatchOf(g, upstream(g, d))
  BY DEF compileRule
<1>3. EngineRule(compileRule(g, d)).match = [i \in DOMAIN list |-> PredicateOf(list[i])]
  BY DEF EngineRule
<1> HIDE DEF M
<1>4. (\A c \in M : c.path \in MatchPaths) /\ \A c, e \in M : c.path = e.path => c = e
  BY <1>1, <1>2, MatchIs
<1>5. /\ list \in Seq(M) /\ (M # {} => list # <<>>) /\ Len(list) = Cardinality(M)
      /\ \A i, j \in DOMAIN list : list[i] = list[j] => i = j
  BY <1>4, MatchIsListed
<1> HIDE DEF list
<1>6. \A c \in M : PredicateOf(c) \in P /\ PredicateOf(c).path = c.path
  BY DEF PredicateOf
<1> DEFINE preds == [i \in 1 .. Len(list) |-> PredicateOf(list[i])]
<1>7. preds = EngineRule(compileRule(g, d)).match
  BY <1>3, <1>5
<1>8. Len(list) \in Nat /\ DOMAIN list = 1 .. Len(list) /\ \A i \in 1 .. Len(list) : list[i] \in M
  BY <1>5
<1>9. \A i \in 1 .. Len(list) : preds[i] = PredicateOf(list[i]) /\ preds[i] \in P
                                /\ preds[i].path = list[i].path
  BY <1>6, <1>8
<1>10. preds = [i \in 1 .. Len(list) |-> preds[i]]
  OBVIOUS
<1> HIDE DEF P, preds
<1>11. preds \in Seq(P) /\ DOMAIN preds = 1 .. Len(list) /\ Len(preds) = Len(list)
  BY <1>8, <1>9, <1>10
<1>12. M # {} => preds # <<>>
  BY <1>5, <1>8, <1>11
<1>13. \A i, j \in DOMAIN preds : preds[i].path = preds[j].path => i = j
  BY <1>4, <1>5, <1>8, <1>9, <1>11
<1>14. QED
  BY <1>5, <1>7, <1>11, <1>12, <1>13 DEF P, M

\* A wire into a port comes from another node, of a type that fits.
LEMMA SourceIs ==
    ASSUME NEW g, GraphInv(g), NEW id, NEW key, NEW s \in inboundNodes(g, id, key)
    PROVE  /\ s \in DOMAIN g.nodes /\ id \in DOMAIN g.nodes /\ s # id
           /\ TypeOf(g, s) \in NodeTypes /\ TypeOf(g, id) \in NodeTypes
           /\ key \in InPorts(TypeOf(g, id))
           /\ portsCompatible(TypeOf(g, s), TypeOf(g, id), key)
           /\ \E w \in DOMAIN g.wires : g.wires[w].to = id /\ g.wires[w].from = s
<1>1. PICK w \in DOMAIN g.wires : g.wires[w].to = id /\ g.wires[w].key = key /\ s = g.wires[w].from
  BY DEF inboundNodes
<1>2. Connects(g, g.wires[w])
  BY DEF GraphInv, WiringOK
<1>3. /\ s \in DOMAIN g.nodes /\ id \in DOMAIN g.nodes /\ s # id
      /\ key \in InPorts(TypeOf(g, id))
      /\ portsCompatible(TypeOf(g, s), TypeOf(g, id), key)
  BY <1>1, <1>2 DEF Connects, TypeOf
<1>4. TypeOf(g, s) \in NodeTypes /\ TypeOf(g, id) \in NodeTypes
  BY <1>3 DEF GraphInv, WiringOK, TypeOf
<1>5. QED
  BY <1>1, <1>3, <1>4

\* The requirements of a rule are those that the nodes before its decision make.
LEMMA ProvidersListed ==
    ASSUME NEW g, GraphInv(g), NEW d \in Decisions(g)
    PROVE  LET list == compileRule(g, d).providers
               up == ToSet(upstream(g, d))
           IN /\ list \in Seq(UNION {ProvidersOf(g, id) : id \in up})
              /\ \A req \in ToSet(list) : \E id \in up : req \in ProvidersOf(g, id)
              /\ \A id \in up : ProvidersOf(g, id) # {} =>
                    \E req \in ProvidersOf(g, id) : req \in ToSet(list)
<1> DEFINE up == upstream(g, d)
           P == UNION {ProvidersOf(g, id) : id \in ToSet(up)}
           parts == [i \in DOMAIN up |-> ProviderIn(g, up[i])]
<1>1. up \in Seq(DOMAIN g.nodes)
  BY UpstreamIs DEF Decisions
<1>2. compileRule(g, d).providers = FlattenSeq(parts)
  BY DEF compileRule
<1>3. \A i \in DOMAIN up :
         /\ parts[i] \in Seq(P) /\ Len(parts[i]) <= 1
         /\ ProvidersOf(g, up[i]) # {} => \E req \in ProvidersOf(g, up[i]) : req \in ToSet(parts[i])
  <2>1. TAKE i \in DOMAIN up
  <2> DEFINE found == ProvidersOf(g, up[i])
             p == CHOOSE q \in found : TRUE
  <2>2. parts[i] = IF found = {} THEN <<>> ELSE <<p>>
    BY DEF ProviderIn
  <2>3. found # {} => p \in P /\ p \in found
    <3>1. up[i] \in ToSet(up)
      BY DEF ToSet
    <3>2. found # {} => p \in found
      OBVIOUS
    <3>3. QED
      BY <3>1, <3>2
  <2> HIDE DEF P, parts, p, found
  <2>4. p \in ToSet(<<p>>)
    <3>1. DOMAIN <<p>> = {1} /\ <<p>>[1] = p
      OBVIOUS
    <3>2. QED
      BY <3>1 DEF ToSet
  <2>5. parts[i] \in Seq(P) /\ Len(parts[i]) <= 1
    BY <2>2, <2>3
  <2>6. found # {} => \E req \in found : req \in ToSet(parts[i])
    BY <2>2, <2>3, <2>4
  <2>7. QED
    BY <2>5, <2>6 DEF found
<1>4. Len(up) \in Nat /\ DOMAIN up = 1 .. Len(up)
  BY <1>1
<1>5. parts = [i \in 1 .. Len(up) |-> parts[i]] /\ DOMAIN parts = 1 .. Len(up)
  BY <1>4
<1> HIDE DEF parts, P, up
<1>6. parts \in Seq(Seq(P)) /\ \A i \in DOMAIN parts : Len(parts[i]) <= 1
  BY <1>3, <1>4, <1>5
<1>7. FlattenSeq(parts) \in Seq(P)
  BY <1>6, FlattenType
<1>8. \A req \in ToSet(FlattenSeq(parts)) : req \in P
  BY <1>7 DEF ToSet
<1>9. \A req \in ToSet(FlattenSeq(parts)) : \E id \in ToSet(up) : req \in ProvidersOf(g, id)
  BY <1>8 DEF P
<1>10. ASSUME NEW id \in ToSet(up), ProvidersOf(g, id) # {}
       PROVE  \E req \in ProvidersOf(g, id) : req \in ToSet(FlattenSeq(parts))
  <2>1. PICK i \in DOMAIN up : up[i] = id
    BY DEF ToSet
  <2>2. PICK req \in ProvidersOf(g, id) : req \in ToSet(parts[i])
    BY <1>3, <1>10, <2>1
  <2>3. i \in DOMAIN parts
    BY <1>4, <1>5
  <2>4. ToSet(parts[i]) \subseteq ToSet(FlattenSeq(parts))
    BY <1>6, <2>3, FlattenHas
  <2>5. QED
    BY <2>2, <2>4
<1>11. QED
  BY <1>2, <1>7, <1>9, <1>10 DEF P, up

\* A requirement is written in as many characters as the schema allows.
LEMMA RequirementsFit ==
    ASSUME NEW g, GraphInv(g), \A id \in DOMAIN g.nodes : Typed(g.nodes[id]), NEW d \in Decisions(g)
    PROVE  \A req \in ToSet(compileRule(g, d).providers) : RequirementShape(req)
<1>1. ASSUME NEW id, NEW req \in ProvidersOf(g, id) PROVE RequirementShape(req)
  <2>1. TypeOf(g, id) = "contains"
    BY <1>1 DEF ProvidersOf
  <2>2. PICK sl \in LookupsOf(g, id) :
            /\ req.table = FieldsOf(g, sl[2]).table /\ req.key = FieldsOf(g, sl[2]).key
            /\ req.value = FieldsOf(g, id).value
    BY <1>1 DEF ProvidersOf
  <2>3. PICK s \in Sources(g, id, "a", "getfield") :
            \E x \in Sources(g, s, "in", "lookup") : sl = <<s, x>>
    BY DEF LookupsOf
  <2> PICK l \in Sources(g, s, "in", "lookup") : sl = <<s, l>>
    BY <2>3
  <2>4. s \in inboundNodes(g, id, "a") /\ l \in inboundNodes(g, s, "in") /\ TypeOf(g, l) = "lookup"
    BY DEF Sources
  <2>5. id \in DOMAIN g.nodes /\ l \in DOMAIN g.nodes
    BY <2>4, SourceIs
  <2>6. sl[2] = l
    OBVIOUS
  <2>7. Typed(g.nodes[id]) /\ Typed(g.nodes[l])
    BY <2>5
  <2>8. Chars(FieldsOf(g, id).value) \in 1 .. 256
    BY <2>1, <2>7 DEF Typed, TypeOf, FieldsOf
  <2>9. Chars(Text(FieldsOf(g, l).table)) \in 1 .. 64 /\ Chars(FieldsOf(g, l).key) \in 1 .. 64
    BY <2>4, <2>7 DEF Typed, TypeOf, FieldsOf
  <2>10. QED
    BY <2>2, <2>6, <2>8, <2>9 DEF RequirementShape
<1>2. QED
  BY <1>1, ProvidersListed

\* What the schema says of a rule.
FitsSchema(rule) ==
    /\ Len(rule.match) \in 1 .. 32
    /\ \A i, j \in DOMAIN rule.match : rule.match[i].path = rule.match[j].path => i = j
    /\ \A p \in ToSet(rule.match) : PredicateShape(p)
    /\ rule.limits # None => LimitsShape(rule.limits)
    /\ Len(rule.providers) <= 8
    /\ \A req \in ToSet(rule.providers) : RequirementShape(req)
    /\ LimitsFit(rule)

\* A rule of the policy compiled fits the schema.
LEMMA RuleFits ==
    ASSUME NEW g, GraphInv(g), \A id \in DOMAIN g.nodes : Typed(g.nodes[id]),
           NEW d \in Decisions(g), Kept(g, d),
           Cardinality(compileRule(g, d).match) <= 32, Len(compileRule(g, d).providers) <= 8
    PROVE  FitsSchema(EngineRule(compileRule(g, d)))
<1> DEFINE written == compileRule(g, d)
           rule == EngineRule(written)
           f == FieldsOf(g, d)
           P == {PredicateOf(c) : c \in written.match}
<1>1. /\ rule.effect = f.effect /\ rule.limits = EngineLimits(LimitsOf(f))
      /\ rule.providers = written.providers
      /\ written.match = MatchOf(g, upstream(g, d))
  BY DEF EngineRule, compileRule
<1>2. \A c \in written.match : PredicateShape(PredicateOf(c))
  <2>1. upstream(g, d) \in Seq(DOMAIN g.nodes)
    BY UpstreamIs DEF Decisions
  <2> HIDE DEF written
  <2>2. QED
    BY <1>1, <2>1, ConditionsFit
<1>3. /\ rule.match \in Seq(P) /\ Len(rule.match) = Cardinality(written.match) /\ rule.match # <<>>
      /\ \A i, j \in DOMAIN rule.match : rule.match[i].path = rule.match[j].path => i = j
  BY PublishedMatch DEF Kept
<1>4. Cardinality(written.match) <= 32 /\ Len(written.providers) <= 8
  OBVIOUS
<1>5. \A req \in ToSet(written.providers) : RequirementShape(req)
  BY RequirementsFit
<1>6. Typed(g.nodes[d]) /\ TypeOf(g, d) = "decision"
  BY DEF Decisions
<1>7. g.nodes[d].type = "decision" /\ g.nodes[d].fields = f
  BY <1>6 DEF TypeOf, FieldsOf
<1>8. ASSUME rule.limits # None
      PROVE  /\ LimitsShape(rule.limits) /\ rule.effect = "allow"
             /\ Malformed \notin {rule.limits.maxPerTransaction, rule.limits.maxPerHour,
                                  rule.limits.maxPerDay}
  <2>1. LimitsOf(f) # NoLimits /\ rule.limits = LimitsOf(f)
    BY <1>1, <1>8 DEF EngineLimits
  <2> HIDE DEF f, rule
  <2>2. QED
    BY <1>1, <1>6, <1>7, <2>1, LimitsHaveShape
<1>9. \A p \in ToSet(rule.match) : PredicateShape(p)
  <2>1. \A p \in ToSet(rule.match) : p \in P
    BY <1>3 DEF ToSet
  <2>2. QED
    BY <1>2, <2>1
<1> HIDE DEF P, written, rule
<1>10. Len(rule.match) \in 1 .. 32
  <2> DEFINE m == Len(rule.match)
  <2>1. m \in Nat /\ m >= 1 /\ m <= 32
    BY <1>3, <1>4
  <2> HIDE DEF m
  <2>2. m \in 1 .. 32
    BY <2>1
  <2>3. QED
    BY <2>2 DEF m
<1>11. LimitsFit(rule)
  BY <1>8 DEF LimitsFit
<1>12. QED
  <2>1. FitsSchema(rule)
    BY <1>1, <1>3, <1>4, <1>5, <1>8, <1>9, <1>10, <1>11 DEF FitsSchema
  <2>2. QED
    BY <2>1 DEF rule, written

\* What the editor writes the daemon accepts (compile.ts, compilePolicy;
\* core/policy/schema.ts, validatePolicy; onchain.ts): of any graph that
\* edits lead to from any policy that was opened, as long as what was typed
\* has a place in a policy and the rules are few enough and differ in their
\* ids.
THEOREM WrittenIsAccepted == AuthoringSpec => []DaemonAccepts
<1>1. ASSUME AuthoringInv PROVE DaemonAccepts
  <2> DEFINE g == graph
             doc == compilePolicy(g)
             Few(rule) == Cardinality(rule.match) <= 32 /\ Len(rule.providers) <= 8
             published == Published(doc)
             policy == The(g, "policy")
  <2>1. SUFFICES ASSUME \A id \in DOMAIN g.nodes : Typed(g.nodes[id]),
                        Distinct([i \in DOMAIN doc.rules |-> doc.rules[i].id]),
                        Len(doc.rules) <= 256,
                        \A rule \in ToSet(doc.rules) : Few(rule)
                 PROVE  validatePolicy(published)
    BY DEF DaemonAccepts
  <2>2. GraphInv(g) /\ Heighted(g)
    BY <1>1 DEF AuthoringInv
  <2>3. PICK kept \in Seq({d \in Reaching(g) : Kept(g, d)}) :
            doc.rules = [i \in DOMAIN kept |-> compileRule(g, kept[i])]
    BY <2>2, CompileIs
  <2>4. /\ published.default = FieldsOf(g, policy).default
        /\ published.maxActions = FieldsOf(g, policy).maxActions
        /\ published.rules = [i \in DOMAIN doc.rules |-> EngineRule(doc.rules[i])]
    BY DEF Published, compilePolicy
  <2>5. published.default = "deny" /\ published.maxActions \in 1 .. 64
    <3>1. policy \in DOMAIN g.nodes /\ g.nodes[policy].type = "policy"
      BY <2>2, TheIs
    <3>2. Typed(g.nodes[policy])
      BY <2>1, <3>1
    <3>3. QED
      BY <2>4, <3>1, <3>2 DEF Typed, FieldsOf
  <2> HIDE DEF doc, published, policy
  <2>6. /\ DOMAIN published.rules = DOMAIN doc.rules
        /\ \A i \in DOMAIN doc.rules : published.rules[i] = EngineRule(doc.rules[i])
    BY <2>4
  <2>7. Len(published.rules) <= 256
    <3>1. DOMAIN doc.rules = 1 .. Len(kept) /\ Len(kept) \in Nat
      BY <2>3
    <3>2. Len(doc.rules) = Len(kept) /\ Len(published.rules) = Len(kept)
      BY <2>3, <2>4, <3>1
    <3>3. QED
      BY <2>1, <3>2
  <2>8. ASSUME NEW rule \in ToSet(published.rules)
        PROVE  FitsSchema(rule)
    <3>1. PICK i \in DOMAIN doc.rules : rule = EngineRule(doc.rules[i])
      BY <2>6 DEF ToSet
    <3>2. i \in DOMAIN kept /\ doc.rules[i] = compileRule(g, kept[i])
      BY <2>3
    <3>3. kept[i] \in Decisions(g) /\ Kept(g, kept[i])
      BY <2>3, <3>2 DEF Reaching
    <3>4. doc.rules[i] \in ToSet(doc.rules)
      BY DEF ToSet
    <3>5. Few(compileRule(g, kept[i]))
      BY <2>1, <3>2, <3>4
    <3> HIDE DEF g
    <3>6. QED
      BY <2>1, <2>2, <3>1, <3>2, <3>3, <3>5, RuleFits
  <2>9. HasShape(published)
    BY <2>5, <2>7, <2>8 DEF HasShape, FitsSchema
  <2>10. ASSUME NEW i \in DOMAIN published.rules, NEW j \in DOMAIN published.rules,
                published.rules[i].id = published.rules[j].id
         PROVE  i = j
    <3>1. published.rules[i].id = doc.rules[i].id /\ published.rules[j].id = doc.rules[j].id
      <4>1. \A rule : EngineRule(rule).id = rule.id
        BY DEF EngineRule
      <4>2. QED
        BY <2>6, <4>1
    <3>2. QED
      BY <2>1, <2>6, <2>10, <3>1 DEF Distinct
  <2>11. QED
    BY <2>8, <2>9, <2>10 DEF validatePolicy, FitsSchema
<1>2. QED
  BY <1>1, AuthoringInductive, PTL

-----------------------------------------------------------------------------
(* What is looked up. *)

\* Where the editor knows the variable, it reads the argument the daemon does.
LEMMA SameArgument ==
    ASSUME NEW v, NEW a, IsString(substituteArg(v, a)),
           v.kind = "variable" => v.name = "$agent",
           getPath(a, "data.from") = Text(Agent)
    PROVE  resolve(v, a) = substituteArg(v, a)
<1>1. CASE v.kind = "variable"
  BY <1>1 DEF resolve, substituteArg, substitute
<1>2. CASE v.kind = "path"
  <2>1. substituteArg(v, a) = resolvePath(a, v.path)
    BY <1>2 DEF substituteArg
  <2>2. resolvePath(a, v.path) # Absent
    BY <2>1 DEF IsString, Absent
  <2>3. getPath(a, v.path) = resolvePath(a, v.path)
    BY <2>2 DEF getPath
  <2>4. QED
    BY <1>2, <2>1, <2>3 DEF resolve
<1>3. CASE v.kind # "variable" /\ v.kind # "path"
  BY <1>3 DEF resolve, substituteArg
<1>4. QED
  BY <1>1, <1>2, <1>3

\* The editor looks up every row the daemon asks for (lookups.ts,
\* collectLookupQueries; core/policy/engine.ts, collectProviderQueries): of
\* any graph that edits lead to from any policy that was opened, and any test
\* whose sender is the agent.
THEOREM AskedIsLookedUp == AuthoringSpec => []LooksUpWhatIsAsked
<1>1. ASSUME AuthoringInv PROVE LooksUpWhatIsAsked
  <2> DEFINE g == graph
             doc == compilePolicy(g)
             policy == Published(doc)
             AgentAlone(id) ==
                 (TypeOf(g, id) = "lookup" /\ FieldsOf(g, id).key.kind = "variable")
                     => FieldsOf(g, id).key.name = "$agent"
  <2>1. SUFFICES ASSUME \A id \in DOMAIN g.nodes : AgentAlone(id),
                        NEW tx \in Samples,
                        \A a \in ToSet(tx.actions) : getPath(a, "data.from") = Text(Agent),
                        NEW query \in collectProviderQueries(tx, policy), ~Blank(query)
                 PROVE  query \in collectLookupQueries(g, tx.actions)
    BY DEF LooksUpWhatIsAsked, Own
  <2>2. GraphInv(g) /\ Heighted(g)
    BY <1>1 DEF AuthoringInv
  <2>3. PICK a \in ToSet(tx.actions), rule \in ToSet(policy.rules) : query \in QueriesOf(a, rule)
    BY DEF collectProviderQueries
  <2>4. PICK req \in ToSet(rule.providers) : Resolves(req, a) /\ query = resolveTableRowArgs(req, a)
    BY <2>3 DEF QueriesOf
  <2>5. PICK d \in Decisions(g) : Kept(g, d) /\ rule.providers = compileRule(g, d).providers
    <3>1. PICK kept \in Seq({e \in Reaching(g) : Kept(g, e)}) :
              doc.rules = [i \in DOMAIN kept |-> compileRule(g, kept[i])]
      BY <2>2, CompileIs
    <3>2. policy.rules = [i \in DOMAIN doc.rules |-> EngineRule(doc.rules[i])]
      BY DEF Published
    <3>3. PICK i \in DOMAIN kept : rule = EngineRule(compileRule(g, kept[i]))
      BY <3>1, <3>2 DEF ToSet
    <3>4. kept[i] \in Decisions(g) /\ Kept(g, kept[i])
      BY DEF Reaching
    <3>5. QED
      BY <3>3, <3>4 DEF EngineRule
  <2>6. PICK id \in ToSet(upstream(g, d)) : req \in ProvidersOf(g, id)
    BY <2>2, <2>4, <2>5, ProvidersListed
  <2>7. ~Drops(g, id)
    BY <2>5 DEF Kept, Dropped
  <2>8. PICK s \in Sources(g, id, "a", "getfield") : \E l \in Sources(g, s, "in", "lookup") :
            /\ <<s, l>> \in LookupsOf(g, id)
            /\ req = [table |-> FieldsOf(g, l).table, key |-> FieldsOf(g, l).key, op |-> "contains",
                      value |-> FieldsOf(g, id).value]
    BY <2>6 DEF ProvidersOf, LookupsOf
  <2>9. PICK l \in Sources(g, s, "in", "lookup") :
            /\ <<s, l>> \in LookupsOf(g, id)
            /\ req.table = FieldsOf(g, l).table /\ req.key = FieldsOf(g, l).key
    BY <2>8
  <2>10. TypeOf(g, id) = "contains"
    BY <2>6 DEF ProvidersOf
  <2>11. FieldsOf(g, l).mode # "http"
    BY <2>7, <2>9, <2>10 DEF Drops
  <2>12. l \in DOMAIN g.nodes /\ TypeOf(g, l) = "lookup"
    BY <2>2, WiresAt DEF Sources, inboundNodes
  <2>13. resolve(req.key, a) = substituteArg(req.key, a)
    BY <2>1, <2>4, <2>9, <2>12, SameArgument DEF Resolves
  <2>14. query = queryFor(FieldsOf(g, l), a)
    BY <2>4, <2>9, <2>13 DEF queryFor, resolveTableRowArgs
  <2>15. PICK i \in DOMAIN tx.actions : a = tx.actions[i]
    BY DEF ToSet
  <2>16. QED
    <3> DEFINE lookups == {x \in DOMAIN g.nodes : TypeOf(g, x) = "lookup" /\ FieldsOf(g, x).mode # "http"}
    <3>1. <<l, i>> \in lookups \X DOMAIN tx.actions
      BY <2>11, <2>12
    <3>2. query \in {queryFor(FieldsOf(g, ia[1]), tx.actions[ia[2]]) : ia \in lookups \X DOMAIN tx.actions}
      BY <2>14, <2>15, <3>1
    <3>3. QED
      BY <2>1, <3>2 DEF collectLookupQueries
<1>2. QED
  BY <1>1, AuthoringInductive, PTL

-----------------------------------------------------------------------------
(* What is upstream: all that a node depends on, and nothing else. *)

WiresInto(g, S) == {w \in DOMAIN g.wires : g.wires[w].to \in S}

\* The wires into a node are listed, each once.
LEMMA IntoIs ==
    ASSUME NEW g, GraphInv(g), NEW x
    PROVE  /\ IsFiniteSet(WiresInto(g, {x}))
           /\ Into(g, x) \in Seq(WiresInto(g, {x}))
           /\ Len(Into(g, x)) = Cardinality(WiresInto(g, {x}))
           /\ ToSet(Into(g, x)) = WiresInto(g, {x})
<1> DEFINE W == WiresInto(g, {x})
<1>1. W \in SUBSET DOMAIN g.wires /\ W = {w \in DOMAIN g.wires : g.wires[w].to = x}
  BY DEF WiresInto
<1>2. W \in SUBSET Nat /\ IsFiniteSet(W)
  BY <1>1, FiniteGraph, FS_Subset
<1>3. Into(g, x) = InOrder(W)
  BY <1>1 DEF Into
<1> HIDE DEF W
<1>4. /\ Into(g, x) \in Seq(W) /\ Len(Into(g, x)) = Cardinality(W)
      /\ \A w \in W : \E i \in DOMAIN Into(g, x) : Into(g, x)[i] = w
  BY <1>2, <1>3, InOrderIs
<1>5. ToSet(Into(g, x)) = W
  BY <1>4 DEF ToSet
<1>6. QED
  BY <1>2, <1>4, <1>5 DEF W

\* What the search has still to follow: every wire into what it found starts
\* at what it found or will look at, and all of that is in whatever is closed.
ClosedUnder(g, C) == \A w \in DOMAIN g.wires : g.wires[w].to \in C => g.wires[w].from \in C

Seen(s) == ToSet(s.out) \cup ToSet(s.stack)

SearchInv(g, id, s, k) ==
    /\ id \in Seen(s)
    /\ \A w \in DOMAIN g.wires : g.wires[w].to \in ToSet(s.out) => g.wires[w].from \in Seen(s)
    /\ \A C : id \in C /\ ClosedUnder(g, C) => Seen(s) \subseteq C
    /\ s.stack = <<>> \/ Len(s.stack) + k = 1 + Cardinality(WiresInto(g, ToSet(s.out)))

LEMMA FollowCloses ==
    ASSUME NEW g, GraphInv(g), NEW id, NEW s, SearchOK(g, s), NEW k \in Nat, SearchInv(g, id, s, k)
    PROVE  SearchInv(g, id, follow(g, s), k + 1)
<1>0. PICK x : x = Last(s.stack)
  OBVIOUS
<1> DEFINE N == DOMAIN g.nodes
           into == Into(g, x)
           sources == [i \in DOMAIN into |-> g.wires[into[i]].from]
           rest == Front(s.stack)
           O == ToSet(s.out)
           W == WiresInto(g, {x})
<1>1. s.stack \in Seq(N) /\ s.out \in Seq(N)
  BY DEF SearchOK
<1>2. CASE s.stack = <<>>
  BY <1>2 DEF follow, SearchInv
<1>3. CASE s.stack # <<>>
  <2>1. /\ Len(s.stack) \in Nat /\ Len(s.stack) > 0 /\ x \in N
        /\ rest \in Seq(N) /\ Len(rest) = Len(s.stack) - 1
    BY <1>0, <1>1, <1>3, FrontAndLast
  <2>2. ToSet(s.stack) = ToSet(rest) \cup {x}
    BY <1>0, <1>1, <1>3, FrontAndLast
  <2>3. /\ id \in O \cup ToSet(rest) \cup {x}
        /\ \A w \in DOMAIN g.wires : g.wires[w].to \in O => g.wires[w].from \in O \cup ToSet(rest) \cup {x}
        /\ \A C : id \in C /\ ClosedUnder(g, C) => O \cup ToSet(rest) \cup {x} \subseteq C
        /\ Len(s.stack) + k = 1 + Cardinality(WiresInto(g, O))
    BY <1>3, <2>2 DEF SearchInv, Seen
  <2>4. CASE x \in O
    <3>1. follow(g, s) = [s EXCEPT !.stack = rest]
      BY <1>0, <1>3, <2>4 DEF follow
    <3>2. follow(g, s).stack = rest /\ follow(g, s).out = s.out
      BY <3>1 DEF SearchOK
    <3>3. Seen(follow(g, s)) = O \cup ToSet(rest) \cup {x}
      BY <2>4, <3>2 DEF Seen
    <3> DEFINE n == Len(s.stack)
               c == Cardinality(WiresInto(g, O))
    <3> HIDE DEF rest, O, n, c
    <3>4. Len(rest) + (k + 1) = 1 + c
      <4>1. n \in Nat /\ Len(rest) = n - 1 /\ n + k = 1 + c
        BY <2>1, <2>3 DEF n, c
      <4>2. QED
        BY <4>1
    <3>5. QED
      BY <2>3, <3>2, <3>3, <3>4 DEF SearchInv, O, c
  <2>5. CASE x \notin O
    <3>1. follow(g, s) = [stack |-> rest \o sources, out |-> Append(s.out, x)]
      BY <1>0, <1>3, <2>5 DEF follow
    <3>2. /\ IsFiniteSet(W) /\ into \in Seq(W) /\ Len(into) = Cardinality(W)
          /\ ToSet(into) = W
      BY IntoIs
    <3>3. \A w \in DOMAIN g.wires : g.wires[w].from \in N
      BY DEF GraphInv, WiringOK, Connects
    <3>4. sources \in Seq(N) /\ Len(sources) = Cardinality(W)
      <4>1. \A w \in W : w \in DOMAIN g.wires
        BY DEF WiresInto
      <4> HIDE DEF into, W, N
      <4>2. /\ DOMAIN into = 1 .. Len(into) /\ Len(into) \in Nat
            /\ \A i \in DOMAIN into : into[i] \in W
        BY <3>2
      <4>3. \A i \in DOMAIN into : sources[i] \in N
        BY <3>3, <4>1, <4>2
      <4>4. sources = [i \in 1 .. Len(into) |-> sources[i]]
        BY <4>2
      <4> HIDE DEF sources
      <4>5. QED
        BY <3>2, <4>2, <4>3, <4>4
    <3>5. ToSet(sources) = {g.wires[w].from : w \in W}
      <4> HIDE DEF W, into
      <4>1. \A i \in DOMAIN into : into[i] \in W
        BY <3>2
      <4>2. QED
        BY <3>2, <4>1 DEF ToSet
    <3>6. ToSet(Append(s.out, x)) = O \cup {x}
      <4> HIDE DEF N
      <4>1. QED
        BY <1>1, <2>1, ListAndOne
    <3>7. ToSet(rest \o sources) = ToSet(rest) \cup ToSet(sources)
      <4> HIDE DEF rest, sources, N
      <4>1. QED
        BY <2>1, <3>4, ListOfBoth
    <3>8. Seen(follow(g, s)) = O \cup {x} \cup ToSet(rest) \cup {g.wires[w].from : w \in W}
      <4>1. follow(g, s).stack = rest \o sources /\ follow(g, s).out = Append(s.out, x)
        BY <3>1
      <4> HIDE DEF rest, sources, O, W
      <4>2. QED
        BY <3>5, <3>6, <3>7, <4>1 DEF Seen
    <3>9. ToSet(follow(g, s).out) = O \cup {x}
      BY <3>1, <3>6
    <3>10. Len(follow(g, s).stack) = Len(s.stack) - 1 + Cardinality(W)
      <4> HIDE DEF rest, sources, N
      <4>1. Len(rest \o sources) = Len(rest) + Len(sources)
        BY <2>1, <3>4, ListOfBoth
      <4>2. QED
        BY <2>1, <3>1, <3>4, <4>1
    <3>11. Cardinality(WiresInto(g, O \cup {x})) = Cardinality(WiresInto(g, O)) + Cardinality(W)
      <4>1. WiresInto(g, O \cup {x}) = WiresInto(g, O) \cup W
        <5> HIDE DEF O
        <5>1. QED
          BY DEF WiresInto
      <4>2. WiresInto(g, O) \cap W = {}
        BY <2>5 DEF WiresInto
      <4>3. IsFiniteSet(WiresInto(g, O))
        <5>1. WiresInto(g, O) \in SUBSET DOMAIN g.wires
          BY DEF WiresInto
        <5>2. QED
          BY <5>1, FiniteGraph, FS_Subset
      <4> DEFINE V == WiresInto(g, O)
      <4> HIDE DEF V, W
      <4>4. Cardinality(V \cup W) = Cardinality(V) + Cardinality(W) - Cardinality(V \cap W)
        BY <3>2, <4>3, FS_Union DEF V
      <4>5. Cardinality({}) = 0
        BY FS_EmptySet
      <4>6. Cardinality(V) \in Nat /\ Cardinality(W) \in Nat
        BY <3>2, <4>3, FS_CardinalityType DEF V
      <4>7. Cardinality(V \cap W) = 0
        BY <4>2, <4>5 DEF V
      <4>8. Cardinality(V \cup W) = Cardinality(V) + Cardinality(W)
        BY <4>4, <4>6, <4>7
      <4>9. QED
        BY <4>1, <4>8 DEF V
    <3>12. Cardinality(W) \in Nat
      BY <3>2, FS_CardinalityType
    <3>13. Len(follow(g, s).stack) + (k + 1) = 1 + Cardinality(WiresInto(g, ToSet(follow(g, s).out)))
      <4>1. Cardinality(WiresInto(g, O)) = Len(s.stack) + k - 1
        <5>1. IsFiniteSet(WiresInto(g, O))
          <6>1. WiresInto(g, O) \in SUBSET DOMAIN g.wires
            BY DEF WiresInto
          <6>2. QED
            BY <6>1, FiniteGraph, FS_Subset
        <5>2. Cardinality(WiresInto(g, O)) \in Nat
          BY <5>1, FS_CardinalityType
        <5> DEFINE n == Len(s.stack)
                   c == Cardinality(WiresInto(g, O))
        <5>3. n \in Nat /\ c \in Nat /\ n + k = 1 + c
          BY <2>1, <2>3, <5>2
        <5> HIDE DEF n, c
        <5>4. c = n + k - 1
          BY <5>3
        <5>5. QED
          BY <5>4 DEF n, c
      <4> DEFINE n == Len(s.stack)
                 c == Cardinality(WiresInto(g, O))
                 d == Cardinality(W)
      <4>2. n \in Nat /\ d \in Nat /\ c = n + k - 1
        BY <2>1, <3>12, <4>1
      <4>3. /\ Len(follow(g, s).stack) = n - 1 + d
            /\ Cardinality(WiresInto(g, ToSet(follow(g, s).out))) = c + d
        BY <3>9, <3>10, <3>11
      <4> HIDE DEF n, c, d
      <4>4. QED
        BY <4>2, <4>3
    <3>14. ASSUME NEW w \in DOMAIN g.wires, g.wires[w].to \in O \cup {x}
           PROVE  g.wires[w].from \in Seen(follow(g, s))
      <4>1. CASE g.wires[w].to = x
        BY <3>8, <3>14, <4>1 DEF WiresInto
      <4>2. CASE g.wires[w].to \in O
        BY <2>3, <3>8, <4>2
      <4>3. QED
        BY <3>14, <4>1, <4>2
    <3>15. ASSUME NEW C, id \in C, ClosedUnder(g, C) PROVE Seen(follow(g, s)) \subseteq C
      <4>1. O \cup ToSet(rest) \cup {x} \subseteq C
        BY <2>3, <3>15
      <4>2. \A w \in W : g.wires[w].from \in C
        BY <3>15, <4>1 DEF ClosedUnder, WiresInto
      <4>3. QED
        BY <3>8, <4>1, <4>2
    <3>16. id \in Seen(follow(g, s))
      BY <2>3, <3>8
    <3>17. QED
      BY <3>9, <3>13, <3>14, <3>15, <3>16 DEF SearchInv
  <2>6. QED
    BY <2>4, <2>5
<1>4. QED
  BY <1>2, <1>3

\* upstream finds a node, all that it depends on, and nothing else.
LEMMA UpstreamCloses ==
    ASSUME NEW g, GraphInv(g), NEW id \in DOMAIN g.nodes
    PROVE  /\ id \in ToSet(upstream(g, id))
           /\ ToSet(upstream(g, id)) \subseteq DOMAIN g.nodes
           /\ ClosedUnder(g, ToSet(upstream(g, id)))
           /\ \A C : id \in C /\ ClosedUnder(g, C) => ToSet(upstream(g, id)) \subseteq C
<1> DEFINE steps == Cardinality(DOMAIN g.wires) + 1
           walk == CHOOSE f : Walks(steps, g, id, f)
<1>1. IsFiniteSet(DOMAIN g.wires) /\ Cardinality(DOMAIN g.wires) \in Nat /\ steps \in Nat
  BY FiniteGraph, FS_CardinalityType
<1>2. upstream(g, id) = walk[steps].out
  BY DEF upstream, Walks
<1>3. Walks(steps, g, id, walk)
  BY <1>1, WalkExists
<1> HIDE DEF walk, steps
<1>4. /\ walk[0] = [stack |-> <<id>>, out |-> <<>>]
      /\ \A k \in 1 .. steps : walk[k] = follow(g, walk[k - 1])
  BY <1>1, <1>3 DEF Walks
<1> DEFINE S == {k \in Nat : k <= steps => SearchOK(g, walk[k]) /\ SearchInv(g, id, walk[k], k)}
<1>5. 0 \in S
  <2>1. <<id>> \in Seq(DOMAIN g.nodes) /\ <<>> \in Seq(DOMAIN g.nodes)
    <3> DEFINE N == DOMAIN g.nodes
    <3>1. id \in N
      OBVIOUS
    <3> HIDE DEF N
    <3>2. <<id>> \in Seq(N) /\ <<>> \in Seq(N)
      BY <3>1
    <3>3. QED
      BY <3>2 DEF N
  <2>2. walk[0].stack = <<id>> /\ walk[0].out = <<>> /\ walk[0] = [stack |-> <<id>>, out |-> <<>>]
    BY <1>4
  <2>3. SearchOK(g, walk[0])
    BY <2>1, <2>2 DEF SearchOK
  <2>4. ToSet(walk[0].out) = {} /\ ToSet(walk[0].stack) = {id} /\ Len(walk[0].stack) = 1
    BY <2>2 DEF ToSet
  <2>5. Cardinality(WiresInto(g, {})) = 0
    BY FS_EmptySet DEF WiresInto
  <2>6. SearchInv(g, id, walk[0], 0)
    BY <2>4, <2>5 DEF SearchInv, Seen
  <2>7. QED
    BY <2>3, <2>6
<1>6. ASSUME NEW k \in S PROVE k + 1 \in S
  <2>1. SUFFICES ASSUME k + 1 <= steps
                 PROVE  SearchOK(g, walk[k + 1]) /\ SearchInv(g, id, walk[k + 1], k + 1)
    OBVIOUS
  <2>2. SearchOK(g, walk[k]) /\ SearchInv(g, id, walk[k], k) /\ k + 1 \in 1 .. steps /\ (k + 1) - 1 = k
    BY <1>1, <2>1
  <2>3. walk[k + 1] = follow(g, walk[k])
    BY <1>4, <2>2
  <2>4. QED
    BY <2>2, <2>3, FollowKeeps, FollowCloses
<1>7. S = Nat
  <2> HIDE DEF S
  <2>1. S \in SUBSET Nat
    BY DEF S
  <2>2. QED
    BY <1>5, <1>6, <2>1, Induct
<1> DEFINE s == walk[steps]
<1>8. SearchOK(g, s) /\ SearchInv(g, id, s, steps)
  BY <1>1, <1>7
<1>9. s.stack \in Seq(DOMAIN g.nodes) /\ s.out \in Seq(DOMAIN g.nodes)
  BY <1>8 DEF SearchOK
<1> HIDE DEF s
<1>10. s.stack = <<>>
  <2> DEFINE W == WiresInto(g, ToSet(s.out))
             n == Len(s.stack)
             c == Cardinality(W)
             m == Cardinality(DOMAIN g.wires)
  <2>1. W \in SUBSET DOMAIN g.wires
    BY DEF WiresInto
  <2>2. IsFiniteSet(W) /\ c <= m /\ c \in Nat /\ m \in Nat
    BY <1>1, <2>1, FS_Subset, FS_CardinalityType
  <2>3. SUFFICES ASSUME s.stack # <<>> PROVE FALSE
    OBVIOUS
  <2>4. n + steps = 1 + c /\ steps = m + 1
    BY <1>8, <2>3 DEF SearchInv, steps
  <2>5. n \in Nat /\ n # 0
    BY <1>9, <2>3
  <2> HIDE DEF n, c, m
  <2>6. QED
    BY <2>2, <2>4, <2>5
<1>11. ToSet(s.stack) = {}
  BY <1>10 DEF ToSet
<1>12. upstream(g, id) = s.out
  BY <1>2 DEF s
<1>13. Seen(s) = ToSet(upstream(g, id))
  BY <1>11, <1>12 DEF Seen
<1>14. ClosedUnder(g, ToSet(upstream(g, id)))
  BY <1>8, <1>12, <1>13 DEF SearchInv, ClosedUnder
<1>15. ToSet(upstream(g, id)) \subseteq DOMAIN g.nodes
  BY <1>9, <1>12 DEF ToSet
<1>16. QED
  BY <1>8, <1>13, <1>14, <1>15 DEF SearchInv

\* What a node upstream depends on is upstream.
LEMMA UpstreamOfUpstream ==
    ASSUME NEW g, GraphInv(g), NEW id \in DOMAIN g.nodes, NEW x \in ToSet(upstream(g, id))
    PROVE  /\ x \in DOMAIN g.nodes
           /\ ToSet(upstream(g, x)) \subseteq ToSet(upstream(g, id))
BY UpstreamCloses

-----------------------------------------------------------------------------
(* What a match has, and what feeds the ports of its tests. *)

\* A condition of a rule comes from its route or a test, and every condition
\* that no later one replaces is there.
LEMMA MatchHas ==
    ASSUME NEW g, NEW up \in Seq(DOMAIN g.nodes), NEW c
    PROVE  /\ c \in MatchOf(g, up) =>
                c \in RouteConditions(g, up) \/ \E id \in ToSet(up) : c \in ConditionsOf(g, id)
           /\ (/\ c \in RouteConditions(g, up)
               /\ \A id \in ToSet(up) : \A d \in ConditionsOf(g, id) : d.path # c.path)
              => c \in MatchOf(g, up)
           /\ (\E id \in ToSet(up) : /\ c \in ConditionsOf(g, id)
                                     /\ \A other \in ToSet(up) : \A d \in ConditionsOf(g, other) :
                                           d.path = c.path => other = id)
              => c \in MatchOf(g, up)
<1> DEFINE n == Len(up)
           route == RouteConditions(g, up)
           tests == [i \in DOMAIN up |-> ConditionsOf(g, up[i])]
           all == <<route>> \o tests
           M == {i \in DOMAIN all : TRUE}
<1>1. n \in Nat /\ DOMAIN up = 1 .. n
  OBVIOUS
<1>2. tests = [i \in 1 .. n |-> tests[i]] /\ \A i \in 1 .. n : tests[i] = ConditionsOf(g, up[i])
  BY <1>1
<1>3. MatchOf(g, up) =
        UNION {{d \in all[i] : \A j \in DOMAIN all : \A e \in all[j] : e.path = d.path => j <= i} :
               i \in DOMAIN all}
  BY DEF MatchOf
<1> HIDE DEF tests, route
<1>4. /\ DOMAIN all = 1 .. n + 1 /\ all[1] = route
      /\ \A i \in 1 .. n : all[i + 1] = tests[i]
  BY <1>1, <1>2, HeadAndRest
<1> HIDE DEF all, n
<1>5. /\ \A i \in 1 .. n + 1 : i = 1 \/ (i - 1 \in 1 .. n /\ (i - 1) + 1 = i)
      /\ 1 \in 1 .. n + 1 /\ \A i \in 1 .. n : i + 1 \in 1 .. n + 1
  BY <1>1
<1>6. ASSUME NEW i \in DOMAIN all, c \in all[i],
             \A j \in DOMAIN all : \A e \in all[j] : e.path = c.path => j <= i
      PROVE  c \in MatchOf(g, up)
  BY <1>3, <1>6
<1>7. \A i \in 1 .. n : all[i + 1] = ConditionsOf(g, up[i]) /\ up[i] \in ToSet(up)
  BY <1>1, <1>2, <1>4 DEF ToSet
<1>8. ASSUME c \in MatchOf(g, up)
      PROVE  c \in route \/ \E id \in ToSet(up) : c \in ConditionsOf(g, id)
  <2>1. PICK i \in DOMAIN all : c \in all[i]
    BY <1>3, <1>8
  <2>2. CASE i = 1
    BY <1>4, <2>1, <2>2
  <2>3. CASE i - 1 \in 1 .. n /\ (i - 1) + 1 = i
    BY <1>7, <2>1, <2>3
  <2>4. QED
    BY <1>4, <1>5, <2>2, <2>3
<1>9. ASSUME c \in route, \A id \in ToSet(up) : \A d \in ConditionsOf(g, id) : d.path # c.path
      PROVE  c \in MatchOf(g, up)
  <2>1. ASSUME NEW j \in DOMAIN all, NEW e \in all[j], e.path = c.path PROVE j <= 1
    <3>1. CASE j = 1
      BY <3>1
    <3>2. CASE j - 1 \in 1 .. n /\ (j - 1) + 1 = j
      <4>1. e \in ConditionsOf(g, up[j - 1]) /\ up[j - 1] \in ToSet(up)
        BY <1>7, <2>1, <3>2
      <4>2. QED
        BY <1>9, <2>1, <4>1
    <3>3. QED
      BY <1>4, <1>5, <3>1, <3>2
  <2>2. QED
    BY <1>4, <1>5, <1>6, <1>9, <2>1
<1>10. ASSUME NEW id \in ToSet(up), c \in ConditionsOf(g, id),
              \A other \in ToSet(up) : \A d \in ConditionsOf(g, other) : d.path = c.path => other = id
       PROVE  c \in MatchOf(g, up)
  <2>1. PICK i \in DOMAIN up : up[i] = id /\ \A j \in DOMAIN up : up[j] = id => j <= i
    BY LastAt
  <2>2. i + 1 \in DOMAIN all /\ c \in all[i + 1] /\ i \in Nat
    BY <1>1, <1>4, <1>5, <1>7, <1>10, <2>1
  <2>3. ASSUME NEW j \in DOMAIN all, NEW e \in all[j], e.path = c.path PROVE j <= i + 1
    <3>1. CASE j = 1
      BY <2>2, <3>1
    <3>2. CASE j - 1 \in 1 .. n /\ (j - 1) + 1 = j
      <4>1. e \in ConditionsOf(g, up[j - 1]) /\ up[j - 1] \in ToSet(up)
        BY <1>7, <2>3, <3>2
      <4>2. up[j - 1] = id
        BY <1>10, <2>3, <4>1
      <4>3. j - 1 <= i /\ j \in Int
        BY <1>1, <1>4, <2>1, <3>2, <4>2
      <4>4. QED
        BY <2>2, <4>3
    <3>3. QED
      BY <1>4, <1>5, <3>1, <3>2
  <2>4. QED
    BY <1>6, <2>2, <2>3
<1>11. QED
  BY <1>8, <1>9, <1>10 DEF route

LEMMA OneSource ==
    ASSUME NEW g, GraphInv(g), NEW id, NEW key, ~isMultiInput(TypeOf(g, id), key),
           NEW s \in inboundNodes(g, id, key)
    PROVE  inboundNodes(g, id, key) = {s}
<1>1. SUFFICES ASSUME NEW t \in inboundNodes(g, id, key) PROVE t = s
  OBVIOUS
<1>2. PICK v \in DOMAIN g.wires : g.wires[v].to = id /\ g.wires[v].key = key /\ s = g.wires[v].from
  BY DEF inboundNodes
<1>3. PICK w \in DOMAIN g.wires : g.wires[w].to = id /\ g.wires[w].key = key /\ t = g.wires[w].from
  BY <1>1 DEF inboundNodes
<1>4. v = w
  BY <1>2, <1>3 DEF GraphInv, WiringOK, TypeOf
<1>5. QED
  BY <1>2, <1>3, <1>4

\* What is upstream of a node has what it depends on there too.
LEMMA SourceUpstream ==
    ASSUME NEW g, GraphInv(g), NEW d \in DOMAIN g.nodes, NEW id \in ToSet(upstream(g, d)),
           NEW key, NEW s \in inboundNodes(g, id, key)
    PROVE  s \in ToSet(upstream(g, d))
BY UpstreamCloses, SourceIs DEF ClosedUnder

\* The types by what they put out.
LEMMA TypesAre ==
    ASSUME NEW type \in NodeTypes
    PROVE  /\ OutType(type) = "tx" <=> type \in {"transaction", "routeif"}
           /\ OutType(type) = "val" <=> type \in {"getfield", "constant", "lookup"}
           /\ OutType(type) = "bool" <=>
                type \in {"compare", "inlist", "contains", "booland", "boolor", "boolnot"}
           /\ OutType(type) \in {"verdict", "none"} <=> type \in {"decision", "aggregate", "policy"}
           /\ InPorts(type) \subseteq {"tx", "a", "cond", "in"}
           /\ \A key : isMultiInput(type, key) => key = "in" /\ type \in {"booland", "boolor", "policy"}
<1>1. type \in {"transaction", "routeif", "getfield", "constant", "compare", "inlist", "contains",
                "booland", "boolor", "boolnot", "lookup", "decision", "aggregate", "policy"}
  BY DEF NodeTypes
<1>2. QED
  BY <1>1 DEF OutType, InPorts, isMultiInput

-----------------------------------------------------------------------------
(* Plain rules. *)

\* What Plain says of one of the decisions that count.
PlainRule(g, d) ==
    LET up == ToSet(upstream(g, d)) IN
    /\ d \in Decisions(g) /\ Kept(g, d)
    /\ \A id \in up :
          /\ ~Warns(g, id)
          /\ \A key \in InPorts(TypeOf(g, id)) \ {"cond"} : inboundNodes(g, id, key) # {}
    /\ \A w \in DOMAIN g.wires : g.wires[w].to \in up =>
          ~reaches(g, g.wires[w].to, g.wires[w].from)
    /\ Cardinality({id \in up : TypeOf(g, id) = "routeif"}) = 1
    /\ \A r \in inboundNodes(g, d, "tx") : TypeOf(g, r) = "routeif" /\ FieldsOf(g, r).contract # ""
    /\ \A id \in up : Tests(g, id) =>
          \E s \in Sources(g, id, "a", "getfield") :
              /\ \E t \in inboundNodes(g, s, "in") : OutType(TypeOf(g, t)) = "tx"
              /\ FieldsOf(g, s).path \notin {"contract", "action"}
    /\ \A id, other \in up : Tests(g, id) /\ Tests(g, other) =>
          \A s \in Sources(g, id, "a", "getfield"), t \in Sources(g, other, "a", "getfield") :
              FieldsOf(g, s).path = FieldsOf(g, t).path => id = other

LEMMA PathsTested ==
    ASSUME NEW g, GraphInv(g), NEW id, NEW s \in Sources(g, id, "a", "getfield")
    PROVE  {FieldsOf(g, x).path : x \in Sources(g, id, "a", "getfield")} = {FieldsOf(g, s).path}
<1>1. s \in inboundNodes(g, id, "a")
  BY DEF Sources
<1>2. inboundNodes(g, id, "a") = {s}
  BY <1>1, OneSource DEF isMultiInput
<1>3. Sources(g, id, "a", "getfield") = {s}
  BY <1>2 DEF Sources
<1>4. QED
  BY <1>3

LEMMA PlainRules ==
    ASSUME NEW g, GraphInv(g), Plain(g), NEW d \in Reaching(g)
    PROVE  PlainRule(g, d)
<1> DEFINE counted == ToSet(upstream(g, The(g, "policy")))
           up == ToSet(upstream(g, d))
<1>1. d \in Decisions(g) /\ d \in counted
  BY DEF Reaching, reaches
<1>2. The(g, "policy") \in DOMAIN g.nodes
  BY TheIs
<1>3. up \subseteq counted
  BY <1>1, <1>2, UpstreamOfUpstream
<1>4. Kept(g, d) /\ \A id \in up : ~Warns(g, id)
  BY DEF Plain, compilesQuietly
<1>5. \A id \in up : \A key \in InPorts(TypeOf(g, id)) \ {"cond"} : inboundNodes(g, id, key) # {}
  BY <1>3 DEF Plain
<1>6. \A w \in DOMAIN g.wires : g.wires[w].to \in up => ~reaches(g, g.wires[w].to, g.wires[w].from)
  BY <1>3 DEF Plain
<1>7. /\ Cardinality({id \in up : TypeOf(g, id) = "routeif"}) = 1
      /\ \A r \in inboundNodes(g, d, "tx") : TypeOf(g, r) = "routeif" /\ FieldsOf(g, r).contract # ""
  BY <1>1 DEF Plain
<1> DEFINE PathOf(id) == {FieldsOf(g, s).path : s \in Sources(g, id, "a", "getfield")}
<1>8. /\ \A id \in up : Tests(g, id) =>
            /\ \E s \in Sources(g, id, "a", "getfield") :
                  \E t \in inboundNodes(g, s, "in") : OutType(TypeOf(g, t)) = "tx"
            /\ PathOf(id) \cap {"contract", "action"} = {}
            /\ \A other \in up : Tests(g, other) => (PathOf(id) = PathOf(other) => id = other)
  BY <1>1 DEF Plain
<1>9. ASSUME NEW id \in up, Tests(g, id)
      PROVE  \E s \in Sources(g, id, "a", "getfield") :
                 /\ \E t \in inboundNodes(g, s, "in") : OutType(TypeOf(g, t)) = "tx"
                 /\ FieldsOf(g, s).path \notin {"contract", "action"}
  <2>1. PICK s \in Sources(g, id, "a", "getfield") :
            \E t \in inboundNodes(g, s, "in") : OutType(TypeOf(g, t)) = "tx"
    BY <1>8, <1>9
  <2>2. FieldsOf(g, s).path \in PathOf(id)
    OBVIOUS
  <2>3. PathOf(id) \cap {"contract", "action"} = {}
    BY <1>8, <1>9
  <2> HIDE DEF PathOf
  <2>4. QED
    BY <2>1, <2>2, <2>3
<1>10. ASSUME NEW id \in up, NEW other \in up, Tests(g, id), Tests(g, other),
              NEW s \in Sources(g, id, "a", "getfield"), NEW t \in Sources(g, other, "a", "getfield"),
              FieldsOf(g, s).path = FieldsOf(g, t).path
       PROVE  id = other
  <2>1. PathOf(id) = {FieldsOf(g, s).path} /\ PathOf(other) = {FieldsOf(g, t).path}
    BY PathsTested
  <2> HIDE DEF PathOf
  <2>2. PathOf(id) = PathOf(other)
    BY <1>10, <2>1
  <2>3. QED
    BY <1>8, <1>10, <2>2
<1> HIDE DEF PathOf
<1>11. QED
  BY <1>1, <1>4, <1>5, <1>6, <1>7, <1>9, <1>10 DEF PlainRule

\* A plain rule has one route, which reads the transaction itself.
RouteAt(g, d, r, t) ==
    /\ r \in ToSet(upstream(g, d)) /\ r \in DOMAIN g.nodes /\ t \in DOMAIN g.nodes /\ r # t
    /\ TypeOf(g, r) = "routeif" /\ TypeOf(g, t) = "transaction"
    /\ inboundNodes(g, d, "tx") = {r} /\ inboundNodes(g, r, "tx") = {t}
    /\ FieldsOf(g, r).contract # ""
    /\ RouteOf(g, upstream(g, d)) # 0 /\ upstream(g, d)[RouteOf(g, upstream(g, d))] = r
    /\ \A id \in ToSet(upstream(g, d)) :
          OutType(TypeOf(g, id)) = "tx" => id = r \/ TypeOf(g, id) = "transaction"

LEMMA RouteIs ==
    ASSUME NEW g, GraphInv(g), NEW d, PlainRule(g, d)
    PROVE  \E r, t : RouteAt(g, d, r, t)
<1> DEFINE up == ToSet(upstream(g, d))
           routes == {id \in up : TypeOf(g, id) = "routeif"}
<1>1. d \in DOMAIN g.nodes /\ TypeOf(g, d) = "decision"
  BY DEF PlainRule, Decisions
<1>2. d \in up /\ up \subseteq DOMAIN g.nodes /\ IsFiniteSet(up)
  BY <1>1, UpstreamCloses, FiniteGraph, FS_Subset
<1>3. \A id \in up : TypeOf(g, id) \in NodeTypes
  BY <1>2 DEF GraphInv, WiringOK, TypeOf
<1>4. PICK r \in routes : routes = {r}
  <2>1. Cardinality(routes) = 1
    BY DEF PlainRule
  <2>2. IsFiniteSet(routes)
    <3>1. routes \in SUBSET up
      OBVIOUS
    <3>2. QED
      BY <1>2, <3>1, FS_Subset
  <2>3. QED
    BY <2>1, <2>2, FS_Singleton
<1>5. \A id \in up : TypeOf(g, id) = "routeif" => id = r
  BY <1>4
<1>6. r \in up /\ TypeOf(g, r) = "routeif"
  OBVIOUS
<1> HIDE DEF routes
<1>7. PICK s \in inboundNodes(g, d, "tx") : TRUE
  <2>1. "tx" \in InPorts("decision") \ {"cond"}
    BY DEF InPorts
  <2>2. \A key \in InPorts(TypeOf(g, d)) \ {"cond"} : inboundNodes(g, d, key) # {}
    BY <1>2 DEF PlainRule
  <2>3. inboundNodes(g, d, "tx") # {}
    BY <1>1, <2>1, <2>2
  <2>4. QED
    BY <2>3
<1>8. inboundNodes(g, d, "tx") = {r} /\ FieldsOf(g, r).contract # ""
  <2>1. TypeOf(g, s) = "routeif" /\ FieldsOf(g, s).contract # ""
    BY DEF PlainRule
  <2>2. s \in up
    BY <1>1, <1>2, SourceUpstream
  <2>3. s = r
    BY <1>5, <2>1, <2>2
  <2>4. ~isMultiInput(TypeOf(g, d), "tx")
    BY DEF isMultiInput
  <2>5. inboundNodes(g, d, "tx") = {s}
    BY <2>4, OneSource
  <2>6. QED
    BY <2>1, <2>3, <2>5
<1>9. PICK t \in inboundNodes(g, r, "tx") : TRUE
  <2>1. "tx" \in InPorts("routeif") \ {"cond"}
    BY DEF InPorts
  <2>2. \A key \in InPorts(TypeOf(g, r)) \ {"cond"} : inboundNodes(g, r, key) # {}
    BY <1>6 DEF PlainRule
  <2>3. inboundNodes(g, r, "tx") # {}
    BY <1>6, <2>1, <2>2
  <2>4. QED
    BY <2>3
<1>10. /\ t \in DOMAIN g.nodes /\ r \in DOMAIN g.nodes /\ t # r /\ TypeOf(g, t) \in NodeTypes
       /\ portsCompatible(TypeOf(g, t), "routeif", "tx")
  BY <1>6, SourceIs
<1>11. TypeOf(g, t) = "transaction"
  <2>1. OutType(TypeOf(g, t)) = "tx"
    BY <1>10 DEF portsCompatible, InType
  <2>2. TypeOf(g, t) \in {"transaction", "routeif"}
    BY <1>10, <2>1, TypesAre
  <2>3. t \in up
    BY <1>1, <1>6, SourceUpstream
  <2>4. QED
    BY <1>5, <1>10, <2>2, <2>3
<1>12. inboundNodes(g, r, "tx") = {t}
  <2>1. ~isMultiInput(TypeOf(g, r), "tx")
    BY DEF isMultiInput
  <2>2. QED
    BY <2>1, OneSource
<1>13. RouteOf(g, upstream(g, d)) # 0 /\ upstream(g, d)[RouteOf(g, upstream(g, d))] = r
  <2> DEFINE list == upstream(g, d)
             I == {i \in 1 .. Len(list) : TypeOf(g, list[i]) = "routeif"}
  <2>1. list \in Seq(DOMAIN g.nodes)
    BY <1>1, UpstreamIs
  <2>2. Len(list) \in Nat /\ DOMAIN list = 1 .. Len(list)
    BY <2>1
  <2>3. PICK i \in 1 .. Len(list) : list[i] = r
    BY <1>6, <2>2 DEF ToSet
  <2>4. i \in I /\ I \in SUBSET Nat
    BY <1>6, <2>3
  <2>5. RouteOf(g, list) = Min(I)
    BY <2>4 DEF RouteOf, SelectInSeq
  <2>6. Min(I) \in I
    <3> HIDE DEF I
    <3>1. QED
      BY <2>4, MinIsLeast
  <2>7. Min(I) \in 1 .. Len(list) /\ TypeOf(g, list[Min(I)]) = "routeif"
    BY <2>6
  <2> HIDE DEF I
  <2>8. list[Min(I)] \in up
    BY <2>2, <2>7 DEF ToSet
  <2>9. QED
    BY <1>5, <2>2, <2>5, <2>7, <2>8
<1>14. ASSUME NEW id \in up, OutType(TypeOf(g, id)) = "tx"
       PROVE  id = r \/ TypeOf(g, id) = "transaction"
  <2>1. TypeOf(g, id) \in {"transaction", "routeif"}
    BY <1>3, <1>14, TypesAre
  <2>2. QED
    BY <1>5, <2>1
<1>15. QED
  BY <1>6, <1>8, <1>10, <1>11, <1>12, <1>13, <1>14 DEF RouteAt

-----------------------------------------------------------------------------
(* What the editor says of a node, by how far it looks back. *)

Passes(n, g, a, f) ==
    f = [k \in 0 .. n |-> [x \in DOMAIN g.nodes |->
            /\ k > 0
            /\ \/ TypeOf(g, x) = "transaction"
               \/ /\ TypeOf(g, x) = "routeif"
                  /\ Text(FieldsOf(g, x).contract) = getPath(a, "contract")
                  /\ FieldsOf(g, x).action = "" \/ Text(FieldsOf(g, x).action) = getPath(a, "action")
                  /\ \E s \in inboundNodes(g, x, "tx") : f[k - 1][s]]]

LEMMA PassesExists ==
    ASSUME NEW g, NEW a, NEW n \in Nat
    PROVE  \E f : Passes(n, g, a, f)
<1> DEFINE Step(k, p) == [x \in DOMAIN g.nodes |->
            /\ k > 0
            /\ \/ TypeOf(g, x) = "transaction"
               \/ /\ TypeOf(g, x) = "routeif"
                  /\ Text(FieldsOf(g, x).contract) = getPath(a, "contract")
                  /\ FieldsOf(g, x).action = "" \/ Text(FieldsOf(g, x).action) = getPath(a, "action")
                  /\ \E s \in inboundNodes(g, x, "tx") : p[s]]
           S == {k \in Nat : \E f : Passes(k, g, a, f)}
<1>1. \A m, f : Passes(m, g, a, f) <=> f = [k \in 0 .. m |-> Step(k, f[k - 1])]
  BY DEF Passes
<1>2. \A p, q : Step(0, p) = Step(0, q)
  OBVIOUS
<1> HIDE DEF Step
<1>3. 0 \in S
  <2> DEFINE f == [k \in 0 .. 0 |-> Step(0, <<>>)]
  <2>1. f = [k \in 0 .. 0 |-> Step(k, f[k - 1])]
    <3>1. \A k \in 0 .. 0 : k = 0
      OBVIOUS
    <3>2. \A k \in 0 .. 0 : f[k] = Step(k, f[k - 1])
      BY <1>2, <3>1
    <3>3. f = [k \in 0 .. 0 |-> f[k]]
      OBVIOUS
    <3> HIDE DEF f
    <3>4. QED
      BY <3>2, <3>3
  <2>2. QED
    BY <1>1, <2>1
<1>4. ASSUME NEW m \in S PROVE m + 1 \in S
  <2>1. PICK f : Passes(m, g, a, f)
    OBVIOUS
  <2> DEFINE h == [k \in 0 .. m + 1 |-> IF k = m + 1 THEN Step(k, f[m]) ELSE f[k]]
  <2>2. m \in Nat
    OBVIOUS
  <2>3. \A k \in 0 .. m + 1 : h[k] = IF k = m + 1 THEN Step(k, f[m]) ELSE f[k]
    OBVIOUS
  <2>4. h = [k \in 0 .. m + 1 |-> h[k]]
    OBVIOUS
  <2> HIDE DEF h
  <2>5. ASSUME NEW k \in 0 .. m + 1 PROVE h[k] = Step(k, h[k - 1])
    <3>1. CASE k = m + 1
      <4>1. k - 1 = m /\ m \in 0 .. m + 1 /\ m # m + 1
        BY <2>2, <3>1
      <4>2. QED
        BY <2>3, <3>1, <4>1
    <3>2. CASE k # m + 1
      <4>1. k \in 0 .. m
        BY <2>2, <3>2
      <4>2. f[k] = Step(k, f[k - 1])
        BY <1>1, <2>1, <4>1
      <4>3. CASE k = 0
        BY <1>2, <2>3, <3>2, <4>2, <4>3
      <4>4. CASE k # 0
        <5>1. k - 1 \in 0 .. m + 1 /\ k - 1 # m + 1
          BY <2>2, <4>1, <4>4
        <5>2. h[k - 1] = f[k - 1] /\ h[k] = f[k]
          BY <2>3, <3>2, <5>1
        <5>3. QED
          BY <4>2, <5>2
      <4>5. QED
        BY <4>3, <4>4
    <3>3. QED
      BY <3>1, <3>2
  <2>6. h = [k \in 0 .. m + 1 |-> Step(k, h[k - 1])]
    BY <2>4, <2>5
  <2>7. Passes(m + 1, g, a, h)
    BY <1>1, <2>6
  <2>8. QED
    BY <2>2, <2>7
<1>5. S = Nat
  <2> HIDE DEF S
  <2>1. S \in SUBSET Nat
    BY DEF S
  <2>2. QED
    BY <1>3, <1>4, <2>1, Induct
<1>6. QED
  BY <1>5

\* The route lets through what is of its contract and action.
LEMMA RoutedIs ==
    ASSUME NEW g, GraphInv(g), NEW a, NEW d, NEW r, NEW t, RouteAt(g, d, r, t)
    PROVE  /\ \A x \in DOMAIN g.nodes : TypeOf(g, x) = "transaction" => Routed(g, a, x)
           /\ Routed(g, a, r) <=>
                /\ Text(FieldsOf(g, r).contract) = getPath(a, "contract")
                /\ FieldsOf(g, r).action = "" \/ Text(FieldsOf(g, r).action) = getPath(a, "action")
<1> DEFINE n == Depth(g)
           f == CHOOSE h : Passes(n, g, a, h)
<1>1. n \in Nat /\ n > 1
  <2>1. {r, t} \in SUBSET DOMAIN g.nodes /\ r # t
    BY DEF RouteAt
  <2>2. IsFiniteSet(DOMAIN g.nodes) /\ IsFiniteSet({t}) /\ Cardinality({t}) = 1
    BY FiniteGraph, FS_Singleton
  <2>3. {r, t} = {t} \cup {r} /\ r \notin {t}
    BY <2>1
  <2>4. Cardinality({r, t}) = 2
    <3>1. Cardinality({t} \cup {r}) = IF r \in {t} THEN Cardinality({t}) ELSE Cardinality({t}) + 1
      BY <2>2, FS_AddElement
    <3>2. QED
      BY <2>2, <2>3, <3>1
  <2>5. Cardinality({r, t}) <= n
    BY <2>1, <2>2, FS_Subset DEF Depth
  <2>6. n \in Nat
    BY <2>2, FS_CardinalityType DEF Depth
  <2>7. QED
    BY <2>4, <2>5, <2>6
<1>2. \A x : Routed(g, a, x) <=> f[n][x]
  BY DEF Routed, Passes
<1>3. Passes(n, g, a, f)
  BY <1>1, PassesExists
<1> HIDE DEF f, n
<1>4. ASSUME NEW k \in 1 .. n, NEW x \in DOMAIN g.nodes
      PROVE  f[k][x] <=>
                \/ TypeOf(g, x) = "transaction"
                \/ /\ TypeOf(g, x) = "routeif"
                   /\ Text(FieldsOf(g, x).contract) = getPath(a, "contract")
                   /\ FieldsOf(g, x).action = "" \/ Text(FieldsOf(g, x).action) = getPath(a, "action")
                   /\ \E s \in inboundNodes(g, x, "tx") : f[k - 1][s]
  <2>1. k \in 0 .. n /\ k > 0
    BY <1>1
  <2>2. QED
    BY <1>3, <2>1 DEF Passes
<1>5. n \in 1 .. n /\ n - 1 \in 1 .. n
  BY <1>1
<1>6. f[n - 1][t]
  BY <1>4, <1>5 DEF RouteAt
<1>7. \E s \in inboundNodes(g, r, "tx") : f[n - 1][s]
  BY <1>6 DEF RouteAt
<1>8. \A x \in DOMAIN g.nodes : TypeOf(g, x) = "transaction" => Routed(g, a, x)
  BY <1>2, <1>4, <1>5
<1>9. r \in DOMAIN g.nodes /\ TypeOf(g, r) = "routeif"
  BY DEF RouteAt
<1>10. f[n][r] <=>
         /\ Text(FieldsOf(g, r).contract) = getPath(a, "contract")
         /\ FieldsOf(g, r).action = "" \/ Text(FieldsOf(g, r).action) = getPath(a, "action")
  BY <1>4, <1>5, <1>7, <1>9
<1>11. QED
  BY <1>2, <1>8, <1>10

\* The table of what each node puts out exists.
HoldsTable(n, g, a, evidence, f) ==
    f = [k \in 0 .. n |-> [x \in DOMAIN g.nodes |-> k > 0 /\ evalNode(g, a, evidence, x, f[k - 1])]]

LEMMA HoldsExists ==
    ASSUME NEW g, NEW a, NEW evidence, NEW n \in Nat
    PROVE  \E f : HoldsTable(n, g, a, evidence, f)
<1> DEFINE Step(k, p) == [x \in DOMAIN g.nodes |-> k > 0 /\ evalNode(g, a, evidence, x, p)]
           S == {k \in Nat : \E f : HoldsTable(k, g, a, evidence, f)}
<1>1. \A m, f : HoldsTable(m, g, a, evidence, f) <=> f = [k \in 0 .. m |-> Step(k, f[k - 1])]
  BY DEF HoldsTable
<1>2. \A p, q : Step(0, p) = Step(0, q)
  <2>1. ~(0 > 0)
    OBVIOUS
  <2>2. QED
    BY <2>1
<1> HIDE DEF Step
<1>3. 0 \in S
  <2> DEFINE f == [k \in 0 .. 0 |-> Step(0, <<>>)]
  <2>1. f = [k \in 0 .. 0 |-> Step(k, f[k - 1])]
    <3>1. \A k \in 0 .. 0 : k = 0
      OBVIOUS
    <3>2. \A k \in 0 .. 0 : f[k] = Step(k, f[k - 1])
      BY <1>2, <3>1
    <3>3. f = [k \in 0 .. 0 |-> f[k]]
      OBVIOUS
    <3> HIDE DEF f
    <3>4. QED
      BY <3>2, <3>3
  <2>2. QED
    BY <1>1, <2>1
<1>4. ASSUME NEW m \in S PROVE m + 1 \in S
  <2>1. PICK f : HoldsTable(m, g, a, evidence, f)
    OBVIOUS
  <2> DEFINE h == [k \in 0 .. m + 1 |-> IF k = m + 1 THEN Step(k, f[m]) ELSE f[k]]
  <2>2. m \in Nat
    OBVIOUS
  <2>3. \A k \in 0 .. m + 1 : h[k] = IF k = m + 1 THEN Step(k, f[m]) ELSE f[k]
    OBVIOUS
  <2>4. h = [k \in 0 .. m + 1 |-> h[k]]
    OBVIOUS
  <2> HIDE DEF h
  <2>5. ASSUME NEW k \in 0 .. m + 1 PROVE h[k] = Step(k, h[k - 1])
    <3>1. CASE k = m + 1
      <4>1. k - 1 = m /\ m \in 0 .. m + 1 /\ m # m + 1
        BY <2>2, <3>1
      <4>2. QED
        BY <2>3, <3>1, <4>1
    <3>2. CASE k # m + 1
      <4>1. k \in 0 .. m
        BY <2>2, <3>2
      <4>2. f[k] = Step(k, f[k - 1])
        BY <1>1, <2>1, <4>1
      <4>3. CASE k = 0
        BY <1>2, <2>3, <3>2, <4>2, <4>3
      <4>4. CASE k # 0
        <5>1. k - 1 \in 0 .. m + 1 /\ k - 1 # m + 1
          BY <2>2, <4>1, <4>4
        <5>2. h[k - 1] = f[k - 1] /\ h[k] = f[k]
          BY <2>3, <3>2, <5>1
        <5>3. QED
          BY <4>2, <5>2
      <4>5. QED
        BY <4>3, <4>4
    <3>3. QED
      BY <3>1, <3>2
  <2>6. h = [k \in 0 .. m + 1 |-> Step(k, h[k - 1])]
    BY <2>4, <2>5
  <2>7. HoldsTable(m + 1, g, a, evidence, h)
    BY <1>1, <2>6
  <2>8. QED
    BY <2>2, <2>7
<1>5. S = Nat
  <2> HIDE DEF S
  <2>1. S \in SUBSET Nat
    BY DEF S
  <2>2. QED
    BY <1>3, <1>4, <2>1, Induct
<1>6. QED
  BY <1>5

\* A test of a value holds or not, however far the editor looks back.
IsTest(g, x) == TypeOf(g, x) \in {"compare", "inlist", "contains"}

SampleTest(g, a, evidence, x) ==
    \/ /\ TypeOf(g, x) = "compare"
       /\ compareSample(ValueInto(g, a, x), FieldsOf(g, x).op, resolve(FieldsOf(g, x).value, a))
    \/ /\ TypeOf(g, x) = "inlist"
       /\ (FieldsOf(g, x).mode = "notin") # InSample(g, a, x)
    \/ /\ TypeOf(g, x) = "contains"
       /\ ContainsSample(g, a, evidence, x)

LEMMA HoldsIs ==
    ASSUME NEW g, GraphInv(g), NEW a, NEW evidence
    PROVE  \E h : /\ \A x : Holds(g, a, evidence, x) <=> h[Depth(g)][x]
                  /\ \A x \in DOMAIN g.nodes : ~h[0][x]
                  /\ \A k \in 1 .. Depth(g), x \in DOMAIN g.nodes :
                        /\ IsTest(g, x) => (h[k][x] <=> SampleTest(g, a, evidence, x))
                        /\ TypeOf(g, x) = "booland" =>
                             (h[k][x] <=> /\ inboundNodes(g, x, "in") # {}
                                          /\ \A s \in inboundNodes(g, x, "in") : h[k - 1][s])
<1> DEFINE n == Depth(g)
           h == CHOOSE f : HoldsTable(n, g, a, evidence, f)
<1>1. n \in Nat
  BY FiniteGraph, FS_CardinalityType DEF Depth
<1>2. \A x : Holds(g, a, evidence, x) <=> h[n][x]
  BY DEF Holds, HoldsTable
<1>3. HoldsTable(n, g, a, evidence, h)
  BY <1>1, HoldsExists
<1> HIDE DEF h, n
<1>4. \A x \in DOMAIN g.nodes : ~h[0][x]
  <2>1. 0 \in 0 .. n /\ ~(0 > 0)
    BY <1>1
  <2>2. QED
    BY <1>3, <2>1 DEF HoldsTable
<1>5. ASSUME NEW k \in 1 .. n, NEW x \in DOMAIN g.nodes
      PROVE  h[k][x] <=> evalNode(g, a, evidence, x, h[k - 1])
  <2>1. k \in 0 .. n /\ k > 0
    BY <1>1
  <2>2. h[k] = [y \in DOMAIN g.nodes |-> k > 0 /\ evalNode(g, a, evidence, y, h[k - 1])]
    BY <1>3, <2>1, Zenon DEF HoldsTable
  <2>3. h[k][x] <=> k > 0 /\ evalNode(g, a, evidence, x, h[k - 1])
    BY <2>2, Zenon
  <2>4. QED
    BY <2>1, <2>3
<1>6. ASSUME NEW x, NEW value, IsTest(g, x)
      PROVE  evalNode(g, a, evidence, x, value) <=> SampleTest(g, a, evidence, x)
  <2>1. CASE TypeOf(g, x) = "compare"
    BY <2>1 DEF evalNode, SampleTest
  <2>2. CASE TypeOf(g, x) = "inlist"
    BY <2>2 DEF evalNode, SampleTest
  <2>3. CASE TypeOf(g, x) = "contains"
    BY <2>3 DEF evalNode, SampleTest
  <2>4. QED
    BY <1>6, <2>1, <2>2, <2>3 DEF IsTest
<1>7. ASSUME NEW x, NEW value, TypeOf(g, x) = "booland"
      PROVE  evalNode(g, a, evidence, x, value) <=>
               /\ inboundNodes(g, x, "in") # {}
               /\ \A s \in inboundNodes(g, x, "in") : value[s]
  BY <1>7 DEF evalNode
<1>8. ASSUME NEW k \in 1 .. n, NEW x \in DOMAIN g.nodes
      PROVE  /\ IsTest(g, x) => (h[k][x] <=> SampleTest(g, a, evidence, x))
             /\ TypeOf(g, x) = "booland" =>
                  (h[k][x] <=> /\ inboundNodes(g, x, "in") # {}
                               /\ \A s \in inboundNodes(g, x, "in") : h[k - 1][s])
  BY <1>5, <1>6, <1>7
<1>9. QED
  BY <1>2, <1>4, <1>8 DEF n

-----------------------------------------------------------------------------
(* When a decision fires. *)

\* What a port takes.
LEMMA SourceFits ==
    ASSUME NEW from \in NodeTypes, NEW type \in NodeTypes, NEW key \in InPorts(type),
           portsCompatible(from, type, key)
    PROVE  /\ OutType(type) \in {"tx", "val"} => OutType(from) \in {"tx", "val"}
           /\ type = "decision" => \/ key = "tx" /\ OutType(from) = "tx"
                                   \/ key = "cond" /\ OutType(from) = "bool"
           /\ type \in {"compare", "inlist", "contains"} => key = "a" /\ OutType(from) = "val"
           /\ type = "booland" => key = "in" /\ OutType(from) = "bool"
           /\ type \in {"routeif", "lookup"} => key = "tx" /\ OutType(from) = "tx"
<1>1. CASE type \in {"transaction", "constant"}
  BY <1>1 DEF InPorts
<1>2. CASE type \in {"routeif", "lookup"}
  BY <1>2 DEF InPorts, InType, OutType, portsCompatible
<1>3. CASE type \in {"compare", "inlist", "contains"}
  <2>1. key = "a"
    BY <1>3 DEF InPorts
  <2>2. OutType(from) = "val"
    BY <1>3, <2>1 DEF InType, portsCompatible
  <2>3. QED
    BY <1>3, <2>1, <2>2 DEF OutType
<1>4. CASE type = "decision"
  <2>1. key \in {"tx", "cond"}
    BY <1>4 DEF InPorts
  <2>2. OutType(from) = IF key = "tx" THEN "tx" ELSE "bool"
    BY <1>4, <2>1 DEF InType, portsCompatible
  <2>3. QED
    BY <1>4, <2>1, <2>2 DEF OutType
<1>5. CASE type = "getfield"
  <2>1. key = "in"
    BY <1>5 DEF InPorts
  <2>2. OutType(from) \in {"tx", "val"}
    BY <1>5, <2>1 DEF InType, portsCompatible
  <2>3. QED
    BY <1>5, <2>2
<1>6. CASE type \in {"booland", "boolor", "boolnot"}
  <2>1. key = "in"
    BY <1>6 DEF InPorts
  <2>2. OutType(from) = "bool"
    BY <1>6, <2>1 DEF InType, portsCompatible
  <2>3. OutType(type) = "bool"
    BY <1>6 DEF OutType
  <2>4. QED
    BY <1>6, <2>1, <2>2, <2>3
<1>7. CASE type \in {"aggregate", "policy"}
  <2>1. OutType(type) \notin {"tx", "val"}
    BY <1>7 DEF OutType
  <2>2. QED
    BY <1>7, <2>1
<1>8. QED
  BY <1>1, <1>2, <1>3, <1>4, <1>5, <1>6, <1>7 DEF NodeTypes

\* What a plain rule rests on: its decision, routes and values, tests, and
\* conjunctions of them.
LEMMA RuleTypes ==
    ASSUME NEW g, GraphInv(g), NEW d, PlainRule(g, d)
    PROVE  \A x \in ToSet(upstream(g, d)) :
              x = d \/ OutType(TypeOf(g, x)) \in {"tx", "val"} \/ IsTest(g, x) \/ TypeOf(g, x) = "booland"
<1> DEFINE up == ToSet(upstream(g, d))
           C == {x \in up : \/ x = d \/ OutType(TypeOf(g, x)) \in {"tx", "val"}
                            \/ IsTest(g, x) \/ TypeOf(g, x) = "booland"}
<1>1. d \in DOMAIN g.nodes /\ TypeOf(g, d) = "decision"
  BY DEF PlainRule, Decisions
<1>2. d \in up /\ ClosedUnder(g, up) /\ \A D : d \in D /\ ClosedUnder(g, D) => up \subseteq D
  BY <1>1, UpstreamCloses
<1>3. ASSUME NEW w \in DOMAIN g.wires, g.wires[w].to \in C PROVE g.wires[w].from \in C
  <2> DEFINE x == g.wires[w].to
             s == g.wires[w].from
  <2>1. /\ TypeOf(g, s) \in NodeTypes /\ TypeOf(g, x) \in NodeTypes
        /\ g.wires[w].key \in InPorts(TypeOf(g, x))
        /\ portsCompatible(TypeOf(g, s), TypeOf(g, x), g.wires[w].key)
    <3>1. s \in inboundNodes(g, x, g.wires[w].key)
      BY DEF inboundNodes
    <3>2. QED
      BY <3>1, SourceIs
  <2>2. s \in up
    BY <1>2, <1>3 DEF ClosedUnder
  <2>3. OutType(TypeOf(g, s)) \in {"tx", "val", "bool"}
    <3>1. CASE x = d
      BY <1>1, <2>1, <3>1, SourceFits
    <3>2. CASE OutType(TypeOf(g, x)) \in {"tx", "val"}
      BY <2>1, <3>2, SourceFits
    <3>3. CASE IsTest(g, x)
      BY <2>1, <3>3, SourceFits DEF IsTest
    <3>4. CASE TypeOf(g, x) = "booland"
      BY <2>1, <3>4, SourceFits
    <3>5. QED
      BY <1>3, <3>1, <3>2, <3>3, <3>4
  <2>4. TypeOf(g, s) \notin {"boolor", "boolnot"}
    BY <2>2 DEF PlainRule, Warns
  <2>5. OutType(TypeOf(g, s)) = "bool" => IsTest(g, s) \/ TypeOf(g, s) = "booland"
    BY <2>1, <2>4, TypesAre DEF IsTest
  <2>6. QED
    BY <2>2, <2>3, <2>5
<1>4. ClosedUnder(g, C)
  BY <1>3 DEF ClosedUnder
<1>5. d \in C
  BY <1>2
<1>6. up \subseteq C
  BY <1>2, <1>4, <1>5
<1>7. QED
  BY <1>6

\* What is upstream of a node's source is less than what is upstream of it.
LEMMA FewerUpstream ==
    ASSUME NEW g, GraphInv(g), NEW x \in DOMAIN g.nodes, NEW key, NEW s \in inboundNodes(g, x, key),
           ~reaches(g, x, s)
    PROVE  /\ Cardinality(ToSet(upstream(g, x))) \in Nat /\ Cardinality(ToSet(upstream(g, s))) \in Nat
           /\ Cardinality(ToSet(upstream(g, s))) < Cardinality(ToSet(upstream(g, x)))
           /\ Cardinality(ToSet(upstream(g, x))) <= Depth(g)
<1> DEFINE X == ToSet(upstream(g, x))
           S == ToSet(upstream(g, s))
<1>1. x \in X /\ X \in SUBSET DOMAIN g.nodes
  BY UpstreamCloses
<1>2. s \in X
  BY <1>1, SourceUpstream
<1>3. S \in SUBSET X
  BY <1>2, UpstreamOfUpstream
<1>4. x \notin S
  BY DEF reaches
<1>5. IsFiniteSet(DOMAIN g.nodes)
  BY FiniteGraph
<1> HIDE DEF X, S
<1>6. IsFiniteSet(X) /\ Cardinality(X) <= Depth(g)
  BY <1>1, <1>5, FS_Subset DEF Depth
<1>7. /\ IsFiniteSet(S) /\ Cardinality(S) <= Cardinality(X)
      /\ Cardinality(S) = Cardinality(X) => S = X
  BY <1>3, <1>6, FS_Subset
<1>8. Cardinality(S) \in Nat /\ Cardinality(X) \in Nat
  BY <1>6, <1>7, FS_CardinalityType
<1>9. Cardinality(S) # Cardinality(X)
  BY <1>1, <1>4, <1>7
<1>10. Cardinality(S) < Cardinality(X)
  BY <1>7, <1>8, <1>9
<1>11. QED
  BY <1>6, <1>8, <1>10 DEF X, S

\* The editor says that a plain rule applies if its route lets the action
\* through and every test that counts for it holds.
LEMMA FiresIs ==
    ASSUME NEW g, GraphInv(g), NEW d, PlainRule(g, d), NEW r, NEW t, RouteAt(g, d, r, t),
           NEW a, NEW evidence
    PROVE  Fires(g, a, evidence, d) <=>
             /\ Routed(g, a, r)
             /\ \A x \in ToSet(upstream(g, d)) : IsTest(g, x) => SampleTest(g, a, evidence, x)
<1> DEFINE up == ToSet(upstream(g, d))
           n == Depth(g)
<1>1. d \in DOMAIN g.nodes /\ TypeOf(g, d) = "decision"
  BY DEF PlainRule, Decisions
<1>2. /\ d \in up /\ up \subseteq DOMAIN g.nodes /\ ClosedUnder(g, up)
      /\ \A D : d \in D /\ ClosedUnder(g, D) => up \subseteq D
  BY <1>1, UpstreamCloses
<1>3. n \in Nat
  BY FiniteGraph, FS_CardinalityType DEF Depth
<1>4. PICK h : /\ \A x : Holds(g, a, evidence, x) <=> h[n][x]
               /\ \A x \in DOMAIN g.nodes : ~h[0][x]
               /\ \A k \in 1 .. n, x \in DOMAIN g.nodes :
                     /\ IsTest(g, x) => (h[k][x] <=> SampleTest(g, a, evidence, x))
                     /\ TypeOf(g, x) = "booland" =>
                          (h[k][x] <=> /\ inboundNodes(g, x, "in") # {}
                                       /\ \A s \in inboundNodes(g, x, "in") : h[k - 1][s])
  BY HoldsIs
<1>5. (\E s \in inboundNodes(g, d, "tx") : Routed(g, a, s)) <=> Routed(g, a, r)
  BY DEF RouteAt
<1>6. \A x \in up : x = d \/ OutType(TypeOf(g, x)) \in {"tx", "val"} \/ IsTest(g, x)
                          \/ TypeOf(g, x) = "booland"
  BY RuleTypes
<1>7. \A w \in DOMAIN g.wires :
         /\ g.wires[w].from \in inboundNodes(g, g.wires[w].to, g.wires[w].key)
         /\ TypeOf(g, g.wires[w].from) \in NodeTypes /\ TypeOf(g, g.wires[w].to) \in NodeTypes
         /\ g.wires[w].key \in InPorts(TypeOf(g, g.wires[w].to))
         /\ portsCompatible(TypeOf(g, g.wires[w].from), TypeOf(g, g.wires[w].to), g.wires[w].key)
  <2>1. TAKE w \in DOMAIN g.wires
  <2>2. g.wires[w].from \in inboundNodes(g, g.wires[w].to, g.wires[w].key)
    BY DEF inboundNodes
  <2>3. QED
    BY <2>2, SourceIs
<1> HIDE DEF n
<1>8. ASSUME \A c \in inboundNodes(g, d, "cond") : Holds(g, a, evidence, c),
             NEW x \in up, IsTest(g, x)
      PROVE  SampleTest(g, a, evidence, x)
  <2> DEFINE Fine(y) == \/ y = d
                        \/ OutType(TypeOf(g, y)) \in {"tx", "val"}
                        \/ \E k \in 0 .. n : h[k][y]
             C == {y \in up : Fine(y)}
  <2>1. ASSUME NEW w \in DOMAIN g.wires, g.wires[w].to \in C PROVE g.wires[w].from \in C
    <3> DEFINE y == g.wires[w].to
               s == g.wires[w].from
    <3>1. s \in up /\ y \in up /\ y \in DOMAIN g.nodes
      BY <1>2, <2>1 DEF ClosedUnder
    <3>2. CASE y = d
      <4>1. \/ OutType(TypeOf(g, s)) = "tx"
            \/ g.wires[w].key = "cond"
        BY <1>1, <1>7, <3>2, SourceFits
      <4>2. g.wires[w].key = "cond" => h[n][s]
        BY <1>4, <1>7, <1>8, <3>2
      <4>3. n \in 0 .. n
        BY <1>3
      <4>4. QED
        BY <3>1, <4>1, <4>2, <4>3
    <3>3. CASE OutType(TypeOf(g, y)) \in {"tx", "val"}
      <4>1. OutType(TypeOf(g, s)) \in {"tx", "val"}
        BY <1>7, <3>3, SourceFits
      <4>2. QED
        BY <3>1, <4>1
    <3>4. CASE IsTest(g, y)
      <4>1. OutType(TypeOf(g, s)) = "val"
        BY <1>7, <3>4, SourceFits DEF IsTest
      <4>2. QED
        BY <3>1, <4>1
    <3>5. CASE TypeOf(g, y) = "booland"
      <4>1. g.wires[w].key = "in"
        BY <1>7, <3>5, SourceFits
      <4>2. y # d /\ OutType(TypeOf(g, y)) \notin {"tx", "val"}
        BY <1>1, <3>5 DEF OutType
      <4>3. PICK k \in 0 .. n : h[k][y]
        BY <2>1, <4>2
      <4>4. k # 0
        BY <1>4, <3>1, <4>3
      <4>5. k \in 1 .. n /\ k - 1 \in 0 .. n
        BY <1>3, <4>4
      <4>6. s \in inboundNodes(g, y, "in")
        BY <1>7, <4>1
      <4>7. h[k - 1][s]
        BY <1>4, <3>1, <3>5, <4>3, <4>5, <4>6
      <4>8. QED
        BY <3>1, <4>5, <4>7
    <3>6. QED
      BY <1>6, <3>1, <3>2, <3>3, <3>4, <3>5
  <2>2. ClosedUnder(g, C)
    BY <2>1 DEF ClosedUnder
  <2>3. d \in C
    BY <1>2
  <2>4. Fine(x)
    <3>1. up \subseteq C
      BY <1>2, <2>2, <2>3
    <3>2. QED
      BY <3>1
  <2>5. x # d /\ OutType(TypeOf(g, x)) \notin {"tx", "val"}
    BY <1>1, <1>8 DEF IsTest, OutType
  <2>6. PICK k \in 0 .. n : h[k][x]
    BY <2>4, <2>5
  <2>7. x \in DOMAIN g.nodes
    BY <1>2
  <2>8. k # 0
    BY <1>4, <2>6, <2>7
  <2>9. k \in 1 .. n
    BY <1>3, <2>8
  <2>10. QED
    BY <1>4, <1>8, <2>6, <2>7, <2>9
<1>9. ASSUME \A x \in up : IsTest(g, x) => SampleTest(g, a, evidence, x)
      PROVE  \A c \in inboundNodes(g, d, "cond") : Holds(g, a, evidence, c)
  <2> DEFINE Bool(x) == IsTest(g, x) \/ TypeOf(g, x) = "booland"
             size(x) == Cardinality(ToSet(upstream(g, x)))
             S == {m \in Nat : \A k \in 0 .. n, x \in up : m = k /\ Bool(x) /\ size(x) <= k => h[k][x]}
  <2>1. ASSUME NEW x \in up PROVE size(x) \in Nat /\ size(x) > 0 /\ size(x) <= n
    <3>1. x \in DOMAIN g.nodes
      BY <1>2
    <3>2. x \in ToSet(upstream(g, x)) /\ ToSet(upstream(g, x)) \in SUBSET DOMAIN g.nodes
      BY <3>1, UpstreamCloses
    <3>3. IsFiniteSet(ToSet(upstream(g, x))) /\ size(x) <= n
      BY <3>2, FiniteGraph, FS_Subset DEF n, Depth
    <3>4. size(x) \in Nat /\ size(x) # 0
      BY <3>2, <3>3, FS_CardinalityType, FS_EmptySet
    <3>5. QED
      BY <3>3, <3>4
  <2>2. ASSUME NEW x \in up, TypeOf(g, x) = "booland", NEW s \in inboundNodes(g, x, "in")
        PROVE  s \in up /\ Bool(s) /\ size(s) < size(x)
    <3>1. PICK w \in DOMAIN g.wires : g.wires[w].to = x /\ g.wires[w].key = "in" /\ s = g.wires[w].from
      BY DEF inboundNodes
    <3>2. s \in up
      BY <1>2, <3>1 DEF ClosedUnder
    <3>3. OutType(TypeOf(g, s)) = "bool"
      BY <1>7, <2>2, <3>1, SourceFits
    <3>4. Bool(s)
      BY <1>1, <1>6, <3>2, <3>3 DEF OutType
    <3>5. ~reaches(g, x, s)
      BY <3>1 DEF PlainRule
    <3>6. size(s) < size(x)
      BY <1>2, <3>5, FewerUpstream
    <3>7. QED
      BY <3>2, <3>4, <3>6
  <2> HIDE DEF size
  <2>3. 0 \in S
    <3>1. \A x \in up : ~(size(x) <= 0)
      BY <2>1
    <3>2. QED
      BY <3>1
  <2>4. ASSUME NEW m \in S PROVE m + 1 \in S
    <3>1. m \in Nat /\ \A x \in up : m \in 0 .. n /\ Bool(x) /\ size(x) <= m => h[m][x]
      BY <2>4
    <3>2. ASSUME NEW x \in up, m + 1 \in 0 .. n, Bool(x), size(x) <= m + 1
          PROVE  h[m + 1][x]
      <4>1. x \in DOMAIN g.nodes /\ m + 1 \in 1 .. n /\ (m + 1) - 1 = m /\ m \in 0 .. n
        BY <1>2, <1>3, <3>1, <3>2
      <4>2. CASE IsTest(g, x)
        BY <1>4, <1>9, <4>1, <4>2
      <4>3. CASE TypeOf(g, x) = "booland"
        <5>1. inboundNodes(g, x, "in") # {}
          <6>1. "in" \in InPorts(TypeOf(g, x)) \ {"cond"}
            BY <4>3 DEF InPorts
          <6>2. \A key \in InPorts(TypeOf(g, x)) \ {"cond"} : inboundNodes(g, x, key) # {}
            BY DEF PlainRule
          <6>3. QED
            BY <6>1, <6>2
        <5>2. \A s \in inboundNodes(g, x, "in") : h[m][s]
          <6>1. TAKE s \in inboundNodes(g, x, "in")
          <6>2. s \in up /\ Bool(s) /\ size(s) < size(x)
            BY <2>2, <4>3
          <6>3. size(s) <= m
            BY <2>1, <3>1, <3>2, <6>2
          <6>4. QED
            BY <3>1, <4>1, <6>2, <6>3
        <5>3. h[m + 1][x] <=> /\ inboundNodes(g, x, "in") # {}
                              /\ \A s \in inboundNodes(g, x, "in") : h[(m + 1) - 1][s]
          BY <1>4, <4>1, <4>3
        <5>4. QED
          BY <4>1, <5>1, <5>2, <5>3
      <4>4. QED
        BY <3>2, <4>2, <4>3
    <3>3. QED
      BY <3>1, <3>2
  <2>5. S = Nat
    <3> HIDE DEF S
    <3>1. S \in SUBSET Nat
      BY DEF S
    <3>2. QED
      BY <2>3, <2>4, <3>1, Induct
  <2>6. ASSUME NEW c \in inboundNodes(g, d, "cond") PROVE Holds(g, a, evidence, c)
    <3>1. PICK w \in DOMAIN g.wires : g.wires[w].to = d /\ g.wires[w].key = "cond" /\ c = g.wires[w].from
      BY DEF inboundNodes
    <3>2. c \in up
      BY <1>2, <3>1 DEF ClosedUnder
    <3>3. OutType(TypeOf(g, c)) = "bool"
      BY <1>1, <1>7, <3>1 DEF portsCompatible, InType
    <3>4. Bool(c)
      BY <1>1, <1>6, <3>2, <3>3 DEF OutType
    <3>5. n \in S /\ n \in 0 .. n
      BY <1>3, <2>5
    <3>6. h[n][c]
      BY <2>1, <3>2, <3>4, <3>5
    <3>7. QED
      BY <1>4, <3>6
  <2>7. QED
    BY <2>6
<1>10. QED
  BY <1>5, <1>8, <1>9 DEF Fires

-----------------------------------------------------------------------------
(* A value, a list and a row, as the editor and as the engine read them. *)

\* A written value stands for the same.
LEMMA SameValue ==
    ASSUME NEW v, Literal(v), NEW a, getPath(a, "data.from") = Text(Agent)
    PROVE  resolve(v, a) = substitute(v)
<1>1. CASE v = Variable("$agent")
  BY <1>1 DEF resolve, substitute, Variable
<1>2. CASE v.kind \in {"text", "embedded", "amount"}
  BY <1>2 DEF resolve, substitute
<1>3. QED
  BY <1>1, <1>2 DEF Literal

\* Whether a list has a value.
LEMMA MemberIs ==
    ASSUME NEW actual, NEW D, NEW values \in Seq(D)
    PROVE  /\ Member(actual, values) \in {"yes", "no", "ambiguous"}
           /\ Member(actual, values) = "no" =>
                \A i \in DOMAIN values : substitute(values[i]) # actual
           /\ Member(actual, values) = "yes" =>
                \E i \in DOMAIN values : substitute(values[i]) = actual
           /\ (\A i \in DOMAIN values : values[i] # Embedded) => Member(actual, values) # "ambiguous"
<1> DEFINE I == {i \in 1 .. Len(values) : values[i] = Embedded \/ substitute(values[i]) = actual}
           hit == SelectInSeq(values, LAMBDA v : v = Embedded \/ substitute(v) = actual)
<1>1. DOMAIN values = 1 .. Len(values) /\ I \in SUBSET Nat
  OBVIOUS
<1>2. hit = IF I # {} THEN Min(I) ELSE 0
  BY DEF SelectInSeq
<1>3. \A i \in DOMAIN values : i \in I <=> values[i] = Embedded \/ substitute(values[i]) = actual
  BY <1>1
<1>4. Member(actual, values) =
        IF hit = 0 THEN "no" ELSE IF values[hit] = Embedded THEN "ambiguous" ELSE "yes"
  BY DEF Member
<1>5. \A i \in I : i # 0 /\ i \in DOMAIN values
  BY <1>1
<1> HIDE DEF I, hit
<1>6. I # {} => hit \in I
  BY <1>1, <1>2, MinIsLeast
<1>7. QED
  BY <1>2, <1>3, <1>4, <1>5, <1>6

\* An operator of a Compare.
LEMMA SameCompare ==
    ASSUME NEW a, getPath(a, "data.from") = Text(Agent),
           NEW actual, IsString(actual),
           actual.kind = "amount" => actual.units \in Nat /\ actual.places \in Nat,
           NEW c, c.op \in Declarative, NEW v, c.arg = <<v>>, Literal(v)
    PROVE  /\ predicateHolds(actual, PredicateOf(c)) = "yes" => compareSample(actual, c.op, resolve(v, a))
           /\ compareSample(actual, c.op, resolve(v, a)) => predicateHolds(actual, PredicateOf(c)) # "no"
<1> DEFINE p == PredicateOf(c)
<1>1. resolve(v, a) = substitute(v)
  BY SameValue
<1>2. actual # Absent /\ actual.kind \in {"text", "amount"} /\ AsText(actual) = actual
  BY DEF IsString, Absent, AsText
<1>3. CASE c.op = "eq"
  <2>1. p.op = "in" /\ p.values = <<v>>
    BY <1>3 DEF PredicateOf
  <2>2. predicateHolds(actual, p) = Member(actual, <<v>>)
    BY <2>1 DEF predicateHolds
  <2>3. compareSample(actual, c.op, resolve(v, a)) <=> actual = substitute(v)
    BY <1>1, <1>2, <1>3 DEF compareSample
  <2> DEFINE values == <<v>>
  <2>4. values \in Seq({v}) /\ DOMAIN values = {1} /\ values[1] = v
    OBVIOUS
  <2> HIDE DEF values, p
  <2>5. /\ Member(actual, values) = "no" => substitute(v) # actual
        /\ Member(actual, values) = "yes" => substitute(v) = actual
    BY <2>4, MemberIs
  <2>6. QED
    BY <2>2, <2>3, <2>5 DEF values, p
<1>4. CASE c.op \in {"lte", "gte"}
  <2>1. p.op = c.op /\ p.bound = v
    BY <1>4 DEF PredicateOf
  <2>2. predicateHolds(actual, p) =
          LET sign == compareOrdered(actual, v)
          IN IF sign = "ambiguous" THEN sign
             ELSE IF sign \in {"0", IF c.op = "lte" THEN "-" ELSE "+"} THEN "yes" ELSE "no"
    BY <1>2, <1>4, <2>1 DEF predicateHolds
  <2>3. CASE v.kind # "amount" \/ actual.kind # "amount" \/ actual.places # v.places
    <3>1. compareOrdered(actual, v) = "ambiguous"
      BY <1>2, <2>3 DEF compareOrdered
    <3>2. predicateHolds(actual, p) = "ambiguous"
      BY <2>2, <3>1
    <3>3. QED
      BY <3>2
  <2>4. CASE v.kind = "amount" /\ actual.kind = "amount" /\ actual.places = v.places
    <3>1. /\ actual.units \in Nat /\ actual.places \in Nat /\ v.units \in Nat
      BY <2>4 DEF Literal, Variable
    <3>2. compareOrdered(actual, v) =
            IF actual.units < v.units THEN "-" ELSE IF actual.units > v.units THEN "+" ELSE "0"
      BY <2>4 DEF compareOrdered, Size
    <3>3. predicateHolds(actual, p) =
            IF (IF c.op = "lte" THEN actual.units <= v.units ELSE actual.units >= v.units)
            THEN "yes" ELSE "no"
      BY <1>4, <2>2, <3>1, <3>2
    <3>4. resolve(v, a) = v
      BY <2>4 DEF resolve
    <3> DEFINE P == {u.places : u \in {w \in {actual, v} : w.kind = "amount"}} \cup {0}
    <3>5. Max(P) = actual.places
      <4>1. P = {actual.places, 0}
        BY <2>4
      <4>2. P \subseteq Nat /\ \A x \in P : actual.places >= x
        BY <3>1, <4>1
      <4> HIDE DEF P
      <4>3. \A m \in P : (\A x \in P : m >= x) => m = actual.places
        BY <3>1, <4>1
      <4>4. Max(P) \in P /\ \A x \in P : Max(P) >= x
        BY <4>1, <4>2 DEF Max
      <4>5. QED
        BY <4>3, <4>4
    <3>6. Scaled(actual, actual.places) = actual.units /\ Scaled(v, actual.places) = v.units
      <4>1. 10 ^ (actual.places - actual.places) = 1
        <5>1. actual.places - actual.places = 0
          BY <3>1
        <5>2. 10 ^ 0 = 1
          OBVIOUS
        <5>3. QED
          BY <5>1, <5>2
      <4>2. \A u \in Nat : u * 1 = u
        OBVIOUS
      <4>3. QED
        BY <2>4, <3>1, <4>1, <4>2 DEF Scaled, Size
    <3>7. compareSample(actual, c.op, v) <=>
            IF c.op = "lte" THEN actual.units <= v.units ELSE actual.units >= v.units
      <4>1. compareSample(actual, c.op, v) <=>
              \/ c.op = "lte" /\ Scaled(actual, Max(P)) <= Scaled(v, Max(P))
              \/ c.op = "gte" /\ Scaled(actual, Max(P)) >= Scaled(v, Max(P))
        BY <1>2, <1>4, <2>4 DEF compareSample
      <4> HIDE DEF P
      <4>2. QED
        BY <1>4, <3>5, <3>6, <4>1
    <3>8. QED
      BY <3>3, <3>4, <3>7
  <2>5. QED
    BY <2>3, <2>4
<1>5. QED
  BY <1>3, <1>4 DEF Declarative

\* An In List.
LEMMA SameList ==
    ASSUME NEW a, getPath(a, "data.from") = Text(Agent), NEW actual, IsString(actual),
           NEW values, values \in Seq(ToSet(values)), \A v \in ToSet(values) : Literal(v),
           NEW path
    PROVE  LET listed == \E i \in DOMAIN values : resolve(values[i], a) = AsText(actual)
               verdict(op) == predicateHolds(actual, PredicateOf([path |-> path, op |-> op, arg |-> values]))
           IN /\ verdict("in") = "yes" => listed
              /\ listed => verdict("in") # "no"
              /\ verdict("notIn") = "yes" => ~listed
              /\ ~listed => verdict("notIn") # "no"
<1>1. AsText(actual) = actual
  BY DEF IsString, AsText
<1>2. \A i \in DOMAIN values : resolve(values[i], a) = substitute(values[i])
  BY SameValue DEF ToSet
<1> DEFINE listed == \E i \in DOMAIN values : resolve(values[i], a) = AsText(actual)
           verdict(op) == predicateHolds(actual, PredicateOf([path |-> path, op |-> op, arg |-> values]))
           member == Member(actual, values)
<1>3. verdict("in") = member
  BY DEF predicateHolds, PredicateOf
<1>4. verdict("notIn") = IF member = "ambiguous" THEN member ELSE IF member = "no" THEN "yes" ELSE "no"
  BY DEF predicateHolds, PredicateOf
<1>5. /\ member \in {"yes", "no", "ambiguous"}
      /\ member = "no" => ~listed
      /\ member = "yes" => listed
  BY <1>1, <1>2, MemberIs
<1> HIDE DEF member, listed, verdict
<1>6. /\ verdict("in") = "yes" => listed
      /\ listed => verdict("in") # "no"
      /\ verdict("notIn") = "yes" => ~listed
      /\ ~listed => verdict("notIn") # "no"
  BY <1>3, <1>4, <1>5
<1>7. QED
  BY <1>6 DEF listed, verdict

\* What the engine says of a condition that was compiled.
VerdictOn(a, c) == predicateHolds(resolvePath(a, c.path), PredicateOf(c))

\* A test of a plain rule comes to one condition, and it is in the match.
LEMMA PlainTest ==
    ASSUME NEW g, GraphInv(g), NEW d, PlainRule(g, d), NEW id \in ToSet(upstream(g, d)), Tests(g, id)
    PROVE  \E s : /\ inboundNodes(g, id, "a") = {s} /\ TypeOf(g, s) = "getfield"
                  /\ s \in ToSet(upstream(g, d))
                  /\ \E x \in inboundNodes(g, s, "in") : OutType(TypeOf(g, x)) = "tx"
                  /\ FieldsOf(g, s).path \notin {"contract", "action"}
                  /\ TypeOf(g, id) = "compare" => OpOf(g, id) \in Declarative
                  /\ ConditionsOf(g, id) =
                       {[path |-> FieldsOf(g, s).path, op |-> OpOf(g, id), arg |-> ArgOf(g, id)]}
<1>1. PICK s \in Sources(g, id, "a", "getfield") :
          /\ \E x \in inboundNodes(g, s, "in") : OutType(TypeOf(g, x)) = "tx"
          /\ FieldsOf(g, s).path \notin {"contract", "action"}
  BY DEF PlainRule
<1>2. s \in inboundNodes(g, id, "a") /\ TypeOf(g, s) = "getfield"
  BY DEF Sources
<1>3. inboundNodes(g, id, "a") = {s}
  BY <1>2, OneSource DEF isMultiInput
<1>4. Sources(g, id, "a", "getfield") = {s}
  BY <1>2, <1>3 DEF Sources
<1>5. s \in ToSet(upstream(g, d))
  BY <1>2, SourceUpstream DEF PlainRule, Decisions
<1>6. ~Warns(g, id)
  BY DEF PlainRule
<1>7. TypeOf(g, id) = "compare" => OpOf(g, id) \in Declarative
  BY <1>6 DEF Warns
<1>8. FieldsOf(g, s).path \in MatchPaths
  BY <1>6 DEF Warns, Drops
<1> DEFINE c == [path |-> FieldsOf(g, s).path, op |-> OpOf(g, id), arg |-> ArgOf(g, id)]
<1>9. ConditionsOf(g, id) =
        {b \in {c} : (TypeOf(g, id) = "compare" => b.op \in Declarative) /\ b.path \in MatchPaths}
  BY <1>4 DEF ConditionsOf
<1>10. c.op = OpOf(g, id) /\ c.path = FieldsOf(g, s).path
  OBVIOUS
<1> HIDE DEF c
<1>11. ConditionsOf(g, id) = {c}
  BY <1>7, <1>8, <1>9, <1>10
<1>12. QED
  BY <1>1, <1>2, <1>3, <1>5, <1>7, <1>11 DEF c

LEMMA PlainMatch ==
    ASSUME NEW g, GraphInv(g), NEW d, PlainRule(g, d)
    PROVE  LET up == upstream(g, d)
           IN /\ up \in Seq(DOMAIN g.nodes)
              /\ \A id \in ToSet(up) : ConditionsOf(g, id) \subseteq MatchOf(g, up)
              /\ RouteConditions(g, up) \subseteq MatchOf(g, up)
              /\ \A c \in MatchOf(g, up) :
                    \/ c \in RouteConditions(g, up)
                    \/ \E id \in ToSet(up) : Tests(g, id) /\ c \in ConditionsOf(g, id)
<1> DEFINE up == upstream(g, d)
<1>1. up \in Seq(DOMAIN g.nodes)
  BY UpstreamIs DEF PlainRule, Decisions
<1>2. \A id, c : c \in ConditionsOf(g, id) => Tests(g, id)
  BY DEF ConditionsOf
<1>3. ASSUME NEW id \in ToSet(up), NEW c \in ConditionsOf(g, id)
      PROVE  /\ c.path \notin {"contract", "action"}
             /\ \E s \in Sources(g, id, "a", "getfield") : FieldsOf(g, s).path = c.path
  <2>1. Tests(g, id)
    BY <1>2
  <2>2. PICK s : /\ inboundNodes(g, id, "a") = {s} /\ TypeOf(g, s) = "getfield"
                 /\ FieldsOf(g, s).path \notin {"contract", "action"}
                 /\ ConditionsOf(g, id) =
                       {[path |-> FieldsOf(g, s).path, op |-> OpOf(g, id), arg |-> ArgOf(g, id)]}
    BY <2>1, PlainTest
  <2>3. c.path = FieldsOf(g, s).path
    BY <2>2
  <2>4. s \in Sources(g, id, "a", "getfield")
    BY <2>2 DEF Sources
  <2>5. QED
    BY <2>2, <2>3, <2>4
<1>4. ASSUME NEW id \in ToSet(up), NEW c \in ConditionsOf(g, id) PROVE c \in MatchOf(g, up)
  <2>1. ASSUME NEW other \in ToSet(up), NEW b \in ConditionsOf(g, other), b.path = c.path
        PROVE  other = id
    <3>1. PICK s \in Sources(g, id, "a", "getfield") : FieldsOf(g, s).path = c.path
      BY <1>3
    <3>2. PICK x \in Sources(g, other, "a", "getfield") : FieldsOf(g, x).path = b.path
      BY <1>3
    <3>3. Tests(g, id) /\ Tests(g, other)
      BY <1>2
    <3>4. QED
      BY <2>1, <3>1, <3>2, <3>3 DEF PlainRule
  <2>2. QED
    BY <1>1, <2>1, MatchHas
<1>5. ASSUME NEW c \in RouteConditions(g, up) PROVE c \in MatchOf(g, up)
  <2>1. c.path \in {"contract", "action"}
    <3> DEFINE x == RouteOf(g, up)
               names == {<<"contract", FieldsOf(g, up[x]).contract>>, <<"action", FieldsOf(g, up[x]).action>>}
    <3>1. \E n \in names : c = [path |-> n[1], op |-> "eq", arg |-> <<Text(n[2])>>]
      BY DEF RouteConditions
    <3>2. \A n \in names : n[1] \in {"contract", "action"}
      OBVIOUS
    <3> HIDE DEF names
    <3>3. QED
      BY <3>1, <3>2
  <2>2. \A id \in ToSet(up) : \A b \in ConditionsOf(g, id) : b.path # c.path
    BY <1>3, <2>1
  <2>3. QED
    BY <1>1, <2>2, MatchHas
<1>6. ASSUME NEW c \in MatchOf(g, up)
      PROVE  c \in RouteConditions(g, up)
               \/ \E id \in ToSet(up) : Tests(g, id) /\ c \in ConditionsOf(g, id)
  BY <1>1, <1>2, MatchHas
<1>7. QED
  BY <1>1, <1>4, <1>5, <1>6

\* The conditions of the route are those of the editor's test of it.
LEMMA SameRoute ==
    ASSUME NEW g, GraphInv(g), NEW d, PlainRule(g, d), NEW r, NEW t, RouteAt(g, d, r, t), NEW a,
           \A c \in MatchOf(g, upstream(g, d)) : IsString(resolvePath(a, c.path))
    PROVE  /\ Routed(g, a, r) <=>
                \A c \in RouteConditions(g, upstream(g, d)) : VerdictOn(a, c) = "yes"
           /\ \A c \in RouteConditions(g, upstream(g, d)) : VerdictOn(a, c) \in {"yes", "no"}
<1> DEFINE R == RouteConditions(g, upstream(g, d))
           Cond(path, name) == [path |-> path, op |-> "eq", arg |-> <<Text(name)>>]
           contract == FieldsOf(g, r).contract
           action == FieldsOf(g, r).action
<1>1. /\ Cond("contract", contract) \in R
      /\ action # "" => Cond("action", action) \in R
      /\ \A c \in R : c = Cond("contract", contract) \/ (action # "" /\ c = Cond("action", action))
  <2> DEFINE A == <<"contract", contract>>
             B == <<"action", action>>
  <2>1. R = {[path |-> n[1], op |-> "eq", arg |-> <<Text(n[2])>>] : n \in {m \in {A, B} : m[2] # ""}}
    BY DEF RouteAt, RouteConditions
  <2>2. A[1] = "contract" /\ A[2] = contract /\ B[1] = "action" /\ B[2] = action /\ contract # ""
    BY DEF RouteAt
  <2> HIDE DEF R, A, B
  <2>3. \A c : c \in R <=> \E n \in {A, B} : n[2] # "" /\ c = Cond(n[1], n[2])
    BY <2>1
  <2> HIDE DEF Cond
  <2>4. A \in {A, B} /\ B \in {A, B} /\ \A n \in {A, B} : n = A \/ n = B
    OBVIOUS
  <2>5. Cond("contract", contract) \in R
    BY <2>2, <2>3, <2>4
  <2>6. action # "" => Cond("action", action) \in R
    BY <2>2, <2>3, <2>4
  <2>7. \A c \in R : c = Cond("contract", contract) \/ (action # "" /\ c = Cond("action", action))
    BY <2>2, <2>3, <2>4
  <2>8. QED
    BY <2>5, <2>6, <2>7
<1>2. ASSUME NEW path, NEW name, Cond(path, name) \in R, path \in {"contract", "action"}
      PROVE  VerdictOn(a, Cond(path, name)) = IF Text(name) = getPath(a, path) THEN "yes" ELSE "no"
  <2> DEFINE c == Cond(path, name)
             actual == resolvePath(a, path)
             values == <<Text(name)>>
  <2>1. c \in MatchOf(g, upstream(g, d))
    BY <1>2, PlainMatch
  <2>2. IsString(actual)
    BY <2>1
  <2>3. getPath(a, path) = actual
    BY <1>2 DEF getPath
  <2>4. VerdictOn(a, c) = Member(actual, values)
    BY <2>2 DEF VerdictOn, PredicateOf, predicateHolds
  <2>5. values \in Seq({Text(name)}) /\ DOMAIN values = {1} /\ values[1] = Text(name)
    OBVIOUS
  <2>6. Text(name) # Embedded /\ substitute(Text(name)) = Text(name)
    BY DEF Text, Embedded, substitute
  <2> HIDE DEF values, actual, c
  <2>7. Member(actual, values) = IF Text(name) = actual THEN "yes" ELSE "no"
    BY <2>5, <2>6, MemberIs
  <2>8. QED
    BY <2>3, <2>4, <2>7 DEF c
<1>3. Routed(g, a, r) <=>
        Text(contract) = getPath(a, "contract") /\ (action = "" \/ Text(action) = getPath(a, "action"))
  BY RoutedIs
<1> HIDE DEF R, Cond
<1>4. /\ VerdictOn(a, Cond("contract", contract)) = IF Text(contract) = getPath(a, "contract")
                                                    THEN "yes" ELSE "no"
      /\ action # "" => VerdictOn(a, Cond("action", action)) =
                          IF Text(action) = getPath(a, "action") THEN "yes" ELSE "no"
  BY <1>1, <1>2
<1>5. \A c \in R : VerdictOn(a, c) \in {"yes", "no"}
  BY <1>1, <1>4
<1>6. Routed(g, a, r) <=> \A c \in R : VerdictOn(a, c) = "yes"
  BY <1>1, <1>3, <1>4
<1>7. QED
  BY <1>5, <1>6 DEF R

\* A test is of the field that the condition is on.
LEMMA ValueRead ==
    ASSUME NEW g, GraphInv(g), NEW d, NEW r, NEW t, RouteAt(g, d, r, t), NEW a, Routed(g, a, r),
           NEW id, NEW s, inboundNodes(g, id, "a") = {s}, TypeOf(g, s) = "getfield",
           s \in ToSet(upstream(g, d)), d \in DOMAIN g.nodes,
           NEW x \in inboundNodes(g, s, "in"), OutType(TypeOf(g, x)) = "tx",
           IsString(resolvePath(a, FieldsOf(g, s).path))
    PROVE  ValueInto(g, a, id) = resolvePath(a, FieldsOf(g, s).path)
<1>1. x \in ToSet(upstream(g, d)) /\ x \in DOMAIN g.nodes
  BY SourceUpstream, SourceIs
<1>2. x = r \/ TypeOf(g, x) = "transaction"
  BY <1>1 DEF RouteAt
<1>3. Routed(g, a, x)
  BY <1>1, <1>2, RoutedIs
<1>4. (CHOOSE y \in inboundNodes(g, id, "a") : TRUE) = s
  OBVIOUS
<1>5. inboundNodes(g, id, "a") # {}
  OBVIOUS
<1>6. ValueInto(g, a, id) = getPath(a, FieldsOf(g, s).path)
  BY <1>3, <1>4, <1>5 DEF ValueInto
<1>7. resolvePath(a, FieldsOf(g, s).path) # Absent
  BY DEF IsString, Absent
<1>8. QED
  BY <1>6, <1>7 DEF getPath

\* The editor's test against the engine's.
LEMMA SameTest ==
    ASSUME NEW g, GraphInv(g), NEW d, PlainRule(g, d), NEW r, NEW t, RouteAt(g, d, r, t),
           NEW a, NEW evidence, getPath(a, "data.from") = Text(Agent), Routed(g, a, r),
           NEW id \in ToSet(upstream(g, d)), Tests(g, id), NEW c \in ConditionsOf(g, id),
           LET actual == resolvePath(a, c.path)
           IN /\ IsString(actual)
              /\ actual.kind = "amount" => actual.units \in Nat /\ actual.places \in Nat,
           c.arg \in Seq(ToSet(c.arg)), \A v \in ToSet(c.arg) : Literal(v)
    PROVE  /\ VerdictOn(a, c) = "yes" => SampleTest(g, a, evidence, id)
           /\ SampleTest(g, a, evidence, id) => VerdictOn(a, c) # "no"
<1>1. PICK s : /\ inboundNodes(g, id, "a") = {s} /\ TypeOf(g, s) = "getfield"
               /\ s \in ToSet(upstream(g, d))
               /\ \E x \in inboundNodes(g, s, "in") : OutType(TypeOf(g, x)) = "tx"
               /\ TypeOf(g, id) = "compare" => OpOf(g, id) \in Declarative
               /\ ConditionsOf(g, id) =
                       {[path |-> FieldsOf(g, s).path, op |-> OpOf(g, id), arg |-> ArgOf(g, id)]}
  BY PlainTest
<1>2. c = [path |-> FieldsOf(g, s).path, op |-> OpOf(g, id), arg |-> ArgOf(g, id)]
  BY <1>1
<1>3. c.path = FieldsOf(g, s).path /\ c.op = OpOf(g, id) /\ c.arg = ArgOf(g, id)
  BY <1>2
<1> DEFINE actual == resolvePath(a, c.path)
<1>4. IsString(actual) /\ (actual.kind = "amount" => actual.units \in Nat /\ actual.places \in Nat)
  OBVIOUS
<1>5. ValueInto(g, a, id) = actual
  <2>1. PICK x \in inboundNodes(g, s, "in") : OutType(TypeOf(g, x)) = "tx"
    BY <1>1
  <2>2. d \in DOMAIN g.nodes
    BY DEF PlainRule, Decisions
  <2>3. QED
    BY <1>1, <1>3, <1>4, <2>1, <2>2, ValueRead
<1>6. VerdictOn(a, c) = predicateHolds(actual, PredicateOf(c))
  BY DEF VerdictOn
<1> HIDE DEF actual
<1>7. CASE TypeOf(g, id) = "compare"
  <2> DEFINE v == FieldsOf(g, id).value
  <2>1. c.op \in Declarative /\ c.op = FieldsOf(g, id).op /\ c.arg = <<v>>
    BY <1>1, <1>3, <1>7 DEF OpOf, ArgOf
  <2>2. Literal(v)
    <3>1. v \in ToSet(<<v>>)
      <4>1. DOMAIN <<v>> = {1} /\ <<v>>[1] = v
        OBVIOUS
      <4>2. QED
        BY <4>1 DEF ToSet
    <3>2. QED
      BY <2>1, <3>1
  <2>3. SampleTest(g, a, evidence, id) <=> compareSample(actual, c.op, resolve(v, a))
    BY <1>5, <1>7, <2>1 DEF SampleTest
  <2> HIDE DEF v
  <2>4. QED
    BY <1>4, <1>6, <2>1, <2>2, <2>3, SameCompare
<1>8. CASE TypeOf(g, id) = "inlist"
  <2> DEFINE values == FieldsOf(g, id).list
             listed == \E i \in DOMAIN values : resolve(values[i], a) = AsText(actual)
             verdict(op) == predicateHolds(actual, PredicateOf([path |-> c.path, op |-> op, arg |-> values]))
  <2>1. c.arg = values /\ c.op = IF FieldsOf(g, id).mode = "notin" THEN "notIn" ELSE "in"
    BY <1>3, <1>8 DEF OpOf, ArgOf
  <2>2. c = [path |-> c.path, op |-> c.op, arg |-> values]
    BY <1>2, <2>1
  <2>3. actual # Absent
    BY <1>4 DEF IsString, Absent
  <2>4. SampleTest(g, a, evidence, id) <=> (FieldsOf(g, id).mode = "notin") # InSample(g, a, id)
    BY <1>8 DEF SampleTest
  <2>5. InSample(g, a, id) = listed
    BY <1>5, <2>3 DEF InSample
  <2>6. VerdictOn(a, c) = verdict(c.op)
    BY <1>6, <2>2
  <2>7. values \in Seq(ToSet(values)) /\ \A v \in ToSet(values) : Literal(v)
    BY <2>1
  <2> HIDE DEF values
  <2>8. /\ verdict("in") = "yes" => listed
        /\ listed => verdict("in") # "no"
        /\ verdict("notIn") = "yes" => ~listed
        /\ ~listed => verdict("notIn") # "no"
    BY <1>4, <2>7, SameList
  <2> HIDE DEF listed, verdict
  <2>9. CASE FieldsOf(g, id).mode = "notin"
    <3>1. SampleTest(g, a, evidence, id) <=> ~listed
      BY <2>4, <2>5, <2>9
    <3>2. QED
      BY <2>1, <2>6, <2>8, <2>9, <3>1
  <2>10. CASE FieldsOf(g, id).mode # "notin"
    <3>1. SampleTest(g, a, evidence, id) <=> listed
      BY <2>4, <2>5, <2>10 DEF listed
    <3>2. QED
      BY <2>1, <2>6, <2>8, <2>10, <3>1
  <2>11. QED
    BY <2>9, <2>10
<1>9. QED
  BY <1>7, <1>8 DEF Tests

\* A requirement that was compiled, against the test it was compiled from.
LEMMA SameRow ==
    ASSUME NEW g, GraphInv(g), NEW d, PlainRule(g, d), NEW r, NEW t, RouteAt(g, d, r, t),
           NEW a, NEW evidence, getPath(a, "data.from") = Text(Agent), Routed(g, a, r),
           NEW id \in ToSet(upstream(g, d)), TypeOf(g, id) = "contains", NEW req \in ProvidersOf(g, id),
           req.key.kind = "variable" => req.key.name = "$agent",
           req.value.kind = "variable" => req.value.name = "$agent"
    PROVE  /\ providerHolds(req, a, evidence) = "yes" => SampleTest(g, a, evidence, id)
           /\ SampleTest(g, a, evidence, id) => providerHolds(req, a, evidence) # "no"
<1>1. PICK sl \in LookupsOf(g, id) :
          req = [table |-> FieldsOf(g, sl[2]).table, key |-> FieldsOf(g, sl[2]).key, op |-> "contains",
                 value |-> FieldsOf(g, id).value]
  BY DEF ProvidersOf
<1>2. PICK s \in Sources(g, id, "a", "getfield") : \E l \in Sources(g, s, "in", "lookup") : sl = <<s, l>>
  BY DEF LookupsOf
<1>3. PICK l \in Sources(g, s, "in", "lookup") : sl = <<s, l>>
  BY <1>2
<1>4. /\ req.table = FieldsOf(g, l).table /\ req.key = FieldsOf(g, l).key /\ req.op = "contains"
      /\ req.value = FieldsOf(g, id).value
  BY <1>1, <1>3
<1>5. FieldsOf(g, s).path = "allowed"
  <2>1. ~Drops(g, id)
    BY DEF PlainRule, Warns
  <2>2. QED
    BY <1>3, <2>1 DEF Drops
<1>6. Sources(g, id, "a", "getfield") = {s} /\ Sources(g, s, "in", "lookup") = {l}
  <2>1. s \in inboundNodes(g, id, "a") /\ l \in inboundNodes(g, s, "in") /\ TypeOf(g, s) = "getfield"
    BY DEF Sources
  <2>2. inboundNodes(g, id, "a") = {s}
    BY <2>1, OneSource DEF isMultiInput
  <2>3. inboundNodes(g, s, "in") = {l}
    BY <2>1, OneSource DEF isMultiInput
  <2>4. QED
    BY <2>2, <2>3 DEF Sources
<1>7. \E x \in inboundNodes(g, l, "tx") : Routed(g, a, x)
  <2>1. d \in DOMAIN g.nodes
    BY DEF PlainRule, Decisions
  <2>2. s \in ToSet(upstream(g, d))
    BY <2>1, SourceUpstream DEF Sources
  <2>3. l \in ToSet(upstream(g, d)) /\ TypeOf(g, l) = "lookup"
    BY <2>1, <2>2, SourceUpstream DEF Sources
  <2>4. inboundNodes(g, l, "tx") # {}
    <3>1. "tx" \in InPorts(TypeOf(g, l)) \ {"cond"}
      BY <2>3 DEF InPorts
    <3>2. \A key \in InPorts(TypeOf(g, l)) \ {"cond"} : inboundNodes(g, l, key) # {}
      BY <2>3 DEF PlainRule
    <3>3. QED
      BY <3>1, <3>2
  <2>5. PICK x \in inboundNodes(g, l, "tx") : TRUE
    BY <2>4
  <2>6. x \in ToSet(upstream(g, d)) /\ x \in DOMAIN g.nodes
    BY <2>1, <2>3, SourceUpstream, SourceIs
  <2>7. OutType(TypeOf(g, x)) = "tx"
    BY <2>3, SourceIs, SourceFits
  <2>8. x = r \/ TypeOf(g, x) = "transaction"
    BY <2>6, <2>7 DEF RouteAt
  <2>9. Routed(g, a, x)
    BY <2>6, <2>8, RoutedIs
  <2>10. QED
    BY <2>9
<1> DEFINE query == queryFor(FieldsOf(g, l), a)
           row == evidence[query]
<1>8. SampleTest(g, a, evidence, id) <=>
        /\ RowFound(evidence, query) /\ row.array
        /\ resolve(req.value, a) \in row.elements
  <2>1. RowsRead(g, a, evidence, s) = IF RowFound(evidence, query) THEN {query} ELSE {}
    BY <1>6, <1>7 DEF RowsRead
  <2>2. SampleTest(g, a, evidence, id) <=>
          \E q \in RowsRead(g, a, evidence, s) :
              evidence[q].array /\ resolve(FieldsOf(g, id).value, a) \in evidence[q].elements
    BY <1>5, <1>6 DEF SampleTest, ContainsSample
  <2> HIDE DEF query
  <2>3. QED
    BY <1>4, <2>1, <2>2
<1> DEFINE asked == resolveTableRowArgs(req, a)
           target == substituteArg(req.value, a)
<1>9. Resolves(req, a) => asked = query
  <2>1. SUFFICES ASSUME Resolves(req, a) PROVE asked = query
    OBVIOUS
  <2>2. resolve(req.key, a) = substituteArg(req.key, a)
    BY <2>1, SameArgument DEF Resolves
  <2>3. QED
    BY <1>4, <2>2 DEF queryFor, resolveTableRowArgs
<1>10. IsString(target) => resolve(req.value, a) = target
  BY SameArgument
<1>11. providerHolds(req, a, evidence) =
         IF ~Resolves(req, a) THEN "ambiguous"
         ELSE IF asked \notin DOMAIN evidence THEN "unavailable"
         ELSE IF ~evidence[asked].ok THEN "unavailable"
         ELSE IF ~evidence[asked].found THEN "no"
         ELSE IF ~IsString(target) THEN "ambiguous"
         ELSE IF ~evidence[asked].array THEN "ambiguous"
         ELSE IF target \in evidence[asked].elements THEN "yes" ELSE "no"
  BY <1>4 DEF providerHolds
<1> HIDE DEF query, asked, target
<1>12. QED
  BY <1>8, <1>9, <1>10, <1>11 DEF RowFound

-----------------------------------------------------------------------------
(* A rule, as it was compiled. *)

\* The conditions of a rule are listed in the document the daemon reads.
LEMMA MatchListed ==
    ASSUME NEW rule, \A c \in rule.match : c.path \in MatchPaths,
           \A c, e \in rule.match : c.path = e.path => c = e
    PROVE  LET list == EngineRule(rule).match
           IN /\ \E n \in Nat : DOMAIN list = 1 .. n
              /\ \A i \in DOMAIN list : \E c \in rule.match : list[i] = PredicateOf(c)
              /\ \A c \in rule.match : \E i \in DOMAIN list : list[i] = PredicateOf(c)
<1> DEFINE M == rule.match
           conditions == Sorted(M, [c \in M |-> {e \in M : Before(e, c)}])
           list == EngineRule(rule).match
<1>1. conditions \in Seq(M) /\ \A c \in M : \E i \in DOMAIN conditions : conditions[i] = c
  BY MatchIsListed
<1>2. list = [i \in DOMAIN conditions |-> PredicateOf(conditions[i])]
  BY DEF EngineRule
<1> HIDE DEF conditions, list
<1>3. DOMAIN list = DOMAIN conditions /\ \A i \in DOMAIN list : list[i] = PredicateOf(conditions[i])
  BY <1>2
<1>4. Len(conditions) \in Nat /\ DOMAIN conditions = 1 .. Len(conditions)
  BY <1>1
<1>5. \A i \in DOMAIN list : conditions[i] \in M
  BY <1>1, <1>3
<1>6. \A c \in M : \E i \in DOMAIN list : list[i] = PredicateOf(c)
  BY <1>1, <1>3
<1>7. QED
  BY <1>3, <1>4, <1>5, <1>6 DEF list

\* A rule matches if each of its conditions and requirements holds, and fails
\* only if one of them does.
LEMMA RuleMatchIs ==
    ASSUME NEW rule, NEW a, NEW evidence,
           \A c \in rule.match : c.path \in MatchPaths,
           \A c, e \in rule.match : c.path = e.path => c = e,
           NEW D, rule.providers \in Seq(D)
    PROVE  LET verdict == ruleMatches(a, EngineRule(rule), evidence)
           IN /\ verdict = "yes" =>
                   /\ \A c \in rule.match : VerdictOn(a, c) = "yes"
                   /\ \A req \in ToSet(rule.providers) : providerHolds(req, a, evidence) = "yes"
              /\ verdict = "no" =>
                   \/ \E c \in rule.match : VerdictOn(a, c) = "no"
                   \/ \E req \in ToSet(rule.providers) : providerHolds(req, a, evidence) = "no"
<1> DEFINE engine == EngineRule(rule)
           list == engine.match
           tests == [i \in DOMAIN list |-> predicateHolds(resolvePath(a, list[i].path), list[i])]
           n == Len(rule.providers)
           needs == [i \in DOMAIN engine.providers |-> providerHolds(engine.providers[i], a, evidence)]
           static == staticMatch(a, engine)
           both == <<static>> \o needs
           verdict == ruleMatches(a, engine, evidence)
<1>1. PICK m \in Nat : DOMAIN list = 1 .. m
  BY MatchListed
<1>2. /\ \A i \in DOMAIN list : \E c \in rule.match : list[i] = PredicateOf(c)
      /\ \A c \in rule.match : \E i \in DOMAIN list : list[i] = PredicateOf(c)
  BY MatchListed
<1>3. \A c : PredicateOf(c).path = c.path
  BY DEF PredicateOf
<1>4. engine.providers = rule.providers
  BY DEF EngineRule
<1>5. n \in Nat /\ DOMAIN rule.providers = 1 .. n
  OBVIOUS
<1>6. needs = [i \in 1 .. n |-> needs[i]] /\ DOMAIN needs = 1 .. n
      /\ \A i \in 1 .. n : needs[i] = providerHolds(rule.providers[i], a, evidence)
  BY <1>4, <1>5
<1>7. static = FirstOther(tests, "yes") /\ verdict = FirstOther(both, "yes")
  BY DEF staticMatch, ruleMatches
<1>8. DOMAIN tests = 1 .. m
      /\ \A i \in 1 .. m : tests[i] = predicateHolds(resolvePath(a, list[i].path), list[i])
  BY <1>1
<1> HIDE DEF list, engine
<1>9. /\ \A i \in 1 .. m : \E c \in rule.match : tests[i] = VerdictOn(a, c)
      /\ \A c \in rule.match : \E i \in 1 .. m : tests[i] = VerdictOn(a, c)
  <2>1. \A c : \A i \in 1 .. m : list[i] = PredicateOf(c) => tests[i] = VerdictOn(a, c)
    BY <1>3, <1>8 DEF VerdictOn
  <2>2. QED
    BY <1>1, <1>2, <2>1
<1> HIDE DEF tests, needs, static
<1>10. /\ DOMAIN both = 1 .. n + 1 /\ both[1] = static
       /\ \A i \in 1 .. n : both[i + 1] = needs[i]
  BY <1>5, <1>6, HeadAndRest
<1> HIDE DEF both, verdict, n
<1>11. n + 1 \in Nat /\ 1 \in 1 .. n + 1 /\ \A i \in 1 .. n : i + 1 \in 1 .. n + 1
  BY <1>5
<1>12. ASSUME verdict = "yes"
       PROVE  /\ \A c \in rule.match : VerdictOn(a, c) = "yes"
              /\ \A req \in ToSet(rule.providers) : providerHolds(req, a, evidence) = "yes"
  <2>1. \A i \in 1 .. n + 1 : both[i] = "yes"
    BY <1>7, <1>10, <1>11, <1>12, FirstOtherPasses
  <2>2. static = "yes" /\ \A i \in 1 .. n : needs[i] = "yes"
    BY <1>10, <1>11, <2>1
  <2>3. \A i \in 1 .. m : tests[i] = "yes"
    BY <1>7, <1>8, <2>2, FirstOtherPasses
  <2>4. QED
    BY <1>5, <1>6, <1>9, <2>2, <2>3 DEF ToSet
<1>13. ASSUME verdict = "no"
       PROVE  \/ \E c \in rule.match : VerdictOn(a, c) = "no"
              \/ \E req \in ToSet(rule.providers) : providerHolds(req, a, evidence) = "no"
  <2>1. PICK i \in 1 .. n + 1 : both[i] = "no"
    BY <1>7, <1>10, <1>11, <1>13, FirstOtherEnds
  <2>2. CASE i = 1
    <3>1. static = "no"
      BY <1>10, <2>1, <2>2
    <3>2. PICK j \in 1 .. m : tests[j] = "no"
      BY <1>7, <1>8, <3>1, FirstOtherEnds
    <3>3. QED
      BY <1>9, <3>2
  <2>3. CASE i # 1
    <3>1. i - 1 \in 1 .. n /\ (i - 1) + 1 = i
      BY <1>5, <2>3
    <3>2. needs[i - 1] = "no"
      BY <1>10, <2>1, <3>1
    <3>3. rule.providers[i - 1] \in ToSet(rule.providers)
      BY <1>5, <3>1 DEF ToSet
    <3>4. QED
      BY <1>6, <3>1, <3>2, <3>3
  <2>4. QED
    BY <2>2, <2>3
<1>14. QED
  BY <1>12, <1>13 DEF verdict, engine

\* What the daemon allows the test calls firing, and what the test calls
\* firing the daemon does not pass over.
LEMMA SameRule ==
    ASSUME NEW g, GraphInv(g), NEW d, PlainRule(g, d), Readable(compileRule(g, d)),
           NEW a, NEW evidence, getPath(a, "data.from") = Text(Agent),
           \A c \in compileRule(g, d).match :
              LET actual == resolvePath(a, c.path)
              IN /\ IsString(actual)
                 /\ actual.kind = "amount" => actual.units \in Nat /\ actual.places \in Nat
    PROVE  LET verdict == ruleMatches(a, EngineRule(compileRule(g, d)), evidence)
           IN /\ verdict = "yes" => Fires(g, a, evidence, d)
              /\ Fires(g, a, evidence, d) => verdict # "no"
<1> DEFINE rule == compileRule(g, d)
           up == upstream(g, d)
           list == rule.providers
           verdict == ruleMatches(a, EngineRule(rule), evidence)
           Has2(c) == LET actual == resolvePath(a, c.path)
                      IN /\ IsString(actual)
                         /\ actual.kind = "amount" => actual.units \in Nat /\ actual.places \in Nat
<1>1. rule.match = MatchOf(g, up)
  BY DEF compileRule
<1>2. PICK r, t : RouteAt(g, d, r, t)
  BY RouteIs
<1>3. /\ up \in Seq(DOMAIN g.nodes)
      /\ \A id \in ToSet(up) : ConditionsOf(g, id) \subseteq MatchOf(g, up)
      /\ RouteConditions(g, up) \subseteq MatchOf(g, up)
      /\ \A c \in MatchOf(g, up) :
            \/ c \in RouteConditions(g, up)
            \/ \E id \in ToSet(up) : Tests(g, id) /\ c \in ConditionsOf(g, id)
  BY PlainMatch
<1>4. /\ \A c \in rule.match : c.path \in MatchPaths
      /\ \A c, e \in rule.match : c.path = e.path => c = e
  BY <1>1, <1>3, MatchIs
<1>5. d \in Decisions(g)
  BY DEF PlainRule
<1>6. /\ list \in Seq(UNION {ProvidersOf(g, id) : id \in ToSet(up)})
      /\ \A req \in ToSet(list) : \E id \in ToSet(up) : req \in ProvidersOf(g, id)
      /\ \A id \in ToSet(up) : ProvidersOf(g, id) # {} =>
            \E req \in ProvidersOf(g, id) : req \in ToSet(list)
  BY <1>5, ProvidersListed
<1>7. /\ verdict = "yes" => /\ \A c \in rule.match : VerdictOn(a, c) = "yes"
                            /\ \A req \in ToSet(list) : providerHolds(req, a, evidence) = "yes"
      /\ verdict = "no" => \/ \E c \in rule.match : VerdictOn(a, c) = "no"
                           \/ \E req \in ToSet(list) : providerHolds(req, a, evidence) = "no"
  <2> HIDE DEF rule
  <2>1. QED
    BY <1>4, <1>6, RuleMatchIs
<1>8. \A c \in rule.match : Has2(c)
  OBVIOUS
<1>9. /\ \A c \in rule.match : c.arg \in Seq(ToSet(c.arg)) /\ \A v \in ToSet(c.arg) : Literal(v)
      /\ \A req \in ToSet(list) : /\ req.key.kind = "variable" => req.key.name = "$agent"
                                  /\ req.value.kind = "variable" => req.value.name = "$agent"
  BY DEF Readable
<1> HIDE DEF rule, verdict, list, up
<1>10. /\ Routed(g, a, r) <=> \A c \in RouteConditions(g, up) : VerdictOn(a, c) = "yes"
       /\ \A c \in RouteConditions(g, up) : VerdictOn(a, c) \in {"yes", "no"}
  <2>1. \A c \in MatchOf(g, upstream(g, d)) : IsString(resolvePath(a, c.path))
    BY <1>1, <1>8 DEF up
  <2>2. QED
    BY <1>2, <2>1, SameRoute DEF up
<1>11. ASSUME Routed(g, a, r), NEW id \in ToSet(up), Tests(g, id), NEW c \in ConditionsOf(g, id)
       PROVE  /\ VerdictOn(a, c) = "yes" => SampleTest(g, a, evidence, id)
              /\ SampleTest(g, a, evidence, id) => VerdictOn(a, c) # "no"
  <2>1. c \in rule.match
    BY <1>1, <1>3
  <2>2. Has2(c) /\ c.arg \in Seq(ToSet(c.arg)) /\ \A v \in ToSet(c.arg) : Literal(v)
    BY <1>8, <1>9, <2>1
  <2>3. QED
    BY <1>2, <1>11, <2>2, SameTest DEF up
<1>12. ASSUME Routed(g, a, r), NEW id \in ToSet(up), NEW req \in ProvidersOf(g, id), req \in ToSet(list)
       PROVE  /\ TypeOf(g, id) = "contains"
              /\ providerHolds(req, a, evidence) = "yes" => SampleTest(g, a, evidence, id)
              /\ SampleTest(g, a, evidence, id) => providerHolds(req, a, evidence) # "no"
  <2>1. TypeOf(g, id) = "contains"
    BY DEF ProvidersOf
  <2>2. QED
    BY <1>2, <1>9, <1>12, <2>1, SameRow DEF up
<1>13. Fires(g, a, evidence, d) <=>
         /\ Routed(g, a, r)
         /\ \A x \in ToSet(up) : IsTest(g, x) => SampleTest(g, a, evidence, x)
  BY <1>2, FiresIs DEF up
<1>14. ASSUME verdict = "yes" PROVE Fires(g, a, evidence, d)
  <2>1. Routed(g, a, r)
    BY <1>1, <1>3, <1>7, <1>10, <1>14
  <2>2. ASSUME NEW x \in ToSet(up), IsTest(g, x) PROVE SampleTest(g, a, evidence, x)
    <3>1. CASE Tests(g, x)
      <4>1. PICK c : ConditionsOf(g, x) = {c}
        <5>1. \E s : ConditionsOf(g, x) =
                 {[path |-> FieldsOf(g, s).path, op |-> OpOf(g, x), arg |-> ArgOf(g, x)]}
          BY <3>1, PlainTest DEF up
        <5>2. QED
          BY <5>1
      <4>2. VerdictOn(a, c) = "yes"
        BY <1>1, <1>3, <1>7, <1>14, <4>1
      <4>3. QED
        BY <1>11, <2>1, <3>1, <4>1, <4>2
    <3>2. CASE ~Tests(g, x)
      <4>1. TypeOf(g, x) = "contains"
        BY <2>2, <3>2 DEF IsTest, Tests
      <4>2. LookupsOf(g, x) # {}
        BY <4>1 DEF PlainRule, Warns, up
      <4>3. ProvidersOf(g, x) # {}
        BY <4>1, <4>2 DEF ProvidersOf
      <4>4. PICK req \in ProvidersOf(g, x) : req \in ToSet(list)
        BY <1>6, <4>3
      <4>5. QED
        BY <1>7, <1>12, <1>14, <2>1, <4>4
    <3>3. QED
      BY <3>1, <3>2
  <2>3. QED
    BY <1>13, <2>1, <2>2
<1>15. ASSUME Fires(g, a, evidence, d), verdict = "no" PROVE FALSE
  <2>1. Routed(g, a, r) /\ \A x \in ToSet(up) : IsTest(g, x) => SampleTest(g, a, evidence, x)
    BY <1>13, <1>15
  <2>2. ASSUME NEW c \in rule.match, VerdictOn(a, c) = "no" PROVE FALSE
    <3>1. CASE c \in RouteConditions(g, up)
      BY <1>10, <2>1, <2>2, <3>1
    <3>2. CASE c \notin RouteConditions(g, up)
      <4>1. PICK id \in ToSet(up) : Tests(g, id) /\ c \in ConditionsOf(g, id)
        BY <1>1, <1>3, <3>2
      <4>2. IsTest(g, id)
        BY <4>1 DEF Tests, IsTest
      <4>3. QED
        BY <1>11, <2>1, <2>2, <4>1, <4>2
    <3>3. QED
      BY <3>1, <3>2
  <2>3. ASSUME NEW req \in ToSet(list), providerHolds(req, a, evidence) = "no" PROVE FALSE
    <3>1. PICK id \in ToSet(up) : req \in ProvidersOf(g, id)
      BY <1>6
    <3>2. TypeOf(g, id) = "contains" /\ (SampleTest(g, a, evidence, id) => providerHolds(req, a, evidence) # "no")
      BY <1>12, <2>1, <3>1
    <3>3. IsTest(g, id)
      BY <3>2 DEF IsTest
    <3>4. QED
      BY <2>1, <2>3, <3>2, <3>3
  <2>4. QED
    BY <1>7, <1>15, <2>2, <2>3
<1>16. QED
  BY <1>14, <1>15 DEF verdict, rule

-----------------------------------------------------------------------------
(* What governs an action, and the limits on what it governs. *)

\* Of decisions drawn in the order they were made, the first written is the
\* first made.
LEMMA PlainOrder ==
    ASSUME NEW g, GraphInv(g), Plain(g), NEW e \in Reaching(g), NEW d \in Reaching(g), Above(g, e, d)
    PROVE  e \in Nat /\ d \in Nat /\ e < d
<1>1. {e, d} \subseteq Decisions(g) \cap ToSet(upstream(g, The(g, "policy")))
  BY DEF Reaching, reaches
<1>2. g.nodes[e].y < g.nodes[d].y => e < d
  BY <1>1 DEF Plain
<1>3. e < d
  BY <1>2 DEF Above
<1>4. QED
  BY <1>3, FiniteGraph DEF Reaching, Decisions

\* The decisions of which the rules of a policy were written, in their order.
Compiled(g, kept, policy) ==
    /\ IsList(kept)
    /\ \A i \in DOMAIN kept : kept[i] \in Reaching(g) /\ Readable(compileRule(g, kept[i]))
    /\ \A d \in Reaching(g) : \E i \in DOMAIN kept : kept[i] = d
    /\ \A i, j \in DOMAIN kept : i < j => Above(g, kept[i], kept[j])
    /\ policy.rules = [i \in DOMAIN kept |-> EngineRule(compileRule(g, kept[i]))]

\* The tests that the daemon allows: each action is governed, in the editor as
\* in the engine, by one rule that allows it.
LEMMA SameGoverning ==
    ASSUME NEW g, GraphInv(g), Plain(g),
           NEW kept, NEW policy, Compiled(g, kept, policy),
           NEW a, NEW evidence, Permitted(a, policy, evidence),
           \A j \in DOMAIN kept : LET verdict == ruleMatches(a, policy.rules[j], evidence)
                                      fires == Fires(g, a, evidence, kept[j])
                                  IN (verdict = "yes" => fires) /\ (fires => verdict # "no"),
           \A j \in DOMAIN policy.rules : policy.rules[j].effect = "deny" =>
              ruleMatches(a, policy.rules[j], evidence) = "no"
    PROVE  /\ governing(a, policy, evidence) \in DOMAIN kept
           /\ FieldsOf(g, kept[governing(a, policy, evidence)]).effect = "allow"
           /\ sampleGoverning(g, a, evidence) = {kept[governing(a, policy, evidence)]}
<1> DEFINE governor == governing(a, policy, evidence)
           verdict(j) == ruleMatches(a, policy.rules[j], evidence)
           allows == FiringOf(g, a, evidence, "allow")
           denies == FiringOf(g, a, evidence, "deny")
<1>0. /\ IsList(kept)
      /\ \A i \in DOMAIN kept : kept[i] \in Reaching(g)
      /\ \A d \in Reaching(g) : \E i \in DOMAIN kept : kept[i] = d
      /\ \A i, j \in DOMAIN kept : i < j => Above(g, kept[i], kept[j])
      /\ policy.rules = [i \in DOMAIN kept |-> EngineRule(compileRule(g, kept[i]))]
  BY DEF Compiled
<1>1. DOMAIN policy.rules = DOMAIN kept /\ DOMAIN kept = 1 .. Len(kept) /\ Len(kept) \in Nat
  BY <1>0 DEF IsList
<1>2. \A j \in DOMAIN kept : policy.rules[j].effect = FieldsOf(g, kept[j]).effect
  <2>1. \A rule : EngineRule(rule).effect = rule.effect
    BY DEF EngineRule
  <2>2. \A d : compileRule(g, d).effect = FieldsOf(g, d).effect
    BY DEF compileRule
  <2>3. \A j \in DOMAIN kept : policy.rules[j] = EngineRule(compileRule(g, kept[j]))
    BY <1>0
  <2>4. QED
    BY <2>1, <2>2, <2>3
<1>3. IsList(policy.rules)
  <2>1. policy.rules \in Seq(ToSet(policy.rules))
    <3> DEFINE rules == policy.rules
    <3>1. rules = [i \in 1 .. Len(kept) |-> rules[i]] /\ \A i \in 1 .. Len(kept) : rules[i] \in ToSet(rules)
      BY <1>0, <1>1 DEF ToSet
    <3> HIDE DEF rules
    <3>2. rules \in Seq(ToSet(rules))
      BY <1>1, <3>1
    <3>3. QED
      BY <3>2 DEF rules
  <2>2. QED
    BY <2>1 DEF IsList
<1>4. governor # 0 /\ verdict(governor) = "yes"
  BY DEF Permitted
<1>5. /\ governor \in DOMAIN kept
      /\ policy.rules[governor].effect = "allow"
      /\ \A k \in DOMAIN kept : k < governor => ~(policy.rules[k].effect = "allow" /\ verdict(k) # "no")
  BY <1>1, <1>3, <1>4, GoverningFound DEF Candidate
<1>6. \A j \in DOMAIN kept : verdict(j) = "yes" => Fires(g, a, evidence, kept[j])
  OBVIOUS
<1>7. \A j \in DOMAIN kept : Fires(g, a, evidence, kept[j]) => verdict(j) # "no"
  OBVIOUS
<1>8. \A j \in DOMAIN kept : policy.rules[j].effect = "deny" => verdict(j) = "no"
  BY <1>1
<1>9. \A d, effect : d \in FiringOf(g, a, evidence, effect) <=>
         /\ d \in Reaching(g) /\ FieldsOf(g, d).effect = effect /\ Fires(g, a, evidence, d)
  BY DEF FiringOf, Reaching
<1> HIDE DEF verdict, allows, denies, governor
<1>10. denies = {}
  <2>1. SUFFICES ASSUME NEW d \in denies PROVE FALSE
    OBVIOUS
  <2>2. d \in Reaching(g) /\ FieldsOf(g, d).effect = "deny" /\ Fires(g, a, evidence, d)
    BY <1>9, <2>1 DEF denies
  <2>3. PICK j \in DOMAIN kept : kept[j] = d
    BY <1>0, <2>2
  <2>4. QED
    BY <1>2, <1>7, <1>8, <2>2, <2>3
<1>11. kept[governor] \in allows
  <2>1. Fires(g, a, evidence, kept[governor]) /\ FieldsOf(g, kept[governor]).effect = "allow"
    BY <1>2, <1>4, <1>5, <1>6
  <2>2. QED
    BY <1>0, <1>5, <1>9, <2>1 DEF allows
<1>12. ASSUME NEW d \in allows PROVE d \in Nat /\ kept[governor] \in Nat /\ kept[governor] <= d
  <2>1. d \in Reaching(g) /\ FieldsOf(g, d).effect = "allow" /\ Fires(g, a, evidence, d)
    BY <1>9, <1>12 DEF allows
  <2>2. PICK k \in DOMAIN kept : kept[k] = d
    BY <1>0, <2>1
  <2>3. ~(k < governor)
    BY <1>2, <1>5, <1>7, <2>1, <2>2
  <2>4. CASE k = governor
    <3>1. d \in Nat
      BY <2>1, FiniteGraph DEF Reaching, Decisions
    <3>2. QED
      BY <2>2, <2>4, <3>1
  <2>5. CASE governor < k
    <3>1. Above(g, kept[governor], d)
      BY <1>0, <1>5, <2>2, <2>5
    <3>2. kept[governor] \in Reaching(g)
      BY <1>0, <1>5
    <3>3. kept[governor] \in Nat /\ d \in Nat /\ kept[governor] < d
      BY <2>1, <3>1, <3>2, PlainOrder
    <3>4. QED
      BY <3>3
  <2>6. governor \in Nat /\ k \in Nat
    BY <1>1, <1>5
  <2>7. QED
    BY <2>3, <2>4, <2>5, <2>6
<1>13. Min(allows) = kept[governor]
  <2>1. allows \in SUBSET Nat
    BY <1>12
  <2>2. QED
    BY <1>11, <1>12, <2>1, MinIs
<1>14. sampleGoverning(g, a, evidence) = {kept[governor]}
  <2>1. sampleGoverning(g, a, evidence) =
          IF denies # {} THEN {Min(denies)} ELSE IF allows # {} THEN {Min(allows)} ELSE {}
    BY DEF sampleGoverning, denies, allows
  <2>2. QED
    BY <1>10, <1>11, <1>13, <2>1
<1>15. QED
  BY <1>2, <1>5, <1>14 DEF governor

\* The limits of a rule as they are drawn and as the daemon reads them.
LEMMA LimitsWritten ==
    ASSUME NEW f, f.useLimit, f.effect = "allow", f.cooldownH # None => f.cooldownH \in Int,
           NEW rule, rule.limits = LimitsOf(f), Readable(rule),
           NEW limits, limits = EngineLimits(LimitsOf(f)), limits # None => LimitsShape(limits)
    PROVE  LET windowed == limits # None /\ \E w \in Windows : limits[w] # None
           IN /\ IsCap(f.maxPerTx) => /\ limits # None /\ limits.maxPerTransaction = f.maxPerTx
                                      /\ f.maxPerTx.units \in Nat
              /\ f.rlCount \notin {None, Malformed, 0} /\ f.rlPerRecipient =>
                   windowed /\ f.rlCount \in Nat /\ f.rlCount >= 1
              /\ f.cooldownH # None /\ f.cooldownH > 0 => windowed
<1> DEFINE l == LimitsOf(f)
           windowed == limits # None /\ \E w \in Windows : limits[w] # None
<1>1. /\ l.maxPerTransaction = f.maxPerTx
      /\ l.cooldownPerRecipientMs = CooldownOf(f)
      /\ l.maxCountPerRecipientPerHour = IF f.rlPerRecipient THEN CountOf(f) ELSE None
  BY DEF LimitsOf, NoLimits
<1>2. /\ IsCap(l.maxPerTransaction) => l.maxPerTransaction.units \in Nat
      /\ l # None
  BY DEF Readable
<1>3. /\ NoLimits.maxPerTransaction = None /\ NoLimits.cooldownPerRecipientMs = None
      /\ NoLimits.maxCountPerRecipientPerHour = None
  BY DEF NoLimits
<1>4. l # NoLimits => limits = l
  BY DEF EngineLimits
<1>5. {"cooldownPerRecipientMs", "maxCountPerRecipientPerHour"} \subseteq Windows
  BY DEF Windows, PerRecipient
<1> HIDE DEF l
<1>6. ASSUME IsCap(f.maxPerTx)
      PROVE  limits # None /\ limits.maxPerTransaction = f.maxPerTx /\ f.maxPerTx.units \in Nat
  <2>1. l # NoLimits
    BY <1>1, <1>3, <1>6 DEF IsCap
  <2>2. QED
    BY <1>1, <1>2, <1>4, <1>6, <2>1
<1>7. ASSUME f.rlCount \notin {None, Malformed, 0}, f.rlPerRecipient
      PROVE  windowed /\ f.rlCount \in Nat /\ f.rlCount >= 1
  <2>1. CountOf(f) = f.rlCount
    BY <1>7 DEF CountOf
  <2>2. l.maxCountPerRecipientPerHour = f.rlCount /\ f.rlCount # None
    BY <1>1, <1>7, <2>1
  <2>3. limits = l /\ limits # None
    BY <1>2, <1>3, <1>4, <2>2
  <2>4. LimitsShape(limits)
    BY <2>3
  <2>5. "maxCountPerRecipientPerHour" \in CountLimits
    BY DEF CountLimits
  <2>6. limits["maxCountPerRecipientPerHour"] \in 1 .. MaxCount
    BY <2>2, <2>3, <2>4, <2>5 DEF LimitsShape
  <2>7. f.rlCount \in Nat /\ f.rlCount >= 1
    BY <2>2, <2>3, <2>6
  <2>8. windowed
    BY <1>5, <2>2, <2>3
  <2>9. QED
    BY <2>7, <2>8
<1>8. ASSUME f.cooldownH # None, f.cooldownH > 0 PROVE windowed
  <2>1. f.cooldownH \in Int
    BY <1>8
  <2>2. CooldownOf(f) \in Int
    BY <1>8, <2>1 DEF CooldownOf
  <2>3. l.cooldownPerRecipientMs # None
    BY <1>1, <2>2, MalformedAssumption
  <2>4. QED
    BY <1>2, <1>3, <1>4, <1>5, <2>3
<1>9. QED
  BY <1>6, <1>7, <1>8

\* Amounts of one asset and its cap are of one precision: added up as numbers
\* they are the units the engine adds up.
LEMMA SameTotal ==
    ASSUME NEW actions, NEW S, S # {}, NEW cap, cap.units \in Nat,
           \A i \in S : LET amount == resolvePath(actions[i], "data.quantity.amount")
                        IN /\ assetOf(actions[i]) # None
                           /\ SameAsset(assetOf(actions[i]), cap)
                           /\ amount.kind = "amount" => amount.units \in Nat /\ amount.places \in Nat
    PROVE  Exceeds(actions, S, cap) <=>
             SumOf([i \in DOMAIN actions |-> IF i \in S THEN assetOf(actions[i]).units ELSE 0]) > cap.units
<1> DEFINE p == cap.precision
           P == {AmountOf(actions[i]).places : i \in S} \cup {p}
           places == Max(P)
<1>1. ASSUME NEW i \in S
      PROVE  LET amount == resolvePath(actions[i], "data.quantity.amount")
             IN /\ AmountOf(actions[i]) = amount /\ amount.kind = "amount"
                /\ amount.places = p /\ p \in Nat
                /\ amount.units \in Nat /\ assetOf(actions[i]).units = amount.units
  <2> DEFINE amount == resolvePath(actions[i], "data.quantity.amount")
             asset == assetOf(actions[i])
  <2>1. amount.kind = "amount" /\ asset.precision = amount.places /\ asset.units = amount.units
    BY <1>1 DEF assetOf
  <2>2. amount # Absent
    BY <2>1 DEF Absent
  <2>3. AmountOf(actions[i]) = amount
    BY <2>1, <2>2 DEF AmountOf, getPath
  <2>4. amount.units \in Nat /\ amount.places \in Nat /\ asset.precision = p
    BY <1>1, <2>1 DEF SameAsset
  <2>5. QED
    BY <2>1, <2>3, <2>4
<1>2. p \in Nat
  BY <1>1
<1>3. places = p
  <2>1. P = {p}
    BY <1>1
  <2>2. p \in P /\ \A x \in P : p >= x
    BY <1>2, <2>1
  <2> HIDE DEF P, p
  <2>3. Max(P) \in P
    BY <2>2 DEF Max
  <2>4. QED
    BY <2>1, <2>3
<1>4. 10 ^ (p - p) = 1
  <2>1. p - p = 0
    BY <1>2
  <2>2. 10 ^ 0 = 1
    OBVIOUS
  <2>3. QED
    BY <2>1, <2>2
<1>5. \A u \in Nat : u * 1 = u
  OBVIOUS
<1>6. \A i \in S : Scaled(AmountOf(actions[i]), p) = assetOf(actions[i]).units
  <2>1. TAKE i \in S
  <2> DEFINE amount == resolvePath(actions[i], "data.quantity.amount")
  <2>2. /\ AmountOf(actions[i]) = amount /\ amount.kind = "amount" /\ amount.places = p
        /\ amount.units \in Nat /\ assetOf(actions[i]).units = amount.units
    BY <1>1
  <2>3. Scaled(amount, p) = amount.units * 10 ^ (p - p)
    BY <2>2 DEF Scaled, Size
  <2>4. QED
    BY <1>4, <1>5, <2>2, <2>3
<1>7. cap.units * 10 ^ (p - cap.precision) = cap.units
  BY <1>4, <1>5
<1>8. Exceeds(actions, S, cap) <=>
        SumOf([i \in DOMAIN actions |-> IF i \in S THEN Scaled(AmountOf(actions[i]), places) ELSE 0])
          > cap.units * 10 ^ (places - cap.precision)
  BY DEF Exceeds
<1> HIDE DEF places, p
<1>9. [i \in DOMAIN actions |-> IF i \in S THEN Scaled(AmountOf(actions[i]), places) ELSE 0]
        = [i \in DOMAIN actions |-> IF i \in S THEN assetOf(actions[i]).units ELSE 0]
  BY <1>3, <1>6
<1>10. QED
  BY <1>3, <1>7, <1>8, <1>9

\* Nor does the editor find a limit exceeded that the engine does not.
LEMMA SameLimits ==
    ASSUME NEW g, GraphInv(g), Plain(g), NoneIsZero(g),
           \A d \in Decisions(g) : FieldsOf(g, d).cooldownH # None => FieldsOf(g, d).cooldownH \in Int,
           NEW kept, NEW policy, Compiled(g, kept, policy), validatePolicy(policy),
           NEW tx, IsList(tx.actions), ~RoundedUp(g, tx), NEW evidence,
           \A i \in DOMAIN tx.actions :
              LET amount == resolvePath(tx.actions[i], "data.quantity.amount")
              IN /\ amount.kind = "amount" => amount.units \in Nat /\ amount.places \in Nat
                 /\ Permitted(tx.actions[i], policy, evidence)
                 /\ governing(tx.actions[i], policy, evidence) \in DOMAIN kept,
           ~ExceedsTotal(tx, policy, evidence),
           Len(tx.actions) > 1 => ~\E rule \in ToSet(policy.rules) : wantsWindow(rule)
    PROVE  LET governs == [i \in DOMAIN tx.actions |-> {kept[governing(tx.actions[i], policy, evidence)]}]
           IN ~ruleAggregateCheck(g, tx.actions, governs)
<1> DEFINE gov(i) == governing(tx.actions[i], policy, evidence)
           n == Len(tx.actions)
           governs == [i \in DOMAIN tx.actions |-> {kept[gov(i)]}]
<1>0. /\ IsList(kept)
      /\ \A i \in DOMAIN kept : kept[i] \in Reaching(g) /\ Readable(compileRule(g, kept[i]))
      /\ \A i, j \in DOMAIN kept : i < j => Above(g, kept[i], kept[j])
      /\ policy.rules = [i \in DOMAIN kept |-> EngineRule(compileRule(g, kept[i]))]
  BY DEF Compiled
<1>1. SUFFICES ASSUME NEW d \in Decisions(g), ruleAggregateCheck(g, tx.actions, governs),
                      FieldsOf(g, d).useLimit, FieldsOf(g, d).effect = "allow",
                      LET f == FieldsOf(g, d)
                          S == {i \in DOMAIN tx.actions : d \in governs[i]}
                          To(i) == {j \in S : getPath(tx.actions[j], "data.to") = getPath(tx.actions[i], "data.to")}
                      IN /\ S # {}
                         /\ \/ IsCap(f.maxPerTx) /\ Over(tx.actions, S, f.maxPerTx)
                            \/ /\ f.rlCount \notin {None, Malformed} /\ f.rlPerRecipient
                               /\ \E i \in S : Cardinality(To(i)) > f.rlCount
                            \/ f.cooldownH # None /\ f.cooldownH > 0 /\ \E i \in S : Cardinality(To(i)) > 1
               PROVE  FALSE
  BY DEF ruleAggregateCheck
<1> DEFINE f == FieldsOf(g, d)
           S == {i \in DOMAIN tx.actions : d \in governs[i]}
           To(i) == {j \in S : getPath(tx.actions[j], "data.to") = getPath(tx.actions[i], "data.to")}
<1>2. n \in Nat /\ DOMAIN tx.actions = 1 .. n
  BY DEF IsList
<1>3. PICK k \in S : TRUE
  BY <1>1
<1> DEFINE j == gov(k)
<1>4. k \in DOMAIN tx.actions /\ j \in DOMAIN kept /\ kept[j] = d
  BY <1>3
<1>5. \A i \in DOMAIN kept : kept[i] = d => i = j
  <2>1. SUFFICES ASSUME NEW i \in DOMAIN kept, kept[i] = d, i # j PROVE FALSE
    OBVIOUS
  <2>2. i \in Nat /\ j \in Nat
    BY <1>0, <1>4 DEF IsList
  <2>3. i < j \/ j < i
    BY <2>1, <2>2
  <2>4. Above(g, d, d)
    BY <1>0, <1>4, <2>1, <2>3
  <2>5. d \in Reaching(g)
    BY <1>0, <1>4
  <2>6. d \in Nat /\ d < d
    BY <2>4, <2>5, PlainOrder
  <2>7. QED
    BY <2>6
<1>6. \A i \in DOMAIN tx.actions : i \in S <=> gov(i) = j
  BY <1>4, <1>5
<1> DEFINE rule == policy.rules[j]
           limits == rule.limits
<1>7. /\ DOMAIN policy.rules = DOMAIN kept
      /\ rule = EngineRule(compileRule(g, d))
      /\ compileRule(g, d).limits = LimitsOf(f)
      /\ Readable(compileRule(g, d))
  BY <1>0, <1>4 DEF compileRule
<1>8. limits = EngineLimits(LimitsOf(f))
  BY <1>7 DEF EngineRule
<1>9. rule \in ToSet(policy.rules)
  BY <1>4, <1>7 DEF ToSet
<1> DEFINE windowed == limits # None /\ \E w \in Windows : limits[w] # None
<1>10. /\ IsCap(f.maxPerTx) => /\ limits # None /\ limits.maxPerTransaction = f.maxPerTx
                               /\ f.maxPerTx.units \in Nat
       /\ f.rlCount \notin {None, Malformed} /\ f.rlPerRecipient =>
            windowed /\ f.rlCount \in Nat /\ f.rlCount >= 1
       /\ f.cooldownH # None /\ f.cooldownH > 0 => windowed
  <2>1. limits # None => LimitsShape(limits)
    BY <1>9 DEF validatePolicy, HasShape
  <2>2. f.rlCount # 0 /\ (f.cooldownH # None => f.cooldownH \in Int)
    BY DEF NoneIsZero
  <2>3. f.useLimit /\ f.effect = "allow"
    BY <1>1
  <2> HIDE DEF f, limits
  <2>4. QED
    BY <1>7, <1>8, <2>1, <2>2, <2>3, LimitsWritten
<1>11. \A i \in S : LimitsApply(tx.actions[i], rule)
  BY <1>6 DEF Permitted
<1>12. ~(IsCap(f.maxPerTx) /\ Over(tx.actions, S, f.maxPerTx))
  <2> DEFINE moved == [i \in DOMAIN tx.actions |-> IF i \in S THEN assetOf(tx.actions[i]).units ELSE 0]
             total == [i \in DOMAIN tx.actions |-> IF gov(i) = j THEN assetOf(tx.actions[i]).units ELSE 0]
  <2>1. SUFFICES ASSUME IsCap(f.maxPerTx), Over(tx.actions, S, f.maxPerTx) PROVE FALSE
    OBVIOUS
  <2>2. limits # None /\ limits.maxPerTransaction = f.maxPerTx /\ f.maxPerTx # None
    BY <1>10, <2>1 DEF IsCap
  <2>3. \A i \in S : LET amount == resolvePath(tx.actions[i], "data.quantity.amount")
                     IN /\ assetOf(tx.actions[i]) # None
                        /\ SameAsset(assetOf(tx.actions[i]), f.maxPerTx)
                        /\ amount.kind = "amount" => amount.units \in Nat /\ amount.places \in Nat
    <3>1. \A i \in S : i \in DOMAIN tx.actions
      OBVIOUS
    <3>2. QED
      BY <1>11, <2>2, <3>1 DEF LimitsApply
  <2>4. f.maxPerTx.units \in Nat
    BY <1>10, <2>1
  <2>5. S # {}
    BY <1>3
  <2>6. moved = total
    BY <1>6
  <2>7. SumOf(moved) > f.maxPerTx.units
    <3>1. S \in SUBSET DOMAIN tx.actions
      OBVIOUS
    <3> HIDE DEF S
    <3>2. Exceeds(tx.actions, S, f.maxPerTx)
      BY <2>1, <3>1 DEF RoundedUp
    <3> HIDE DEF f
    <3>3. QED
      BY <2>3, <2>4, <2>5, <3>2, SameTotal
  <2>8. TotalOf(tx, policy, evidence, j) = SumOf(total)
    BY DEF TotalOf
  <2> HIDE DEF moved, total, f, S, gov
  <2>9. TotalOf(tx, policy, evidence, j) > limits.maxPerTransaction.units
    BY <2>2, <2>6, <2>7, <2>8
  <2>10. j \in DOMAIN policy.rules
    BY <1>4, <1>7
  <2>11. ExceedsTotal(tx, policy, evidence)
    BY <2>2, <2>9, <2>10 DEF ExceedsTotal
  <2>12. QED
    BY <2>11
<1>13. ASSUME windowed, NEW i PROVE Cardinality(To(i)) \in Nat /\ Cardinality(To(i)) <= 1
  <2>1. wantsWindow(rule)
    BY <1>13 DEF wantsWindow
  <2>2. n <= 1
    BY <1>2, <1>9, <2>1
  <2>3. To(i) \subseteq {1}
    <3>1. To(i) \subseteq 1 .. n
      BY <1>2
    <3>2. \A x \in 1 .. n : x = 1
      BY <1>2, <2>2
    <3> HIDE DEF To
    <3>3. QED
      BY <3>1, <3>2
  <2> HIDE DEF To
  <2>4. IsFiniteSet({1}) /\ Cardinality({1}) = 1
    BY FS_Singleton
  <2>5. IsFiniteSet(To(i)) /\ Cardinality(To(i)) <= Cardinality({1})
    BY <2>3, <2>4, FS_Subset
  <2>6. Cardinality(To(i)) \in Nat
    BY <2>5, FS_CardinalityType
  <2>7. QED
    BY <2>4, <2>5, <2>6
<1>14. ~(/\ f.rlCount \notin {None, Malformed} /\ f.rlPerRecipient
         /\ \E i \in S : Cardinality(To(i)) > f.rlCount)
  <2>1. SUFFICES ASSUME f.rlCount \notin {None, Malformed}, f.rlPerRecipient,
                        NEW i, Cardinality(To(i)) > f.rlCount
                 PROVE  FALSE
    OBVIOUS
  <2>2. windowed /\ f.rlCount \in Nat /\ f.rlCount >= 1
    BY <1>10, <2>1
  <2>3. Cardinality(To(i)) \in Nat /\ Cardinality(To(i)) <= 1
    BY <1>13, <2>2
  <2> HIDE DEF To, f, windowed
  <2>4. QED
    BY <2>1, <2>2, <2>3
<1>15. ~(f.cooldownH # None /\ f.cooldownH > 0 /\ \E i \in S : Cardinality(To(i)) > 1)
  <2>1. SUFFICES ASSUME f.cooldownH # None, f.cooldownH > 0, NEW i, Cardinality(To(i)) > 1 PROVE FALSE
    OBVIOUS
  <2>2. windowed
    BY <1>10, <2>1
  <2>3. Cardinality(To(i)) \in Nat /\ Cardinality(To(i)) <= 1
    BY <1>13, <2>2
  <2> HIDE DEF To, f, windowed
  <2>4. QED
    BY <2>1, <2>3
<1>16. QED
  BY <1>1, <1>12, <1>14, <1>15

\* What was tested is what is enforced (web/src/editor/eval.ts, evaluateGraph;
\* core/policy/engine.ts, evaluatePolicy): of any plain graph that edits lead
\* to from any policy that was opened, whatever was typed into it that can be
\* read, any test of the agent's own with what the rules test, and any rows.
THEOREM TestsAreEnforced == AuthoringSpec => []TestedIsEnforced
<1>1. ASSUME AuthoringInv PROVE TestedIsEnforced
  <2> DEFINE g == graph
             doc == compilePolicy(g)
             policy == Published(doc)
  <2>1. SUFFICES ASSUME Enforceable(g), NoneIsZero(g),
                        NEW tx \in Samples, NEW evidence \in Evidences, ~RoundedUp(g, tx),
                        Own(tx), Has(tx, policy), Code(tx, policy, evidence) = "ALLOW",
                        Len(tx.actions) > 1 => ~\E rule \in ToSet(policy.rules) : wantsWindow(rule)
                 PROVE  evaluateGraph(g, tx.actions, evidence) = "allow"
    BY DEF TestedIsEnforced, EnforcedAsTested
  <2> /\ Plain(g) /\ validatePolicy(policy) /\ \A rule \in ToSet(doc.rules) : Readable(rule)
      /\ \A d \in Decisions(g) : FieldsOf(g, d).cooldownH # None => FieldsOf(g, d).cooldownH \in Int
    BY <2>1 DEF Enforceable
  <2>2. GraphInv(g) /\ Heighted(g)
    BY <1>1 DEF AuthoringInv
  <2> DEFINE K == {d \in Reaching(g) : Kept(g, d)}
  <2>3. PICK kept \in Seq(K) :
            /\ doc.rules = [i \in DOMAIN kept |-> compileRule(g, kept[i])]
            /\ \A d \in Reaching(g) : Kept(g, d) => \E i \in DOMAIN kept : kept[i] = d
            /\ \A i, j \in DOMAIN kept : i < j => Above(g, kept[i], kept[j])
    BY <2>2, CompileIs
  <2>4. \A d \in Reaching(g) : PlainRule(g, d) /\ Kept(g, d)
    <3>1. TAKE d \in Reaching(g)
    <3>2. PlainRule(g, d)
      BY <2>1, <2>2, PlainRules
    <3>3. QED
      BY <3>2 DEF PlainRule
  <2>5. /\ DOMAIN kept = 1 .. Len(kept) /\ Len(kept) \in Nat
        /\ \A i \in DOMAIN kept : kept[i] \in K
    BY <2>3
  <2>6. \A i \in DOMAIN kept : kept[i] \in Reaching(g)
    BY <2>5
  <2>7. \A d \in Reaching(g) : \E i \in DOMAIN kept : kept[i] = d
    BY <2>3, <2>4
  <2>8. DOMAIN doc.rules = DOMAIN kept /\ \A i \in DOMAIN kept : doc.rules[i] = compileRule(g, kept[i])
    BY <2>3
  <2>9. policy.rules = [i \in DOMAIN kept |-> EngineRule(compileRule(g, kept[i]))]
    <3>1. policy.rules = [i \in DOMAIN doc.rules |-> EngineRule(doc.rules[i])]
      BY DEF Published
    <3> HIDE DEF doc, policy
    <3>2. QED
      BY <2>8, <3>1
  <2>10. \A i \in DOMAIN kept : Readable(compileRule(g, kept[i]))
    <3>1. \A i \in DOMAIN kept : doc.rules[i] \in ToSet(doc.rules)
      <4> HIDE DEF doc
      <4>1. QED
        BY <2>8 DEF ToSet
    <3> HIDE DEF doc
    <3>2. QED
      BY <2>1, <2>8, <3>1
  <2>11. policy.maxActions = FieldsOf(g, The(g, "policy")).maxActions
    BY DEF Published, compilePolicy
  <2> HIDE DEF doc, policy, K
  <2>12. IsList(kept) /\ IsList(policy.rules)
    <3>1. \A list, m : m \in Nat /\ DOMAIN list = 1 .. m /\ list = [i \in DOMAIN list |-> list[i]] => IsList(list)
      <4>1. SUFFICES ASSUME NEW list, NEW m \in Nat, DOMAIN list = 1 .. m,
                            list = [i \in DOMAIN list |-> list[i]]
                     PROVE  list \in Seq(ToSet(list))
        BY DEF IsList
      <4>2. list = [i \in 1 .. m |-> list[i]] /\ \A i \in 1 .. m : list[i] \in ToSet(list)
        BY <4>1 DEF ToSet
      <4>3. QED
        BY <4>2
    <3>2. kept = [i \in DOMAIN kept |-> kept[i]]
      BY <2>3
    <3>3. DOMAIN policy.rules = DOMAIN kept /\ policy.rules = [i \in DOMAIN policy.rules |-> policy.rules[i]]
      BY <2>9
    <3>4. QED
      BY <2>5, <3>1, <3>2, <3>3
  <2> DEFINE gov(i) == governing(tx.actions[i], policy, evidence)
  <2>0. Compiled(g, kept, policy)
    BY <2>3, <2>6, <2>7, <2>9, <2>10, <2>12 DEF Compiled
  <2>13. IsList(tx.actions) /\ DOMAIN tx.actions = 1 .. Len(tx.actions) /\ Len(tx.actions) \in Nat
    BY SamplesAssumption DEF IsList
  <2>14. AllowedBy(tx, policy, evidence)
    BY <2>1, <2>12, <2>13, CodeAllows
  <2>15. \A i \in DOMAIN tx.actions : tx.actions[i] \in ToSet(tx.actions)
    BY DEF ToSet
  <2>16. \A a \in ToSet(tx.actions) : \A path :
            LET actual == resolvePath(a, path)
            IN actual.kind = "amount" => actual.units \in Nat /\ actual.places \in Nat
    BY SamplesAssumption DEF resolvePath, Absent
  <2>17. ASSUME NEW i \in DOMAIN tx.actions, NEW j \in DOMAIN kept
         PROVE  LET verdict == ruleMatches(tx.actions[i], policy.rules[j], evidence)
                    fires == Fires(g, tx.actions[i], evidence, kept[j])
                IN (verdict = "yes" => fires) /\ (fires => verdict # "no")
    <3> DEFINE a == tx.actions[i]
               rule == compileRule(g, kept[j])
    <3>1. a \in ToSet(tx.actions) /\ getPath(a, "data.from") = Text(Agent)
      BY <2>1, <2>15 DEF Own
    <3>2. policy.rules[j] = EngineRule(rule) /\ policy.rules[j] \in ToSet(policy.rules)
      BY <2>9 DEF ToSet
    <3>3. PlainRule(g, kept[j]) /\ Readable(rule)
      BY <2>4, <2>6, <2>10
    <3>4. /\ \A c \in rule.match : c.path \in MatchPaths
          /\ \A c, e \in rule.match : c.path = e.path => c = e
      <4>1. upstream(g, kept[j]) \in Seq(DOMAIN g.nodes)
        BY <2>2, <3>3, UpstreamIs DEF PlainRule, Decisions
      <4>2. rule.match = MatchOf(g, upstream(g, kept[j]))
        BY DEF compileRule
      <4> HIDE DEF rule
      <4>3. QED
        BY <2>2, <4>1, <4>2, MatchIs
    <3> HIDE DEF rule
    <3>5. \A c \in rule.match : \E m \in DOMAIN EngineRule(rule).match : EngineRule(rule).match[m] = PredicateOf(c)
      BY <3>4, MatchListed
    <3>6. \A c : PredicateOf(c).path = c.path
      BY DEF PredicateOf
    <3>7. \A c \in rule.match : IsString(resolvePath(a, c.path))
      <4>1. \A p \in ToSet(policy.rules[j].match) : IsString(resolvePath(a, p.path))
        BY <2>1, <3>1, <3>2 DEF Has
      <4>2. \A c \in rule.match : PredicateOf(c) \in ToSet(policy.rules[j].match)
        BY <3>2, <3>5 DEF ToSet
      <4>3. QED
        BY <3>6, <4>1, <4>2
    <3>8. \A c \in rule.match :
             LET actual == resolvePath(a, c.path)
             IN /\ IsString(actual)
                /\ actual.kind = "amount" => actual.units \in Nat /\ actual.places \in Nat
      BY <2>16, <3>1, <3>7
    <3>9. QED
      <4> HIDE DEF a
      <4>1. LET verdict == ruleMatches(a, EngineRule(rule), evidence)
            IN (verdict = "yes" => Fires(g, a, evidence, kept[j]))
               /\ (Fires(g, a, evidence, kept[j]) => verdict # "no")
        BY <2>2, <3>1, <3>3, <3>8, SameRule DEF rule
      <4>2. QED
        BY <3>2, <4>1 DEF a
  <2>18. ASSUME NEW i \in DOMAIN tx.actions
         PROVE  /\ gov(i) \in DOMAIN kept
                /\ FieldsOf(g, kept[gov(i)]).effect = "allow"
                /\ sampleGoverning(g, tx.actions[i], evidence) = {kept[gov(i)]}
    <3> DEFINE a == tx.actions[i]
    <3>1. Permitted(a, policy, evidence)
      BY <2>14 DEF AllowedBy
    <3>2. \A j \in DOMAIN policy.rules : policy.rules[j].effect = "deny" =>
             ruleMatches(a, policy.rules[j], evidence) = "no"
      BY <2>14 DEF AllowedBy, NotDenied
    <3>3. \A j \in DOMAIN kept : LET verdict == ruleMatches(a, policy.rules[j], evidence)
                                     fires == Fires(g, a, evidence, kept[j])
                                 IN (verdict = "yes" => fires) /\ (fires => verdict # "no")
      BY <2>17
    <3> HIDE DEF a, g
    <3>4. QED
      BY <2>0, <2>1, <2>2, <3>1, <3>2, <3>3, SameGoverning DEF a
  <2> DEFINE governs == [i \in DOMAIN tx.actions |-> sampleGoverning(g, tx.actions[i], evidence)]
  <2>19. governs = [i \in DOMAIN tx.actions |-> {kept[gov(i)]}]
    BY <2>18
  <2>20. ~ruleAggregateCheck(g, tx.actions, governs)
    <3>1. \A i \in DOMAIN tx.actions :
              LET amount == resolvePath(tx.actions[i], "data.quantity.amount")
              IN /\ amount.kind = "amount" => amount.units \in Nat /\ amount.places \in Nat
                 /\ Permitted(tx.actions[i], policy, evidence)
                 /\ governing(tx.actions[i], policy, evidence) \in DOMAIN kept
      BY <2>14, <2>15, <2>16, <2>18 DEF AllowedBy
    <3> HIDE DEF governs, g
    <3>2. ~ExceedsTotal(tx, policy, evidence)
      BY <2>14 DEF AllowedBy
    <3>3. governs = [i \in DOMAIN tx.actions |-> {kept[governing(tx.actions[i], policy, evidence)]}]
      BY <2>19
    <3> HIDE DEF gov
    <3>4. Len(tx.actions) > 1 => ~\E rule \in ToSet(policy.rules) : wantsWindow(rule)
      BY <2>1
    <3>5. ~ruleAggregateCheck(g, tx.actions,
             [i \in DOMAIN tx.actions |-> {kept[governing(tx.actions[i], policy, evidence)]}])
      <4>1. GraphInv(g) /\ NoneIsZero(g) /\ IsList(tx.actions) /\ ~RoundedUp(g, tx)
        BY <2>1, <2>2, <2>13
      <4>2. QED
        BY <4>1, <2>0, <3>1, <3>2, <3>4, SameLimits
    <3>6. QED
      BY <3>3, <3>5
  <2>21. ~globalCapCheck(g, tx.actions)
    BY <2>1 DEF globalCapCheck, Plain, reaches
  <2>22. ~(Len(tx.actions) > FieldsOf(g, The(g, "policy")).maxActions)
    BY <2>11, <2>14 DEF AllowedBy
  <2>23. \A i \in DOMAIN tx.actions : governs[i] # {} /\ "deny" \notin {FieldsOf(g, d).effect : d \in governs[i]}
    BY <2>18
  <2>24. evaluateGraph(g, tx.actions, evidence) = decidedBy(g, tx.actions, governs)
    BY DEF evaluateGraph
  <2> HIDE DEF governs, gov
  <2>25. decidedBy(g, tx.actions, governs) = "allow"
    BY <2>20, <2>21, <2>22, <2>23 DEF decidedBy
  <2>26. QED
    BY <2>24, <2>25
<1>2. QED
  BY <1>1, AuthoringInductive, PTL

-----------------------------------------------------------------------------
(* The table: rows are written one after the other, in growing versions. *)

RowFields == {"authority", "agentperm", "version", "policy", "enabled"}
IsRow(row) == DOMAIN row = RowFields /\ row.version \in Nat

TableOK ==
    /\ DOMAIN revisions = Agents
    /\ \A a \in Agents :
          /\ \E S : revisions[a] \in Seq(S)
          /\ \A i \in DOMAIN revisions[a] : IsRow(revisions[a][i].row)

\* A policy that a row holds or held, or what opening it makes of it.
NotLost(policy) == \E doc \in Held : policy \in {doc, compilePolicy(decompilePolicy(doc))}

LEMMA HeldAt ==
    \A doc : doc \in Held <=>
        \E a \in Agents : \E i \in DOMAIN revisions[a] : doc = revisions[a][i].row.policy
BY DEF Held, ToSet

\* The row in the table is the last revision.
LEMMA RowIsLast ==
    ASSUME TableOK, NEW a \in Agents, HasRow(a)
    PROVE  /\ Len(revisions[a]) \in DOMAIN revisions[a]
           /\ RowOf(a) = revisions[a][Len(revisions[a])].row
           /\ IsRow(RowOf(a)) /\ RowOf(a).policy \in Held
<1>1. /\ Len(revisions[a]) \in DOMAIN revisions[a]
      /\ RowOf(a) = revisions[a][Len(revisions[a])].row
  BY DEF TableOK, HasRow, RowOf, Last
<1>2. IsRow(RowOf(a))
  BY <1>1 DEF TableOK
<1>3. RowOf(a).policy \in Held
  BY <1>1, HeldAt
<1>4. QED
  BY <1>1, <1>2, <1>3

\* What a write does to the table and to all that read it.
Grows ==
    /\ Held \subseteq Held'
    /\ \A b \in Agents : HasRow(b) => HasRow(b)' /\ RowOf(b).version <= RowOf(b)'.version

LEMMA WriteGrows ==
    ASSUME TableOK, NEW a \in Agents, NEW row, IsRow(row), Write(a, row),
           HasRow(a), RowOf(a).version <= row.version
    PROVE  TableOK' /\ Grows /\ row.policy \in Held'
<1> DEFINE rev == [row |-> row, at |-> clock]
           old == revisions[a]
           new == Append(old, rev)
<1>1. rev.row = row
  OBVIOUS
<1>2. PICK S : old \in Seq(S)
  BY DEF TableOK
<1>3. revisions' = [revisions EXCEPT ![a] = new]
  BY DEF Write
<1> HIDE DEF rev
<1>4. /\ new \in Seq(S \cup {rev}) /\ Len(new) = Len(old) + 1 /\ Len(new) \in DOMAIN new
      /\ DOMAIN new = DOMAIN old \cup {Len(new)}
      /\ new[Len(new)] = rev /\ \A i \in DOMAIN old : new[i] = old[i]
  <2>1. old \in Seq(S \cup {rev})
    BY <1>2
  <2>2. QED
    BY <2>1
<1> HIDE DEF old, new
<1>5. /\ DOMAIN revisions' = Agents /\ revisions'[a] = new
      /\ \A b \in Agents \ {a} : revisions'[b] = revisions[b]
  BY <1>3 DEF TableOK
<1>6. TableOK'
  <2>1. SUFFICES ASSUME NEW b \in Agents
                 PROVE  /\ \E T : revisions'[b] \in Seq(T)
                        /\ \A i \in DOMAIN revisions'[b] : IsRow(revisions'[b][i].row)
    BY <1>5 DEF TableOK, IsRow
  <2>2. CASE b = a
    <3>1. \A i \in DOMAIN old : IsRow(old[i].row)
      BY DEF TableOK, old
    <3>2. \A i \in DOMAIN new : IsRow(new[i].row)
      BY <1>1, <1>4, <3>1
    <3>3. QED
      BY <1>4, <1>5, <2>2, <3>2
  <2>3. CASE b # a
    BY <1>5, <2>3 DEF TableOK
  <2>4. QED
    BY <2>2, <2>3
<1>7. Held \subseteq Held' /\ row.policy \in Held'
  <2>1. \A doc : doc \in Held' <=>
            \E b \in Agents : \E i \in DOMAIN revisions'[b] : doc = revisions'[b][i].row.policy
    BY DEF Held, ToSet
  <2>2. row.policy \in Held'
    BY <1>1, <1>4, <1>5, <2>1
  <2>3. ASSUME NEW b \in Agents, NEW i \in DOMAIN revisions[b]
        PROVE  revisions[b][i].row.policy \in Held'
    <3>1. i \in DOMAIN revisions'[b] /\ revisions'[b][i] = revisions[b][i]
      BY <1>4, <1>5, <2>3 DEF old
    <3>2. QED
      BY <2>1, <3>1
  <2>4. QED
    BY <2>2, <2>3, HeldAt
<1>8. \A b \in Agents : HasRow(b) => HasRow(b)' /\ RowOf(b).version <= RowOf(b)'.version
  <2>1. SUFFICES ASSUME NEW b \in Agents, HasRow(b)
                 PROVE  HasRow(b)' /\ RowOf(b).version <= RowOf(b)'.version
    OBVIOUS
  <2>2. CASE b = a
    <3>1. new # <<>> /\ Last(new) = rev
      BY <1>4 DEF Last
    <3>2. HasRow(b)' /\ RowOf(b)' = row
      BY <1>1, <1>5, <2>2, <3>1 DEF HasRow, RowOf
    <3>3. QED
      BY <2>2, <3>2
  <2>3. CASE b # a
    <3>1. HasRow(b)' /\ RowOf(b)' = RowOf(b)
      BY <1>5, <2>1, <2>3 DEF HasRow, RowOf
    <3>2. RowOf(b).version \in Nat
      BY <2>1, RowIsLast DEF IsRow
    <3>3. QED
      BY <3>1, <3>2
  <2>4. QED
    BY <2>2, <2>3
<1>9. QED
  BY <1>6, <1>7, <1>8 DEF Grows

\* The two actions of the contract that others or the wallet take here.
LEMMA TableWrites ==
    ASSUME TableOK, NEW a \in Agents, NEW version \in Nat, NEW policy, NEW signers,
           NEW heir,
           \/ setpolicy(a, version, policy, TRUE, signers)
           \/ setauthority(a, heir, signers)
    PROVE  /\ TableOK' /\ Grows
           /\ setpolicy(a, version, policy, TRUE, signers) =>
                 policy \in Held' /\ RowOf(a).version < version
<1>1. HasRow(a) /\ IsRow(RowOf(a))
  BY RowIsLast DEF setpolicy, setauthority
<1>2. CASE setpolicy(a, version, policy, TRUE, signers)
  <2> DEFINE row == [RowOf(a) EXCEPT !.version = version, !.policy = policy]
  <2>1. Write(a, row) /\ version > RowOf(a).version
    BY <1>2 DEF setpolicy
  <2>2. IsRow(row) /\ row.version = version /\ row.policy = policy
    BY <1>1 DEF IsRow, RowFields
  <2> HIDE DEF row
  <2>3. RowOf(a).version <= row.version /\ RowOf(a).version < version
    BY <1>1, <2>1, <2>2 DEF IsRow
  <2>4. QED
    BY <1>1, <2>1, <2>2, <2>3, WriteGrows
<1>3. CASE setauthority(a, heir, signers) /\ ~setpolicy(a, version, policy, TRUE, signers)
  <2> DEFINE row == [RowOf(a) EXCEPT !.authority = heir]
  <2>1. Write(a, row)
    BY <1>3 DEF setauthority
  <2>2. IsRow(row) /\ row.version = RowOf(a).version
    BY <1>1 DEF IsRow, RowFields
  <2> HIDE DEF row
  <2>3. RowOf(a).version <= row.version
    BY <1>1, <2>2 DEF IsRow
  <2>4. QED
    BY <1>1, <1>3, <2>1, <2>2, <2>3, WriteGrows
<1>4. QED
  BY <1>2, <1>3

-----------------------------------------------------------------------------
(* The editor and its dialog. *)

\* Nothing unsaved means the canvas compiles to what a row holds or held.
CanvasOK ==
    page # "agents" => /\ NotLost(baseline)
                       /\ ~dirty => NotLost(compilePolicy(graph))

\* The dialog shows what the rows were, and so does what it sends.
DialogOK ==
    /\ DOMAIN modal = {"phase", "policy", "rows", "agent"}
    /\ DOMAIN modal.rows \subseteq Agents
    /\ \A a \in DOMAIN modal.rows :
          HasRow(a) /\ modal.rows[a] \in Nat /\ modal.rows[a] <= RowOf(a).version

PushOK ==
    /\ DOMAIN push = {"agent", "version", "policy", "seen", "here", "landed"}
    /\ push # NoPush =>
          /\ push.agent \in Agents /\ HasRow(push.agent)
          /\ push.version \in Nat /\ push.version <= RowOf(push.agent).version + 1
    /\ push.landed => push.policy \in Held

EditingInv == TableOK /\ CanvasOK /\ DialogOK /\ PushOK

LEMMA NoPushIs ==
    /\ DOMAIN NoPush = {"agent", "version", "policy", "seen", "here", "landed"}
    /\ ~NoPush.landed
BY DEF NoPush

LEMMA ClosedIs ==
    DOMAIN Closed = {"phase", "policy", "rows", "agent"} /\ DOMAIN Closed.rows = {}
BY DEF Closed

\* A table that is still, or grows, has all it had.
LEMMA TableGoesOn ==
    ASSUME TableOK, TableOK', Grows \/ UNCHANGED revisions
    PROVE  /\ Held \subseteq Held'
           /\ \A b \in Agents : HasRow(b) => /\ HasRow(b)' /\ RowOf(b).version <= RowOf(b)'.version
                                             /\ RowOf(b).version \in Nat /\ RowOf(b)'.version \in Nat
<1>1. \A b \in Agents : HasRow(b) => RowOf(b).version \in Nat
  BY RowIsLast DEF IsRow
<1>2. \A b \in Agents : HasRow(b)' => RowOf(b)'.version \in Nat
  <2>1. SUFFICES ASSUME NEW b \in Agents, HasRow(b)' PROVE RowOf(b)'.version \in Nat
    OBVIOUS
  <2>2. Len(revisions'[b]) \in DOMAIN revisions'[b]
        /\ RowOf(b)' = revisions'[b][Len(revisions'[b])].row
    BY <2>1 DEF TableOK, HasRow, RowOf, Last
  <2>3. QED
    BY <2>2 DEF TableOK, IsRow
<1>3. CASE UNCHANGED revisions
  BY <1>1, <1>3 DEF Held, HasRow, RowOf
<1>4. CASE Grows
  BY <1>1, <1>2, <1>4 DEF Grows
<1>5. QED
  BY <1>3, <1>4

\* While the table is still, or grows, what rests on it stays true.
LEMMA RestsOnTable ==
    ASSUME TableOK, TableOK', Grows \/ UNCHANGED revisions
    PROVE  /\ UNCHANGED editor /\ CanvasOK => CanvasOK'
           /\ UNCHANGED modal /\ DialogOK => DialogOK'
           /\ UNCHANGED push /\ PushOK => PushOK'
<1>1. /\ Held \subseteq Held'
      /\ \A b \in Agents : HasRow(b) => /\ HasRow(b)' /\ RowOf(b).version <= RowOf(b)'.version
                                        /\ RowOf(b).version \in Nat /\ RowOf(b)'.version \in Nat
  BY TableGoesOn
<1>2. UNCHANGED editor /\ CanvasOK => CanvasOK'
  <2>1. SUFFICES ASSUME UNCHANGED editor, CanvasOK PROVE CanvasOK'
    OBVIOUS
  <2>2. \A policy : NotLost(policy) => NotLost(policy)'
    BY <1>1 DEF NotLost
  <2>3. QED
    BY <2>1, <2>2 DEF editor, CanvasOK, NotLost
<1>3. UNCHANGED modal /\ DialogOK => DialogOK'
  <2>1. SUFFICES ASSUME UNCHANGED modal, DialogOK PROVE DialogOK'
    OBVIOUS
  <2>2. \A a \in DOMAIN modal.rows : HasRow(a)' /\ modal.rows[a] <= RowOf(a)'.version
    BY <1>1, <2>1 DEF DialogOK
  <2>3. QED
    BY <2>1, <2>2 DEF DialogOK
<1>4. UNCHANGED push /\ PushOK => PushOK'
  <2>1. SUFFICES ASSUME UNCHANGED push, PushOK PROVE PushOK'
    OBVIOUS
  <2>2. push # NoPush => HasRow(push.agent)' /\ push.version <= RowOf(push.agent)'.version + 1
    BY <1>1, <2>1 DEF PushOK
  <2>3. NoPush' = NoPush
    BY DEF NoPush
  <2>4. QED
    BY <1>1, <2>1, <2>2, <2>3 DEF PushOK
<1>5. QED
  BY <1>2, <1>3, <1>4

LEMMA EditingInit == Init => EditingInv
<1>1. SUFFICES ASSUME Init PROVE EditingInv
  OBVIOUS
<1>2. PICK docs \in Initially, agentperm \in Permissions :
          revisions = [a \in Agents |-> <<[at |-> 0,
              row |-> [authority |-> Author, agentperm |-> agentperm, version |-> 1,
                       policy |-> docs[a], enabled |-> TRUE]]>>]
  BY <1>1 DEF Init
<1>3. TableOK
  <2> DEFINE rev(a) == [at |-> 0,
              row |-> [authority |-> Author, agentperm |-> agentperm, version |-> 1,
                       policy |-> docs[a], enabled |-> TRUE]]
  <2>1. \A a \in Agents : IsRow(rev(a).row)
    BY DEF IsRow, RowFields
  <2> HIDE DEF rev
  <2>2. DOMAIN revisions = Agents /\ \A a \in Agents : revisions[a] = <<rev(a)>>
    BY <1>2 DEF rev
  <2>3. \A a \in Agents : <<rev(a)>> \in Seq({rev(a)}) /\ DOMAIN <<rev(a)>> = {1} /\ <<rev(a)>>[1] = rev(a)
    OBVIOUS
  <2>4. QED
    BY <2>1, <2>2, <2>3 DEF TableOK
<1>4. page = "agents" /\ modal = Closed /\ push = NoPush
  BY <1>1 DEF Init
<1>5. QED
  BY <1>3, <1>4, NoPushIs, ClosedIs DEF EditingInv, CanvasOK, DialogOK, PushOK

\* What the editor does to the canvas, and to nothing else the table knows of.
LEMMA CanvasSteps ==
    ASSUME EditingInv, UNCHANGED <<revisions, modal, push>>, CanvasOK'
    PROVE  EditingInv'
<1>1. TableOK'
  BY DEF EditingInv, TableOK, IsRow
<1>2. QED
  BY <1>1, RestsOnTable DEF EditingInv

LEMMA UnmountKeeps ==
    ASSUME EditingInv, Unmount
    PROVE  EditingInv'
<1>1. TableOK /\ TableOK' /\ PushOK /\ UNCHANGED revisions
  BY DEF EditingInv, TableOK, IsRow, Unmount
<1>2. CanvasOK'
  BY DEF Unmount, CanvasOK
<1>3. DialogOK'
  BY ClosedIs DEF Unmount, DialogOK
<1>4. PushOK'
  <2>1. CASE push' = push
    BY <1>1, <2>1, RestsOnTable
  <2>2. CASE push # NoPush /\ push' = [push EXCEPT !.seen = FALSE, !.here = FALSE]
    BY <1>1, <2>2, NoPushIs DEF PushOK, HasRow, RowOf, Held
  <2>3. QED
    BY <2>1, <2>2 DEF Unmount
<1>5. QED
  BY <1>1, <1>2, <1>3, <1>4 DEF EditingInv

LEMMA EditingStep == EditingInv /\ [Next]_vars => EditingInv'
<1>1. SUFFICES ASSUME EditingInv, [Next]_vars PROVE EditingInv'
  OBVIOUS
<1>2. TableOK /\ CanvasOK /\ DialogOK /\ PushOK
  BY <1>1 DEF EditingInv
<1>3. UNCHANGED revisions => TableOK'
  BY <1>2 DEF TableOK, IsRow
<1>4. NotLost(compilePolicy(graph)) /\ NotLost(baseline) /\ UNCHANGED <<revisions, graph, baseline>>
          => CanvasOK'
  BY DEF CanvasOK, NotLost, Held
<1>5. \A policy : UNCHANGED revisions /\ NotLost(policy) =>
          \E doc \in Held' : policy \in {doc, compilePolicy(decompilePolicy(doc))}
  BY DEF NotLost, Held
<1>6. ASSUME NEW a \in Agents, Open(a) PROVE EditingInv'
  <2>1. NotLost(compilePolicy(decompilePolicy(PolicyOf(a))))
    BY <1>2, <1>6, RowIsLast DEF Open, NotLost, PolicyOf
  <2>2. UNCHANGED <<revisions, modal, push>>
    BY <1>6 DEF Open
  <2>3. baseline' = compilePolicy(decompilePolicy(PolicyOf(a)))
        /\ graph' = decompilePolicy(PolicyOf(a))
    BY <1>6, Zenon DEF Open
  <2>4. CanvasOK'
    BY <1>5, <2>1, <2>2, <2>3 DEF CanvasOK, NotLost
  <2>5. QED
    BY <1>1, <2>2, <2>4, CanvasSteps
<1>7. CASE EditGraph \/ Cancel
  <2>1. UNCHANGED <<revisions, modal, push, baseline>> /\ page # "agents"
    BY <1>7 DEF EditGraph, Cancel
  <2>2. dirty' = (compilePolicy(graph') # baseline)
    BY <1>7 DEF EditGraph, Cancel, Unsaved
  <2>3. NotLost(baseline)
    BY <1>2, <2>1 DEF CanvasOK
  <2>4. CanvasOK'
    BY <1>5, <2>1, <2>2, <2>3 DEF CanvasOK, NotLost
  <2>5. QED
    BY <1>1, <2>1, <2>4, CanvasSteps
<1>8. CASE Leave \/ Quit \/ BrowserBack
  <2>1. CASE Unmount
    BY <1>1, <2>1, UnmountKeeps
  <2>2. CASE Leave /\ ~Unmount
    <3>1. /\ UNCHANGED <<revisions, modal, push, baseline, graph, dirty>> /\ page # "agents"
      BY <2>2 DEF Leave
    <3>2. CanvasOK'
      BY <1>2, <1>5, <3>1 DEF CanvasOK, NotLost
    <3>3. QED
      BY <1>1, <3>1, <3>2, CanvasSteps
  <2>3. QED
    BY <1>8, <2>1, <2>2 DEF Quit, BrowserBack
<1>9. CASE Commit
  <2>1. /\ UNCHANGED <<revisions, push, baseline, graph, page>> /\ page # "agents"
        /\ dirty' = (compilePolicy(graph) # baseline)
        /\ DOMAIN modal' = {"phase", "policy", "rows", "agent"} /\ DOMAIN modal'.rows = {}
    BY <1>9, ClosedIs DEF Commit, Unsaved
  <2>2. CanvasOK'
    BY <1>2, <1>5, <2>1 DEF CanvasOK, NotLost
  <2>3. DialogOK'
    BY <2>1 DEF DialogOK
  <2>4. QED
    BY <1>2, <1>3, <2>1, <2>2, <2>3, RestsOnTable DEF EditingInv
<1>10. CASE ReadRows \/ \E a \in Agents : Select(a)
  <2>1. UNCHANGED <<editor, push, revisions>>
    BY <1>10 DEF ReadRows, Select
  <2>2. /\ DOMAIN modal' = {"phase", "policy", "rows", "agent"}
        /\ modal'.rows = modal.rows \/ modal'.rows = [a \in Mine |-> RowOf(a).version]
    BY <1>2, <1>10 DEF ReadRows, Select, DialogOK
  <2>3. \A a \in Mine : a \in Agents /\ HasRow(a) /\ RowOf(a).version \in Nat
    BY <1>2, RowIsLast DEF Mine, IsRow
  <2>4. DialogOK'
    <3>1. DOMAIN modal'.rows \subseteq Agents
      BY <1>2, <2>2, <2>3 DEF DialogOK
    <3>2. \A a \in DOMAIN modal'.rows :
              HasRow(a) /\ modal'.rows[a] \in Nat /\ modal'.rows[a] <= RowOf(a).version
      BY <1>2, <2>2, <2>3 DEF DialogOK
    <3>3. QED
      BY <2>1, <2>2, <3>1, <3>2 DEF DialogOK, HasRow, RowOf
  <2>5. QED
    BY <1>2, <1>3, <2>1, <2>4, RestsOnTable DEF EditingInv
<1>11. CASE Push
  <2>1. UNCHANGED <<editor, revisions>> /\ push' = Sent /\ modal.agent \in DOMAIN modal.rows
        /\ modal' = [modal EXCEPT !.phase = "signing"]
    BY <1>11 DEF Push
  <2>2. DialogOK'
    BY <1>2, <2>1 DEF DialogOK, HasRow, RowOf
  <2>3. PushOK'
    <3>1. /\ modal.agent \in Agents /\ HasRow(modal.agent)
          /\ modal.rows[modal.agent] \in Nat /\ modal.rows[modal.agent] <= RowOf(modal.agent).version
          /\ RowOf(modal.agent).version \in Nat
      BY <1>2, <2>1, RowIsLast DEF DialogOK, IsRow
    <3>2. /\ push'.agent = modal.agent /\ push'.version = modal.rows[modal.agent] + 1
          /\ ~push'.landed
          /\ DOMAIN push' = {"agent", "version", "policy", "seen", "here", "landed"}
      BY <2>1 DEF Sent
    <3>3. \A a \in Agents : HasRow(a) => HasRow(a)' /\ RowOf(a)' = RowOf(a)
      BY <2>1 DEF HasRow, RowOf
    <3>4. PICK a \in Agents : a = modal.agent
      BY <3>1
    <3>5. push'.agent = a /\ HasRow(a)' /\ push'.version \in Nat
          /\ push'.version <= RowOf(a)'.version + 1
      BY <3>1, <3>2, <3>3, <3>4
    <3>6. HasRow(push.agent)' /\ push'.version <= (RowOf(push.agent).version)' + 1
      BY <3>5 DEF HasRow, RowOf
    <3>7. QED
      BY <3>2, <3>5, <3>6 DEF PushOK
  <2>4. QED
    BY <1>2, <1>3, <2>1, <2>2, <2>3, RestsOnTable DEF EditingInv
<1>12. CASE Land
  <2>1. /\ UNCHANGED <<editor, modal>> /\ push # NoPush
        /\ setpolicy(push.agent, push.version, push.policy, TRUE, {Author})
        /\ push' = [push EXCEPT !.landed = TRUE]
        /\ push.agent \in Agents /\ push.version \in Nat
    BY <1>2, <1>12 DEF Land, PushOK
  <2>2. TableOK' /\ Grows /\ push.policy \in Held'
    BY <1>2, <2>1, TableWrites
  <2>3. PushOK'
    <3>1. PICK a \in Agents : a = push.agent
      BY <2>1
    <3>2. /\ HasRow(a)' /\ push.version <= RowOf(a)'.version + 1
      BY <1>2, <2>1, <2>2, <3>1, TableGoesOn DEF PushOK
    <3>3. /\ push'.agent = a /\ push'.version = push.version /\ push'.policy = push.policy
          /\ DOMAIN push' = {"agent", "version", "policy", "seen", "here", "landed"}
      BY <1>2, <2>1, <3>1 DEF PushOK
    <3>4. HasRow(push.agent)' /\ push'.version <= (RowOf(push.agent).version)' + 1
      BY <3>2, <3>3 DEF HasRow, RowOf
    <3>5. QED
      BY <2>1, <2>2, <3>3, <3>4 DEF PushOK
  <2>4. QED
    BY <1>2, <2>1, <2>2, <2>3, RestsOnTable DEF EditingInv
<1>13. CASE Answer \/ Fail \/ Close
  <2>1. /\ UNCHANGED <<revisions, graph, page>>
        /\ \/ UNCHANGED <<baseline, dirty>>
           \/ dirty' = dirty /\ baseline' = push.policy /\ push.landed
           \/ dirty' = (compilePolicy(graph) # baseline) /\ baseline' = baseline
    BY <1>13 DEF Answer, Fail, Close, editor, Unsaved
  <2>2. push.landed => NotLost(push.policy)
    BY <1>2 DEF PushOK, NotLost
  <2>3. CanvasOK'
    BY <1>2, <1>5, <2>1, <2>2 DEF CanvasOK, NotLost
  <2>4. /\ DOMAIN modal' = {"phase", "policy", "rows", "agent"}
        /\ modal'.rows = modal.rows \/ DOMAIN modal'.rows = {}
    BY <1>2, <1>13, ClosedIs DEF Answer, Fail, Close, DialogOK
  <2>5. DialogOK'
    BY <1>2, <2>1, <2>4 DEF DialogOK, HasRow, RowOf
  <2>6. PushOK'
    <3>1. CASE push' = NoPush
      BY <3>1, NoPushIs DEF PushOK, NoPush
    <3>2. CASE push' = push
      BY <1>2, <1>3, <2>1, <3>2, RestsOnTable
    <3>3. CASE push # NoPush /\ push' = [push EXCEPT !.seen = FALSE]
      BY <1>2, <2>1, <3>3 DEF PushOK, HasRow, RowOf, Held
    <3>4. QED
      BY <1>13, <3>1, <3>2, <3>3 DEF Answer, Fail, Close
  <2>7. QED
    BY <1>2, <1>3, <2>1, <2>3, <2>5, <2>6 DEF EditingInv
<1>14. ASSUME NEW a \in Touched, Elsewhere(a) PROVE EditingInv'
  <2>1. a \in Agents /\ UNCHANGED <<editor, modal, push>>
    BY <1>14, EditingAssumption DEF Elsewhere
  <2>2. TableOK' /\ Grows
    <3>1. CASE setauthority(a, Heir, {Author, Heir})
      BY <1>2, <2>1, <3>1, TableWrites
    <3>2. CASE \E doc \in Written : setpolicy(a, RowOf(a).version + 1, doc, TRUE, {Author})
      <4>1. PICK doc \in Written : setpolicy(a, RowOf(a).version + 1, doc, TRUE, {Author})
        BY <3>2
      <4>2. RowOf(a).version + 1 \in Nat
        BY <1>2, <2>1, <4>1, RowIsLast DEF setpolicy, IsRow
      <4>3. QED
        BY <1>2, <2>1, <4>1, <4>2, TableWrites
    <3>3. QED
      BY <1>14, <3>1, <3>2 DEF Elsewhere
  <2>3. QED
    BY <1>2, <2>1, <2>2, RestsOnTable DEF EditingInv
<1>15. CASE UNCHANGED vars
  BY <1>2, <1>3, <1>15, RestsOnTable DEF vars, EditingInv, editor
<1>16. QED
  BY <1>1, <1>6, <1>7, <1>8, <1>9, <1>10, <1>11, <1>12, <1>13, <1>14, <1>15 DEF Next

\* A push replaces the row its dialog showed, and no later one (PushModal.tsx;
\* signbox.contract.ts, setpolicy): versions only grow, so a row that still
\* takes the next version after the one shown is the one shown.
THEOREM NothingIsOverwritten == Spec => PushReplacesWhatWasRead
<1>1. EditingInv /\ [Next]_vars =>
          [(~push.landed /\ push'.landed) => RowOf(push.agent).version = push.version - 1]_vars
  <2>1. SUFFICES ASSUME EditingInv, Next, ~push.landed, push'.landed
                 PROVE  RowOf(push.agent).version = push.version - 1
    OBVIOUS
  <2>2. TableOK /\ PushOK
    BY <2>1 DEF EditingInv
  <2>3. Land
    <3>1. ~NoPush.landed /\ ~Sent.landed
      BY DEF NoPush, Sent
    <3>2. [push EXCEPT !.seen = FALSE].landed = push.landed
          /\ [push EXCEPT !.seen = FALSE, !.here = FALSE].landed = push.landed
      BY <2>2 DEF PushOK
    <3>3. QED
      BY <2>1, <3>1, <3>2 DEF Next, EditGraph, Leave, Quit, Cancel, BrowserBack, Unmount, Commit,
         ReadRows, Push, Answer, Fail, Close, Open, Select, Elsewhere
  <2>4. PICK a \in Agents : a = push.agent
    BY <2>2, <2>3 DEF Land, PushOK
  <2>5. /\ setpolicy(a, push.version, push.policy, TRUE, {Author}) /\ push.version \in Nat
        /\ HasRow(a) /\ push.version <= RowOf(a).version + 1
    BY <2>2, <2>3, <2>4 DEF Land, PushOK
  <2>6. RowOf(a).version < push.version /\ RowOf(a).version \in Nat
    BY <2>2, <2>5, TableWrites, RowIsLast DEF IsRow
  <2>7. QED
    BY <2>4, <2>5, <2>6
<1>2. QED
  BY <1>1, EditingInit, EditingStep, PTL DEF Spec, PushReplacesWhatWasRead

\* Whoever leaves by the editor's own buttons and is not asked loses nothing
\* (EditorView.tsx, the guard), whatever was edited, pushed or written by
\* other devices, and whatever the compiler does.
THEOREM QuietLeavesLoseNothing == Spec => QuietLeaveLosesNothing
<1>1. EditingInv /\ [Next]_vars =>
          [(Leave /\ page' = "agents") =>
              \E doc \in Held : compilePolicy(graph) \in {doc, compilePolicy(decompilePolicy(doc))}]_vars
  BY DEF EditingInv, CanvasOK, NotLost, Leave
<1>2. QED
  BY <1>1, EditingInit, EditingStep, PTL DEF Spec, QuietLeaveLosesNothing
=============================================================================
