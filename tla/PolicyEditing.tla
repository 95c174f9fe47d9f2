--------------------------- MODULE PolicyEditing ---------------------------
(***************************************************************************)
(* The editor of the companion site at work (web/src/views/EditorView.tsx, *)
(* editor/PushModal.tsx, web/src/chain/rpc.ts): a row of the policy table  *)
(* is opened, its graph edited, the graph compiled and pushed with the     *)
(* wallet of the author, while other devices of the author write the same  *)
(* table.                                                                  *)
(*                                                                         *)
(* A push is sent, lands on the chain and is answered in three steps; the  *)
(* commit dialog may be closed, and the editor left, between any of them.  *)
(***************************************************************************)
EXTENDS PolicyAuthoring, PolicyRegistry

CONSTANTS
    Author,             \* the account whose wallet is connected
    Heir,               \* one it may hand a row over to
    Initially,          \* what the rows hold at first: [agent -> document]
    Written, Touched,   \* what other devices write, and (bound) in which rows
    MaxWrites           \* bound: writes to the table

ASSUME EditingAssumption == Touched \subseteq Agents

VARIABLES
    page,               \* "agents", "editor", or "confirm": leave without pushing?
    loaded,             \* the row opened: [agent, version]
    baseline,           \* the policy compiled when nothing was unsaved
    dirty,              \* whether the last render differed from it
    modal,              \* the commit dialog: [phase, policy, rows, agent]
    push                \* the setpolicy on its way: [agent, version, policy, seen, here, landed]

editor == <<graph, page, loaded, baseline, dirty, edits>>
vars == <<editor, modal, push, revisions, clock>>

Closed == [phase |-> "none", policy |-> None, rows |-> <<>>, agent |-> None]
NoPush == [agent |-> None, version |-> 0, policy |-> None, seen |-> FALSE, here |-> FALSE,
           landed |-> FALSE]

PolicyOf(a) == RowOf(a).policy
Mine == {a \in Agents : HasRow(a) /\ RowOf(a).authority = Author}

Spent == FoldSet(LAMBDA a, n : n + Len(revisions[a]) - 1, 0, Agents)

Init ==
    /\ \E docs \in Initially, agentperm \in Permissions :
          revisions = [a \in Agents |-> <<[at |-> 0,
              row |-> [authority |-> Author, agentperm |-> agentperm, version |-> 1,
                       policy |-> docs[a], enabled |-> TRUE]]>>]
    /\ clock = 0
    /\ graph = Empty /\ page = "agents" /\ loaded = [agent |-> None, version |-> 0]
    /\ baseline = None /\ dirty = FALSE /\ edits = 0
    /\ modal = Closed /\ push = NoPush

-----------------------------------------------------------------------------
(* The editor. *)

Unsaved(g) == compilePolicy(g) # baseline

\* What is rendered first is the baseline.
Open(a) ==
    /\ page = "agents" /\ HasRow(a)
    /\ LET g == decompilePolicy(PolicyOf(a))
       IN graph' = g /\ baseline' = compilePolicy(g)
    /\ page' = "editor" /\ loaded' = [agent |-> a, version |-> RowOf(a).version]
    /\ dirty' = FALSE
    /\ UNCHANGED <<edits, modal, push, revisions, clock>>

EditGraph ==
    /\ page = "editor" /\ modal = Closed
    /\ AuthoringNext
    /\ dirty' = Unsaved(graph')
    /\ UNCHANGED <<page, loaded, baseline, modal, push, revisions, clock>>

\* The editor is gone with all it held; its promises are not.
Unmount ==
    /\ page' = "agents" /\ graph' = Empty
    /\ loaded' = [agent |-> None, version |-> 0] /\ baseline' = None /\ dirty' = FALSE
    /\ modal' = Closed
    /\ push' = IF push = NoPush THEN push ELSE [push EXCEPT !.seen = FALSE, !.here = FALSE]
    /\ UNCHANGED <<edits, revisions, clock>>

\* Back, another agent, or disconnecting the wallet: all go through the guard.
Leave ==
    /\ page = "editor" /\ modal = Closed
    /\ \/ ~dirty /\ Unmount
       \/ /\ dirty /\ page' = "confirm"
          /\ UNCHANGED <<graph, loaded, baseline, dirty, edits, modal, push, revisions, clock>>

Quit == page = "confirm" /\ Unmount

Cancel ==
    /\ page = "confirm" /\ page' = "editor" /\ dirty' = Unsaved(graph)
    /\ UNCHANGED <<graph, loaded, baseline, edits, modal, push, revisions, clock>>

\* The back button of the browser asks nothing.
BrowserBack == page # "agents" /\ Unmount

-----------------------------------------------------------------------------
(* The commit dialog. *)

Commit ==
    /\ page = "editor" /\ modal = Closed /\ Decisions(graph) # {}
    /\ modal' = [Closed EXCEPT !.phase = "reading", !.policy = compilePolicy(graph),
                               !.agent = loaded.agent]
    /\ dirty' = Unsaved(graph)
    /\ UNCHANGED <<graph, page, loaded, baseline, edits, push, revisions, clock>>

\* The rows are read once, and those of the author listed; one the dialog
\* does not find gives way to the first of the list.
ReadRows ==
    /\ modal.phase = "reading"
    /\ modal' = [modal EXCEPT
          !.phase = "ready",
          !.rows = [a \in Mine |-> RowOf(a).version],
          !.agent = IF @ \in Mine \/ Mine = {} THEN @ ELSE CHOOSE a \in Mine : TRUE]
    /\ UNCHANGED <<editor, push, revisions, clock>>

Select(a) ==
    /\ modal.phase \in {"ready", "error"} /\ a \in DOMAIN modal.rows
    /\ modal' = [modal EXCEPT !.agent = a]
    /\ UNCHANGED <<editor, push, revisions, clock>>

Sent == [agent |-> modal.agent, version |-> modal.rows[modal.agent] + 1, policy |-> modal.policy,
         seen |-> TRUE, here |-> TRUE, landed |-> FALSE]

\* (mutant) what is pushed counts as saved at once
PushMarksSaved ==
    /\ modal.phase \in {"ready", "error"} /\ modal.agent \in DOMAIN modal.rows
    /\ push = NoPush
    /\ push' = Sent /\ modal' = [modal EXCEPT !.phase = "signing"]
    /\ baseline' = modal.policy
    /\ UNCHANGED <<graph, page, loaded, dirty, edits, revisions, clock>>

\* One push at a time (bound).  After an error the same row is used again.
Push ==
    /\ modal.phase \in {"ready", "error"} /\ modal.agent \in DOMAIN modal.rows
    /\ push = NoPush
    /\ push' = Sent /\ modal' = [modal EXCEPT !.phase = "signing"]
    /\ UNCHANGED <<editor, revisions, clock>>

Land ==
    /\ push # NoPush /\ ~push.landed /\ Spent < MaxWrites
    /\ setpolicy(push.agent, push.version, push.policy, TRUE, {Author})
    /\ push' = [push EXCEPT !.landed = TRUE]
    /\ UNCHANGED <<editor, modal, clock>>

\* The new baseline waits for the next render to show.
Answer ==
    /\ push.landed
    /\ push' = NoPush
    /\ baseline' = IF push.here THEN push.policy ELSE baseline
    /\ modal' = IF push.seen THEN [modal EXCEPT !.phase = "done"] ELSE modal
    /\ UNCHANGED <<graph, page, loaded, dirty, edits, revisions, clock>>

\* Declined, refused by the contract, or landed with its answer lost.
Fail ==
    /\ push # NoPush
    /\ push' = NoPush
    /\ modal' = IF push.seen THEN [modal EXCEPT !.phase = "error"] ELSE modal
    /\ UNCHANGED <<editor, revisions, clock>>

Close ==
    /\ modal # Closed
    /\ modal' = Closed /\ dirty' = Unsaved(graph)
    /\ push' = IF push = NoPush THEN push ELSE [push EXCEPT !.seen = FALSE]
    /\ UNCHANGED <<graph, page, loaded, baseline, edits, revisions, clock>>

\* Another device of the author, which may also hand the row over.
Elsewhere(a) ==
    /\ Spent < MaxWrites
    /\ \/ \E doc \in Written : setpolicy(a, RowOf(a).version + 1, doc, TRUE, {Author})
       \/ setauthority(a, Heir, {Author, Heir})
    /\ UNCHANGED <<editor, modal, push, clock>>

Next ==
    \/ EditGraph \/ Leave \/ Quit \/ Cancel \/ BrowserBack
    \/ Commit \/ ReadRows \/ Push \/ Land \/ Answer \/ Fail \/ Close
    \/ \E a \in Agents : Open(a) \/ Select(a)
    \/ \E a \in Touched : Elsewhere(a)

Spec == Init /\ [][Next]_vars

-----------------------------------------------------------------------------
\* A push replaces the row its dialog showed, and no later one: a policy
\* another device wrote meanwhile is never overwritten (PushModal's version
\* against setpolicy's check).
PushReplacesWhatWasRead ==
    [][(~push.landed /\ push'.landed) => RowOf(push.agent).version = push.version - 1]_vars

Held == UNION {{rev.row.policy : rev \in ToSet(revisions[a])} : a \in Agents}

\* Whoever leaves by the editor's own buttons and is not asked loses nothing:
\* the policy on the canvas is one that a row holds or held, or what such a
\* row compiles to when it is opened (the guard of EditorView).
QuietLeaveLosesNothing ==
    [][(Leave /\ page' = "agents") =>
        \E doc \in Held : compilePolicy(graph) \in {doc, compilePolicy(decompilePolicy(doc))}]_vars
=============================================================================
