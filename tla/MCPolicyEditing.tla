-------------------------- MODULE MCPolicyEditing --------------------------
(***************************************************************************)
(* Two rows of one author, and another device that writes to the first.    *)
(***************************************************************************)
EXTENDS PolicyEditing, MCPolicyAuthoring

CONSTANTS
    First, Second,      \* the names of the documents the rows hold,
    Other               \* and of the one the other device writes

MCInitially == {("agent" :> TheDocuments[First]) @@ ("other" :> TheDocuments[Second])}
MCFewSettings == <<[type |-> "decision", key |-> "effect", value |-> "deny"]>>
MCWritten == {TheDocuments[Other]}
=============================================================================
