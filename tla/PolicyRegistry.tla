--------------------------- MODULE PolicyRegistry ---------------------------
(***************************************************************************)
(* The on-chain contract that holds the policy of each agent               *)
(* (contract/assembly/signbox.contract.ts).  A contract action is one      *)
(* transaction: it runs alone, and a failed check undoes it.  `revisions`  *)
(* keeps every row the table ever held, with the instant it was written,   *)
(* so that what others read of the table can be compared with it.          *)
(***************************************************************************)
EXTENDS Naturals, Sequences, SequencesExt

CONSTANTS
    Accounts,           \* the names that can sign
    Existing,           \* those that are accounts of the chain
    Agents, Permissions,
    Policies,           \* policy documents, well-formed or not
    MaxVersion,         \* bounds
    MaxRevisions

ASSUME RegistryAssumption ==
    /\ Agents \subseteq Accounts /\ Existing \subseteq Accounts
    /\ MaxVersion \in Nat /\ MaxRevisions \in Nat

PolicyRow == [authority : Accounts, agentperm : Permissions, version : Nat,
              policy : Policies, enabled : BOOLEAN]

VARIABLES
    revisions,  \* [agent -> sequence of [row, at]]; the last is in the table
    clock

HasRow(a) == revisions[a] # <<>>
RowOf(a) == Last(revisions[a]).row

\* Rows are stored and updated, there is no action that deletes one.
Write(a, row) ==
    /\ Len(revisions[a]) < MaxRevisions
    /\ revisions' = [revisions EXCEPT ![a] = Append(@, [row |-> row, at |-> clock])]

\* hashOk: the hash given is the SHA-256 of the document, which is all the
\* contract checks of a document.
createpolicy(agent, authority, agentperm, version, policy, hashOk, signers) ==
    /\ agent \in Existing
    /\ {authority, agent} \subseteq signers
    /\ authority \in Existing
    /\ ~HasRow(agent)
    /\ version = 1
    /\ hashOk
    /\ Write(agent, [authority |-> authority, agentperm |-> agentperm, version |-> version,
                     policy |-> policy, enabled |-> TRUE])

\* (mutant) a version can be published twice
setpolicyAgain(agent, version, policy, hashOk, signers) ==
    /\ HasRow(agent)
    /\ RowOf(agent).authority \in signers
    /\ version >= RowOf(agent).version
    /\ hashOk
    /\ Write(agent, [RowOf(agent) EXCEPT !.version = version, !.policy = policy])

setpolicy(agent, version, policy, hashOk, signers) ==
    /\ HasRow(agent)
    /\ RowOf(agent).authority \in signers
    /\ version > RowOf(agent).version
    /\ hashOk
    /\ Write(agent, [RowOf(agent) EXCEPT !.version = version, !.policy = policy])

disable(agent, signers) ==
    /\ HasRow(agent)
    /\ RowOf(agent).authority \in signers
    /\ Write(agent, [RowOf(agent) EXCEPT !.enabled = FALSE])

enable(agent, signers) ==
    /\ HasRow(agent)
    /\ RowOf(agent).authority \in signers
    /\ Write(agent, [RowOf(agent) EXCEPT !.enabled = TRUE])

setperm(agent, agentperm, signers) ==
    /\ HasRow(agent)
    /\ RowOf(agent).authority \in signers
    /\ Write(agent, [RowOf(agent) EXCEPT !.agentperm = agentperm])

setauthority(agent, newauthority, signers) ==
    /\ HasRow(agent)
    /\ {RowOf(agent).authority, newauthority} \subseteq signers
    /\ newauthority \in Existing
    /\ newauthority # RowOf(agent).authority
    /\ Write(agent, [RowOf(agent) EXCEPT !.authority = newauthority])

RegistryInit == revisions = [a \in Agents |-> <<>>]

RegistryNext ==
    \E agent \in Agents, signers \in SUBSET Accounts :
        \/ \E version \in 1 .. MaxVersion, policy \in Policies, hashOk \in BOOLEAN :
              \/ \E authority \in Accounts, agentperm \in Permissions :
                    createpolicy(agent, authority, agentperm, version, policy, hashOk, signers)
              \/ setpolicy(agent, version, policy, hashOk, signers)
        \/ disable(agent, signers)
        \/ enable(agent, signers)
        \/ \E agentperm \in Permissions : setperm(agent, agentperm, signers)
        \/ \E newauthority \in Accounts : setauthority(agent, newauthority, signers)

-----------------------------------------------------------------------------
\* What the daemon's anti-rollback rests on: versions of an agent never go
\* down, and two rows of one version carry the same document.
VersionNamesPolicy ==
    \A a \in Agents : \A i, j \in DOMAIN revisions[a] :
        LET earlier == revisions[a][i].row
            later == revisions[a][j].row
        IN i < j => /\ earlier.version <= later.version
                    /\ earlier.version = later.version => earlier.policy = later.policy
=============================================================================
