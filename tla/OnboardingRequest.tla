------------------------- MODULE OnboardingRequest -------------------------
(***************************************************************************)
(* The request that creates an agent: how the CLI builds it                *)
(* (src/chains/xpr/onboardingActions.ts and onboarding.ts), what the       *)
(* companion page demands of a request that reaches it in a URL            *)
(* (src/onboarding/validate.ts, web/src/views/OnboardingView.tsx), and     *)
(* what the CLI demands of the chain afterwards (verifyLanded).            *)
(*                                                                         *)
(* A request says what its actions are, and what they would put on the     *)
(* chain.  An authority structure is its first key, and whether it is that *)
(* key alone: threshold 1, no second key, no accounts, no waits.           *)
(***************************************************************************)
EXTENDS Sequences

CONSTANT BuysRam    \* whether ramBytes is positive

ASSUME BuysRam \in BOOLEAN

Alone(key) == [key |-> key, alone |-> TRUE]
Shared(key) == [key |-> key, alone |-> FALSE]

Actions(ram) == IF ram THEN <<"newaccount", "buyrambytes", "createpolicy">>
                       ELSE <<"newaccount", "createpolicy">>

\* "ours" is the compiled network or contract, "foreign" any other.
Built(agentKey, authorityKey, permission) ==
    [chain |-> "ours", contract |-> "ours", actions |-> Actions(BuysRam),
     signers |-> "template", creator |-> "authority",
     active |-> Alone(agentKey), owner |-> Alone(authorityKey),
     permission |-> permission, policy |-> "empty"]

\* What may become of a request on its way, in a wallet or in a link: one of
\* its fields differs, or somebody else creates the account for himself.
Changed(r) ==
    {[r EXCEPT !.chain = "foreign"], [r EXCEPT !.contract = "foreign"],
     [r EXCEPT !.actions = <<"newaccount">>],
     [r EXCEPT !.actions = <<"newaccount", "transfer", "createpolicy">>],
     [r EXCEPT !.signers = "other"],
     [r EXCEPT !.active = Alone("foreign")], [r EXCEPT !.active = Shared(r.active.key)],
     [r EXCEPT !.owner = Alone("foreign")], [r EXCEPT !.owner = Shared(r.owner.key)],
     [r EXCEPT !.permission = "foreign"], [r EXCEPT !.policy = "other"],
     [r EXCEPT !.creator = "foreign", !.owner = Alone("foreign")]}

-----------------------------------------------------------------------------
\* (mutant) the owner is to have the right key, not that key alone
ValidatesAnyOwner(r, exists) ==
    /\ r.chain = "ours" /\ r.contract = "ours"
    /\ ~exists
    /\ \E ram \in BOOLEAN : r.actions = Actions(ram)
    /\ r.signers = "template"
    /\ r.active.alone
    /\ r.policy = "empty"

\* validateOnboardingPayload(), given whether the account exists.
\* The permission is compared with the summary of the same payload only.
Validates(r, exists) ==
    /\ r.chain = "ours" /\ r.contract = "ours"
    /\ ~exists
    /\ \E ram \in BOOLEAN : r.actions = Actions(ram)
    /\ r.signers = "template"
    /\ r.active.alone /\ r.owner.alone
    /\ r.policy = "empty"

\* verifyPayload(): and the owner is to be the key of the authority's active
\* permission, the authority being who is connected.
CompanionAccepts(r, exists, authorityKey) ==
    /\ Validates(r, exists)
    /\ r.owner.key = authorityKey
    /\ r.creator = "authority"

AuthorizesExclusively(authority, key) == authority.alone /\ authority.key = key

\* (mutant) what landed is the key and the row, the owner is not looked at
VerifiesKeyAndRow(active, owner, row, agentKey, authorityKey, permission) ==
    /\ permission = "active"
    /\ AuthorizesExclusively(active, agentKey)
    /\ row.authority = "authority" /\ row.permission = permission /\ row.policy = "empty"

\* verifyLanded().  An account created by a request has the permissions active
\* and owner only.
Verifies(active, owner, row, agentKey, authorityKey, permission) ==
    /\ permission = "active"
    /\ AuthorizesExclusively(active, agentKey)
    /\ AuthorizesExclusively(owner, authorityKey)
    /\ row.authority = "authority" /\ row.permission = permission /\ row.policy = "empty"
=============================================================================
