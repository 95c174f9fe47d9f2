----------------------------- MODULE Onboarding -----------------------------
(***************************************************************************)
(* Onboarding of one agent (src/onboarding/flow.ts) with the chain side    *)
(* (src/chains/xpr/onboarding.ts), the key containers                      *)
(* (src/keystore/encryptedFile.ts) and the companion page                  *)
(* (web/src/views/OnboardingView.tsx).                                     *)
(*                                                                         *)
(* Each run of `signbox agent init` is a session, a process of its own     *)
(* that generates one key; the session's name stands for the key.  All     *)
(* sessions of the agent use the same container path and its ".onboarding" *)
(* sibling.  A request, once presented, is out of the session's hands: it  *)
(* can be signed at any time, as it is or changed, or never.               *)
(***************************************************************************)
EXTENDS OnboardingRequest, Naturals, FiniteSets

CONSTANTS
    Sessions,
    OldKey,     \* a key that was at the path before
    Faults,     \* what may go wrong, some of AllFaults
    MaxFaults,  \* (bound) how many of them do in one history
    Nobody      \* also: no request, no account, no row

\* "late": a request lands after its session gave up; "reuse": the final path
\* is taken from the start; "custom": --permission is not active; "rotate":
\* the authority changes its key; "edit": it replaces the policy at once;
\* "replace": it gives the agent's active permission to another key.
AllFaults == {"read", "disk", "crash", "late", "reuse", "custom", "rotate", "edit", "replace"}

ASSUME OnboardingAssumption ==
    /\ Nobody \notin Sessions \cup {OldKey}
    /\ OldKey \notin Sessions
    /\ Faults \subseteq AllFaults /\ MaxFaults \in Nat

\* "first" and "second" are keys of the authority, "foreign" is anybody else's.
Names == Sessions \cup {OldKey, "first", "second", "foreign"}
Authorities == [key : Names, alone : BOOLEAN]

Requests ==
    [chain : {"ours", "foreign"}, contract : {"ours", "foreign"},
     actions : {Actions(TRUE), Actions(FALSE),
                <<"newaccount">>, <<"newaccount", "transfer", "createpolicy">>},
     signers : {"template", "other"}, creator : {"authority", "foreign"},
     active : Authorities, owner : Authorities,
     permission : {"active", "custom", "foreign"}, policy : {"empty", "other"}]

Accounts == [request : Requests, companion : BOOLEAN, active : Authorities]

Rows == [authority : {"authority", "foreign"}, permission : {"active", "custom", "foreign"},
         policy : {"empty", "other"}]

ASSUME NamesAssumption ==
    /\ Nobody \notin Requests \cup Accounts \cup Rows
    /\ {"first", "second", "foreign"} \cap (Sessions \cup {OldKey, Nobody}) = {}

Stages == {"authority", "account", "row", "keygen", "sealed", "waiting", "landed",
           "linked", "done", "failed", "dead"}

VARIABLES
    faults,       \* what went wrong so far
    stage,        \* where each session is
    temp,         \* the key in the container <path>.onboarding, or Nobody
    final,        \* the key in the container <path>, or Nobody
    presented,    \* the request each session showed, or Nobody
    authorityKey, \* the first key of the authority's active permission
    page,         \* what the companion page accepted and is about to have
                  \* signed: [session, request], or Nobody
    account,      \* the request it was created by, whether through the
                  \* companion, and its active authority now; or Nobody
    row           \* its policy row, or Nobody

vars == <<faults, stage, temp, final, presented, authorityKey, page, account, row>>
chain == <<authorityKey, account, row>>

Init ==
    /\ faults \in SUBSET (Faults \cap {"reuse", "custom"})
    /\ stage = [s \in Sessions |-> "authority"]
    /\ temp = Nobody
    /\ final = IF "reuse" \in faults THEN OldKey ELSE Nobody
    /\ presented = [s \in Sessions |-> Nobody]
    /\ authorityKey = "first"
    /\ page = Nobody
    /\ account = Nobody
    /\ row = Nobody

AccountExists == account # Nobody
RowExists == row # Nobody
Permission == IF "custom" \in faults THEN "custom" ELSE "active"

Goto(s, there) == stage' = [stage EXCEPT ![s] = there]
Sound == UNCHANGED faults
Fault(f) == f \in Faults /\ faults' = faults \cup {f} /\ Cardinality(faults') <= MaxFaults

-----------------------------------------------------------------------------
(* Preconditions: three reads.  A failed read counts as "does not exist".  *)

CheckAuthority(s) ==
    /\ stage[s] = "authority"
    /\ Goto(s, "account") \/ Goto(s, "failed")
    /\ Sound /\ UNCHANGED <<temp, final, presented, page, chain>>

CheckAccount(s) ==
    /\ stage[s] = "account"
    /\ \/ AccountExists /\ Goto(s, "failed") /\ Sound
       \/ Goto(s, "row") /\ IF AccountExists THEN Fault("read") ELSE Sound
    /\ UNCHANGED <<temp, final, presented, page, chain>>

CheckRow(s) ==
    /\ stage[s] = "row"
    /\ \/ RowExists /\ Goto(s, "failed") /\ Sound
       \/ Goto(s, "keygen") /\ IF RowExists THEN Fault("read") ELSE Sound
    /\ UNCHANGED <<temp, final, presented, page, chain>>

-----------------------------------------------------------------------------
(* The key is sealed before the request is shown. *)

\* (mutant) the container is opened for writing whatever is there
SealOver(s) ==
    /\ stage[s] = "keygen"
    /\ temp' = s
    /\ Goto(s, "sealed")
    /\ Sound /\ UNCHANGED <<final, presented, page, chain>>

\* createTemp() creates the file exclusively: FILE_EXISTS leaves it alone.
Seal(s) ==
    /\ stage[s] = "keygen"
    /\ \/ temp = Nobody /\ temp' = s /\ Goto(s, "sealed")
       \/ Goto(s, "failed") /\ UNCHANGED temp
    /\ Sound /\ UNCHANGED <<final, presented, page, chain>>

\* Every error after the container exists destroys it.
Abort(s) == temp' = Nobody /\ Goto(s, "failed")

Present(s) ==
    /\ stage[s] = "sealed"
    /\ \/ /\ presented' = [presented EXCEPT ![s] = Built(s, authorityKey, Permission)]
          /\ Goto(s, "waiting") /\ UNCHANGED temp
       \/ Abort(s) /\ UNCHANGED presented     \* buildRequest() threw
    /\ Sound /\ UNCHANGED <<final, page, chain>>

\* waitForConfirmation(): a poll finds the row, or the deadline passes after a
\* poll that did not.
PollFindsRow(s) ==
    /\ stage[s] = "waiting"
    /\ RowExists
    /\ Goto(s, "landed")
    /\ Sound /\ UNCHANGED <<temp, final, presented, page, chain>>

\* (mutant) the deadline is looked at before the row is
TimeOutFirst(s) ==
    /\ stage[s] = "waiting"
    /\ Abort(s)
    /\ Sound /\ UNCHANGED <<final, presented, page, chain>>

TimeOut(s) ==
    /\ stage[s] = "waiting"
    /\ Abort(s)
    /\ IF RowExists THEN Fault("read") ELSE Sound
    /\ UNCHANGED <<final, presented, page, chain>>

Verified(s) == Verifies(account.active, account.request.owner, row, s, authorityKey, Permission)

\* promote(): link, which fails if the final path is taken, then unlink.
VerifyAndLink(s) ==
    /\ stage[s] = "landed"
    /\ Verified(s)
    /\ final = Nobody
    /\ final' = temp
    /\ Goto(s, "linked")
    /\ Sound /\ UNCHANGED <<temp, presented, page, chain>>

VerifyOrLinkFails(s) ==
    /\ stage[s] = "landed"
    /\ Abort(s)
    /\ \/ (~Verified(s) \/ final # Nobody) /\ Sound
       \/ Fault("read")
       \/ Fault("disk")
    /\ UNCHANGED <<final, presented, page, chain>>

\* If unlink() fails the catch block tries once more and reports the error.
Unlink(s) ==
    /\ stage[s] = "linked"
    /\ \/ temp' = Nobody /\ Goto(s, "done") /\ Sound
       \/ Fault("disk") /\ Goto(s, "failed") /\ temp' \in {temp, Nobody}
    /\ UNCHANGED <<final, presented, page, chain>>

\* The process is killed; what it wrote stays.
Crash(s) ==
    /\ stage[s] \notin {"done", "failed", "dead"}
    /\ Goto(s, "dead")
    /\ Fault("crash")
    /\ UNCHANGED <<temp, final, presented, page, chain>>

-----------------------------------------------------------------------------
(* The request of a session on its way to the chain. *)

Copies(s) == IF presented[s] = Nobody THEN {}
             ELSE {presented[s]} \cup Changed(presented[s])

\* The chain takes it if the account does not exist.  Its policy row is the one
\* the CLI looks for if it is registered with our contract.
Lands(s, r, companion) ==
    /\ r.chain = "ours" /\ ~AccountExists
    /\ IF stage[s] \in {"waiting", "dead"} THEN Sound ELSE Fault("late")
    /\ account' = [request |-> r, companion |-> companion, active |-> r.active]
    /\ row' = IF r.contract = "ours" /\ r.actions[Len(r.actions)] = "createpolicy"
              THEN [authority |-> r.creator, permission |-> r.permission, policy |-> r.policy]
              ELSE row
    /\ UNCHANGED <<stage, temp, final, presented, authorityKey>>

\* Whoever got the request signs it in a wallet, the companion not involved.
WalletSigns(s) ==
    /\ \E r \in Copies(s) : Lands(s, r, FALSE)
    /\ UNCHANGED page

\* onSign(): the page verifies the request it was opened with once more ...
CompanionAsks(s) ==
    /\ page = Nobody
    /\ \E r \in Copies(s) :
          /\ CompanionAccepts(r, AccountExists, authorityKey)
          /\ page' = [session |-> s, request |-> r]
    /\ Sound /\ UNCHANGED <<stage, temp, final, presented, chain>>

\* ... and has the connected wallet sign exactly its actions.
CompanionSigns ==
    /\ page # Nobody
    /\ \/ Lands(page.session, page.request, TRUE)
       \/ Sound /\ UNCHANGED <<stage, temp, final, presented, chain>>
    /\ page' = Nobody

AuthorityRotates ==
    /\ authorityKey = "first"
    /\ authorityKey' = "second"
    /\ Fault("rotate")
    /\ UNCHANGED <<stage, temp, final, presented, page, account, row>>

PolicyEdited ==
    /\ RowExists /\ row.policy = "empty"
    /\ row' = [row EXCEPT !.policy = "other"]
    /\ Fault("edit")
    /\ UNCHANGED <<stage, temp, final, presented, authorityKey, page, account>>

Next ==
    \/ \E s \in Sessions :
          \/ CheckAuthority(s) \/ CheckAccount(s) \/ CheckRow(s)
          \/ Seal(s) \/ Present(s) \/ PollFindsRow(s) \/ TimeOut(s)
          \/ VerifyAndLink(s) \/ VerifyOrLinkFails(s) \/ Unlink(s)
          \/ Crash(s)
          \/ WalletSigns(s) \/ CompanionAsks(s)
    \/ CompanionSigns
    \/ AuthorityRotates
    \/ PolicyEdited

Spec == Init /\ [][Next]_vars

-----------------------------------------------------------------------------
Keys == Sessions \cup {OldKey, Nobody}

\* Types, and the exclusive use of the temporary container: while a session
\* works on its container, the container holds that session's key.
TypeOK ==
    /\ faults \subseteq Faults
    /\ stage \in [Sessions -> Stages]
    /\ temp \in Sessions \cup {Nobody} /\ final \in Keys
    /\ \A s \in Sessions :
          presented[s] \in {Nobody} \cup {Built(s, k, Permission) : k \in {"first", "second"}}
    /\ authorityKey \in {"first", "second"}
    /\ page # Nobody => page.request \in Copies(page.session)
    /\ AccountExists => \E s \in Sessions : account.request \in Copies(s)
    /\ RowExists => AccountExists
    /\ \A s \in Sessions : stage[s] \in {"sealed", "waiting", "landed", "linked"} => temp = s

\* Post-landing verification (flow.ts): a key becomes the active one only if
\* the chain carries that very key alone, under an owner that is a key of the
\* authority alone, with the deny-all policy the authority registered, however
\* many sessions were started and whatever became of their requests.
ActiveKeyIsOnChain ==
    final \in Sessions =>
        /\ AccountExists /\ RowExists
        /\ account.request.active = Alone(final)
        /\ account.request.owner \in {Alone("first"), Alone("second")}
        /\ account.request.policy = "empty"
        /\ row.authority = "authority" /\ row.permission = "active"

\* flow.ts: "the key is never orphaned and never lost".  The key of a request
\* that landed as it was built is in one of the two containers.
KeyNotLost ==
    \A s \in Sessions :
        AccountExists /\ account.request = presented[s] => s \in {temp, final}

\* Where that does hold: whichever sessions are killed, at whichever step, if
\* the request lands while its session waits or after it was killed, nothing
\* is at the path, reads and disk work, and neither the authority's key nor the
\* policy changes meanwhile.  It rests on sealing before showing, linking
\* before unlinking, and looking at the row before the deadline.
KeyKept == faults \subseteq {"crash"} => KeyNotLost

\* The companion and the CLI judge requests with code of their own, one before
\* signing and one after landing.  What the companion let pass, with the key of
\* a session and its permission, the CLI accepts for that session, unless the
\* authority changed its key or a policy or the agent's key in between; in particular the
\* account is the authority's alone (validate.ts: "so the authority keeps
\* exclusive control").
CompanionAgreesWithCli ==
    \A s \in Sessions :
        /\ AccountExists /\ account.companion
        /\ account.request.active.key = s /\ account.request.permission = "active"
        /\ faults \cap {"custom", "rotate", "edit", "replace"} = {}
        => Verified(s)
=============================================================================
