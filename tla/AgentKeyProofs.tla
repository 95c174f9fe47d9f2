--------------------------- MODULE AgentKeyProofs ---------------------------
(***************************************************************************)
(* Proofs about an agent's key from its onboarding to its use, for every   *)
(* number of sessions, checks and attempts, every set of faults, and every *)
(* life time, latency and lag.                                             *)
(***************************************************************************)
EXTENDS AgentKey, TLAPS

(***************************************************************************)
(* Onboarding, for every number of sessions and every set of faults: what  *)
(* each step of a session, of the chain and of the companion page keeps.   *)
(***************************************************************************)
Early == {"authority", "account", "row", "keygen", "sealed"}

Shapes ==
    /\ presented \in [Sessions -> Requests \cup {Nobody}]
    /\ page # Nobody => page.session \in Sessions /\ page.request \in Requests
    /\ AccountExists => account \in Accounts
    /\ RowExists => row \in Rows

\* Where a session is says what it has shown and where its key is.
Orderly ==
    /\ \A s \in Sessions :
          /\ stage[s] \in Early => presented[s] = Nobody
          /\ presented[s] # Nobody =>
                presented[s].owner = Alone("first") \/ "rotate" \in faults
          /\ stage[s] = "landed" => RowExists
          /\ stage[s] = "dead" /\ presented[s] # Nobody => temp = s
          /\ stage[s] \in {"linked", "done"} => final = s
          /\ final = s => stage[s] \in {"linked", "done", "failed", "dead"}
    /\ final = OldKey => "reuse" \in faults
    /\ authorityKey = "first" \/ "rotate" \in faults

Registers(r) == r.contract = "ours" /\ r.actions[Len(r.actions)] = "createpolicy"

CompanionTook(r) ==
    /\ Registers(r) /\ r.active.alone /\ r.owner.alone
    /\ r.policy = "empty" /\ r.creator = "authority"
    /\ r.owner.key = "first" \/ "rotate" \in faults

\* The account and the row are what the request says, but for the faults.
AsRequested ==
    /\ AccountExists =>
          /\ \/ account.active = account.request.active
             \/ "replace" \in faults /\ account.active = Alone("foreign")
          /\ RowExists <=> Registers(account.request)
          /\ account.companion => CompanionTook(account.request)
    /\ RowExists =>
          /\ AccountExists
          /\ row.authority = account.request.creator
          /\ row.permission = account.request.permission
          /\ \/ row.policy = account.request.policy
             \/ "edit" \in faults /\ row.policy = "other"
    /\ page # Nobody => CompanionTook(page.request)

\* A session whose request landed does not give up.
NoneGaveUp ==
    faults \subseteq {"crash"} =>
        \A s \in Sessions :
            AccountExists /\ account.request = presented[s] => stage[s] # "failed"

\* The parts of TypeOK about requests.
Shown ==
    \A s \in Sessions :
        presented[s] \in {Nobody} \cup {Built(s, k, Permission) : k \in {"first", "second"}}

Carried ==
    /\ page # Nobody => page.request \in Copies(page.session)
    /\ AccountExists => \E s \in Sessions : account.request \in Copies(s)
    /\ RowExists => AccountExists

OnboardingInv ==
    TypeOK /\ Shapes /\ Orderly /\ AsRequested /\ ActiveKeyIsOnChain /\ NoneGaveUp

FaultsGrow ==
    /\ faults \subseteq faults' /\ faults' \subseteq Faults
    /\ "custom" \in faults' <=> "custom" \in faults

-----------------------------------------------------------------------------
LEMMA BuiltType ==
    ASSUME NEW s \in Sessions, NEW k \in {"first", "second"}
    PROVE  /\ Built(s, k, Permission) \in Requests
           /\ Built(s, k, Permission).active = Alone(s)
           /\ Built(s, k, Permission).owner = Alone(k)
           /\ Built(s, k, Permission).permission = Permission
           /\ Built(s, k, Permission).policy = "empty"
           /\ Built(s, k, Permission).creator = "authority"
<1>1. Alone(s) \in Authorities /\ Alone(k) \in Authorities
  BY DEF Alone, Authorities, Names
<1>2. Permission \in {"active", "custom", "foreign"}
  BY DEF Permission
<1>3. Actions(BuysRam) \in {Actions(TRUE), Actions(FALSE)}
  BY DEF Actions
<1>4. QED
  BY <1>1, <1>2, <1>3 DEF Built, Requests

\* A changed request is a request, with the key it had, shared or alone, or a
\* foreign one.
LEMMA ChangedType ==
    ASSUME NEW b \in Requests, NEW r \in Changed(b)
    PROVE  /\ r \in Requests
           /\ r.active \in {b.active, Alone("foreign"), Shared(b.active.key)}
<1>1. /\ Alone("foreign") \in Authorities
      /\ Shared(b.active.key) \in Authorities /\ Shared(b.owner.key) \in Authorities
  BY DEF Alone, Shared, Authorities, Names, Requests
<1>2. /\ <<"newaccount">> \in {Actions(TRUE), Actions(FALSE),
                               <<"newaccount">>, <<"newaccount", "transfer", "createpolicy">>}
      /\ <<"newaccount", "transfer", "createpolicy">>
            \in {Actions(TRUE), Actions(FALSE),
                 <<"newaccount">>, <<"newaccount", "transfer", "createpolicy">>}
  OBVIOUS
<1>3. CASE r \in {[b EXCEPT !.chain = "foreign"], [b EXCEPT !.contract = "foreign"]}
  BY <1>3 DEF Requests
<1>4. CASE r \in {[b EXCEPT !.actions = <<"newaccount">>],
                  [b EXCEPT !.actions = <<"newaccount", "transfer", "createpolicy">>]}
  BY <1>2, <1>4 DEF Requests
<1>5. CASE r = [b EXCEPT !.signers = "other"]
  BY <1>5 DEF Requests
<1>6. CASE r \in {[b EXCEPT !.active = Alone("foreign")],
                  [b EXCEPT !.active = Shared(b.active.key)]}
  BY <1>1, <1>6 DEF Requests
<1>7. CASE r \in {[b EXCEPT !.owner = Alone("foreign")],
                  [b EXCEPT !.owner = Shared(b.owner.key)]}
  BY <1>1, <1>7 DEF Requests
<1>8. CASE r \in {[b EXCEPT !.permission = "foreign"], [b EXCEPT !.policy = "other"]}
  BY <1>8 DEF Requests
<1>9. CASE r = [b EXCEPT !.creator = "foreign", !.owner = Alone("foreign")]
  BY <1>1, <1>9 DEF Requests
<1>10. QED
  BY <1>3, <1>4, <1>5, <1>6, <1>7, <1>8, <1>9 DEF Changed

\* What comes of a session's request carries no other session's key.
LEMMA CopiesType ==
    ASSUME TypeOK, NEW s \in Sessions, NEW r \in Copies(s)
    PROVE  /\ r \in Requests
           /\ \A t \in Sessions : r.active = Alone(t) => t = s
<1>1. presented[s] # Nobody /\ (r = presented[s] \/ r \in Changed(presented[s]))
  BY DEF Copies
<1>2. PICK k \in {"first", "second"} : presented[s] = Built(s, k, Permission)
  BY <1>1 DEF TypeOK
<1>3. presented[s] \in Requests /\ presented[s].active = Alone(s)
  BY <1>2, BuiltType
<1>4. r \in Requests /\ r.active \in {Alone(s), Alone("foreign"), Shared(Alone(s).key)}
  BY <1>1, <1>3, ChangedType
<1>5. \A t \in Sessions : t # "foreign"
  BY NamesAssumption
<1>6. QED
  BY <1>4, <1>5 DEF Alone, Shared

LEMMA NobodyIsNothing ==
    /\ \A s \in Sessions : s # Nobody /\ s # OldKey /\ s # "foreign"
    /\ \A r \in Requests : r # Nobody
    /\ \A a \in Accounts : a # Nobody
    /\ \A o \in Rows : o # Nobody
  BY OnboardingAssumption, NamesAssumption

\* With nothing but crashes, the request of a session that landed as it was
\* built verifies, and the place for its key is free.
LEMMA CleanVerifies ==
    ASSUME OnboardingInv, faults \subseteq {"crash"}, NEW s \in Sessions, stage[s] = "landed",
           AccountExists, account.request = presented[s]
    PROVE  Verified(s) /\ final = Nobody
<1>1. /\ "custom" \notin faults /\ "replace" \notin faults /\ "edit" \notin faults
      /\ "rotate" \notin faults /\ "reuse" \notin faults
  OBVIOUS
<1>2. account \in Accounts /\ account.request \in Requests
  BY DEF OnboardingInv, Shapes, Accounts
<1>3. presented[s] # Nobody
  BY <1>2, NobodyIsNothing
<1>4. PICK k \in {"first", "second"} : presented[s] = Built(s, k, Permission)
  BY <1>3 DEF OnboardingInv, TypeOK
<1>5. /\ presented[s].active = Alone(s) /\ presented[s].permission = "active"
      /\ presented[s].policy = "empty" /\ presented[s].creator = "authority"
      /\ Permission = "active"
  BY <1>1, <1>4, BuiltType DEF Permission
<1>6. presented[s].owner = Alone("first") /\ authorityKey = "first" /\ RowExists
  BY <1>1, <1>3 DEF OnboardingInv, Orderly
<1>7. /\ account.active = Alone(s)
      /\ row.authority = "authority" /\ row.permission = "active" /\ row.policy = "empty"
  BY <1>1, <1>5, <1>6 DEF OnboardingInv, AsRequested
<1>8. Verified(s)
  BY <1>5, <1>6, <1>7 DEF Verified, Verifies, AuthorizesExclusively, Alone
<1>9. final = Nobody
  <2>1. final # OldKey
    BY <1>1 DEF OnboardingInv, Orderly
  <2>2. ASSUME final \in Sessions PROVE FALSE
    <3>1. account.request.active = Alone(final)
      BY <2>2 DEF OnboardingInv, ActiveKeyIsOnChain
    <3>2. final = s
      BY <1>5, <3>1 DEF Alone
    <3>3. QED
      BY <3>2 DEF OnboardingInv, Orderly
  <2>3. QED
    BY <2>1, <2>2 DEF OnboardingInv, TypeOK, Keys
<1>10. QED
  BY <1>8, <1>9

-----------------------------------------------------------------------------
\* What concerns the request, the page and the chain stays as long as they do.
LEMMA ChainStands ==
    ASSUME OnboardingInv, FaultsGrow, UNCHANGED <<presented, page, authorityKey, account, row>>
    PROVE  /\ Shapes' /\ AsRequested' /\ (authorityKey = "first" \/ "rotate" \in faults)'
           /\ Shown' /\ Carried'
           /\ \A s \in Sessions : presented'[s] # Nobody =>
                 presented'[s].owner = Alone("first") \/ "rotate" \in faults'
<1>1. UNCHANGED Permission
  BY DEF FaultsGrow, Permission
<1>2. Shapes'
  BY DEF OnboardingInv, Shapes, AccountExists, RowExists
<1>3. AsRequested'
  BY DEF OnboardingInv, AsRequested, AccountExists, RowExists, CompanionTook, FaultsGrow
<1>4. /\ (authorityKey = "first" \/ "rotate" \in faults)'
      /\ \A s \in Sessions : presented'[s] # Nobody =>
            presented'[s].owner = Alone("first") \/ "rotate" \in faults'
  BY DEF OnboardingInv, Orderly, FaultsGrow
<1>5. Shown'
  BY <1>1 DEF OnboardingInv, TypeOK, Shown
<1>6. Carried'
  BY DEF OnboardingInv, TypeOK, Carried, Copies, AccountExists, RowExists
<1>7. QED
  BY <1>1, <1>2, <1>3, <1>4, <1>5, <1>6 DEF FaultsGrow

\* A step of one session that leaves the request, the final container and the
\* chain alone.
LEMMA SessionStep ==
    ASSUME OnboardingInv, FaultsGrow, NEW s \in Sessions, NEW there \in Stages,
           stage' = [stage EXCEPT ![s] = there],
           UNCHANGED <<final, presented, page, authorityKey, account, row>>,
           temp' = temp \/ (temp \in {Nobody, s} /\ temp' \in {Nobody, s}),
           there \in {"sealed", "waiting", "landed", "linked"} => temp' = s,
           there \in Early => stage[s] \in Early,
           there = "landed" => RowExists,
           there = "dead" => temp' = temp /\ stage[s] \notin {"done", "failed", "dead"},
           there \in {"linked", "done"} => final = s,
           final = s => there \in {"linked", "done", "failed", "dead"},
           there = "failed" /\ faults' \subseteq {"crash"}
              => ~(AccountExists /\ account.request = presented[s])
    PROVE  OnboardingInv'
<1>1. /\ stage \in [Sessions -> Stages] /\ temp \in Sessions \cup {Nobody} /\ final \in Keys
      /\ \A t \in Sessions : stage[t] \in {"sealed", "waiting", "landed", "linked"} => temp = t
      /\ \A t \in Sessions : t # Nobody
  BY NobodyIsNothing DEF OnboardingInv, TypeOK
<1>2. /\ stage' \in [Sessions -> Stages] /\ stage'[s] = there
      /\ \A t \in Sessions : t # s => stage'[t] = stage[t]
  BY <1>1
<1>3. temp' \in Sessions \cup {Nobody}
  BY <1>1
<1>4. \A t \in Sessions : stage'[t] \in {"sealed", "waiting", "landed", "linked"} => temp' = t
  BY <1>1, <1>2
<1>5. TypeOK'
  <2>1. Shown' /\ Carried'
    BY ChainStands
  <2>2. faults' \subseteq Faults /\ authorityKey' \in {"first", "second"} /\ final' \in Keys
    BY <1>1 DEF OnboardingInv, TypeOK, FaultsGrow
  <2>3. QED
    BY <1>2, <1>3, <1>4, <2>1, <2>2 DEF TypeOK, Shown, Carried
<1>6. Orderly'
  <2>1. ASSUME NEW t \in Sessions
        PROVE  /\ stage'[t] \in Early => presented'[t] = Nobody
               /\ stage'[t] = "landed" => RowExists'
               /\ stage'[t] = "dead" /\ presented'[t] # Nobody => temp' = t
               /\ stage'[t] \in {"linked", "done"} => final' = t
               /\ final' = t => stage'[t] \in {"linked", "done", "failed", "dead"}
    <3>1. /\ stage[t] \in Early => presented[t] = Nobody
          /\ stage[t] = "landed" => RowExists
          /\ stage[t] = "dead" /\ presented[t] # Nobody => temp = t
          /\ stage[t] \in {"linked", "done"} => final = t
          /\ final = t => stage[t] \in {"linked", "done", "failed", "dead"}
      BY DEF OnboardingInv, Orderly
    <3>2. CASE t # s
      BY <1>1, <1>2, <3>1, <3>2 DEF RowExists
    <3>3. CASE t = s
      <4>1. stage[s] \in Stages
        BY <1>1
      <4>2. there = "dead" /\ presented'[s] # Nobody
              => stage[s] \in {"waiting", "landed", "linked"}
        BY <3>1, <3>3, <4>1 DEF Early, Stages
      <4>3. QED
        BY <1>1, <1>2, <3>1, <3>3, <4>2 DEF RowExists
    <3>4. QED
      BY <3>2, <3>3
  <2>2. (final = OldKey => "reuse" \in faults)'
    BY DEF OnboardingInv, Orderly, FaultsGrow
  <2>3. QED
    BY <2>1, <2>2, ChainStands DEF Orderly
<1>7. ActiveKeyIsOnChain'
  BY DEF OnboardingInv, ActiveKeyIsOnChain, AccountExists, RowExists
<1>8. NoneGaveUp'
  <2>1. SUFFICES ASSUME faults' \subseteq {"crash"}, NEW t \in Sessions,
                        AccountExists, account.request = presented[t]
                 PROVE  stage'[t] # "failed"
    BY DEF NoneGaveUp, AccountExists
  <2>2. faults \subseteq {"crash"}
    BY <2>1 DEF FaultsGrow
  <2>3. stage[t] # "failed"
    BY <2>1, <2>2 DEF OnboardingInv, NoneGaveUp
  <2>4. QED
    BY <1>2, <2>1, <2>3
<1>9. QED
  BY <1>5, <1>6, <1>7, <1>8, ChainStands DEF OnboardingInv

\* Which faults a step may add.
LEMMA FaultsOfStep ==
    ASSUME OnboardingInv
    PROVE  /\ Sound => FaultsGrow /\ faults' = faults
           /\ \A f \in AllFaults \ {"custom"} :
                 Fault(f) => FaultsGrow /\ f \in faults'
  BY DEF OnboardingInv, TypeOK, Sound, Fault, FaultsGrow

-----------------------------------------------------------------------------
\* The steps of a session that read the chain.
LEMMA ReadsKeep ==
    ASSUME OnboardingInv, NEW s \in Sessions,
           CheckAuthority(s) \/ CheckAccount(s) \/ CheckRow(s)
    PROVE  OnboardingInv'
<1>1. /\ stage[s] \in {"authority", "account", "row"} /\ stage[s] \in Early
      /\ UNCHANGED <<temp, final, presented, page, authorityKey, account, row>>
      /\ \E there \in {"account", "row", "keygen", "failed"} : Goto(s, there)
  BY DEF CheckAuthority, CheckAccount, CheckRow, Early, chain
<1>2. FaultsGrow
  <2>1. Sound \/ Fault("read")
    BY DEF CheckAuthority, CheckAccount, CheckRow
  <2>2. QED
    BY <2>1, FaultsOfStep DEF AllFaults
<1>3. PICK there \in {"account", "row", "keygen", "failed"} : Goto(s, there)
  BY <1>1
<1>4. /\ there \in Stages /\ stage' = [stage EXCEPT ![s] = there]
      /\ there \notin {"sealed", "waiting", "landed", "linked", "dead", "done"}
  BY <1>3 DEF Stages, Goto
<1>5. /\ presented[s] = Nobody /\ final # s
      /\ ~(AccountExists /\ account.request = presented[s])
  <2>1. presented[s] = Nobody /\ final # s
    BY <1>1 DEF OnboardingInv, Orderly
  <2>2. AccountExists => account.request \in Requests
    BY DEF OnboardingInv, Shapes, Accounts
  <2>3. QED
    BY <2>1, <2>2, NobodyIsNothing
<1>6. QED
  BY <1>1, <1>2, <1>4, <1>5, SessionStep

\* The container is created only where there is none.
LEMMA SealKeeps ==
    ASSUME OnboardingInv, NEW s \in Sessions, Seal(s)
    PROVE  OnboardingInv'
<1>1. /\ stage[s] = "keygen" /\ stage[s] \in Early /\ FaultsGrow
      /\ UNCHANGED <<final, presented, page, authorityKey, account, row>>
  BY FaultsOfStep DEF Seal, Early, chain
<1>2. presented[s] = Nobody /\ final # s
  BY <1>1 DEF OnboardingInv, Orderly
<1>3. ~(AccountExists /\ account.request = presented[s])
  BY <1>2, NobodyIsNothing DEF OnboardingInv, Shapes, Accounts
<1>4. CASE temp = Nobody /\ temp' = s /\ Goto(s, "sealed")
  <2>1. "sealed" \in Stages /\ stage' = [stage EXCEPT ![s] = "sealed"]
    BY <1>4 DEF Stages, Goto
  <2>2. QED
    BY <1>1, <1>2, <1>4, <2>1, SessionStep
<1>5. CASE Goto(s, "failed") /\ UNCHANGED temp
  <2>1. "failed" \in Stages /\ stage' = [stage EXCEPT ![s] = "failed"] /\ "failed" \notin Early
    BY <1>5 DEF Stages, Goto, Early
  <2>2. QED
    BY <1>1, <1>2, <1>3, <1>5, <2>1, SessionStep
<1>6. QED
  BY <1>4, <1>5 DEF Seal

\* A session that aborts had its own key in the container.
LEMMA AbortKeeps ==
    ASSUME OnboardingInv, FaultsGrow, NEW s \in Sessions, Abort(s),
           stage[s] \in {"sealed", "waiting", "landed"},
           UNCHANGED <<final, presented, page, authorityKey, account, row>>,
           faults' \subseteq {"crash"} => ~(AccountExists /\ account.request = presented[s])
    PROVE  OnboardingInv'
<1>1. temp = s /\ temp' = Nobody
  BY DEF OnboardingInv, TypeOK, Abort
<1>2. final # s
  BY DEF OnboardingInv, Orderly
<1>3. "failed" \in Stages /\ stage' = [stage EXCEPT ![s] = "failed"] /\ "failed" \notin Early
  BY DEF Stages, Abort, Goto, Early
<1>4. QED
  BY <1>1, <1>2, <1>3, SessionStep

\* Waiting: the row is found, or the session gives up after a look at it.
LEMMA WaitingKeeps ==
    ASSUME OnboardingInv, NEW s \in Sessions, PollFindsRow(s) \/ TimeOut(s)
    PROVE  OnboardingInv'
<1>1. /\ stage[s] = "waiting" /\ temp = s /\ final # s
      /\ UNCHANGED <<final, presented, page, authorityKey, account, row>>
  BY DEF OnboardingInv, TypeOK, Orderly, PollFindsRow, TimeOut, chain
<1>2. CASE PollFindsRow(s)
  <2>1. /\ FaultsGrow /\ RowExists /\ UNCHANGED temp
        /\ "landed" \in Stages /\ stage' = [stage EXCEPT ![s] = "landed"] /\ "landed" \notin Early
    BY <1>2, FaultsOfStep DEF PollFindsRow, Stages, Goto, Early
  <2>2. QED
    BY <1>1, <2>1, SessionStep
<1>3. CASE TimeOut(s)
  <2>1. Abort(s) /\ FaultsGrow /\ (RowExists => "read" \in faults')
    BY <1>3, FaultsOfStep DEF TimeOut, AllFaults
  <2>2. ASSUME faults' \subseteq {"crash"}, AccountExists, account.request = presented[s]
        PROVE  FALSE
    <3>1. presented[s] # Nobody
      BY <2>2, NobodyIsNothing DEF OnboardingInv, Shapes, Accounts
    <3>2. PICK k \in {"first", "second"} : presented[s] = Built(s, k, Permission)
      BY <3>1 DEF OnboardingInv, TypeOK
    <3>3. Registers(presented[s])
      BY <3>2 DEF Registers, Built, Actions
    <3>4. RowExists
      BY <2>2, <3>3 DEF OnboardingInv, AsRequested
    <3>5. QED
      BY <2>1, <2>2, <3>4
  <2>3. QED
    BY <1>1, <2>1, <2>2, AbortKeeps
<1>4. QED
  BY <1>2, <1>3

\* Verification after landing fails, or the container cannot be linked.
LEMMA FailedVerificationKeeps ==
    ASSUME OnboardingInv, NEW s \in Sessions, VerifyOrLinkFails(s)
    PROVE  OnboardingInv'
<1>1. /\ stage[s] = "landed" /\ Abort(s)
      /\ UNCHANGED <<final, presented, page, authorityKey, account, row>>
      /\ \/ (~Verified(s) \/ final # Nobody) /\ Sound
         \/ Fault("read") \/ Fault("disk")
  BY DEF VerifyOrLinkFails, chain
<1>2. FaultsGrow
  BY <1>1, FaultsOfStep DEF AllFaults
<1>3. ASSUME faults' \subseteq {"crash"}, AccountExists, account.request = presented[s]
      PROVE  FALSE
  <2>1. "read" \notin faults' /\ "disk" \notin faults'
    BY <1>3
  <2>2. (~Verified(s) \/ final # Nobody) /\ faults' = faults
    BY <1>1, <2>1 DEF Fault, Sound
  <2>3. Verified(s) /\ final = Nobody
    BY <1>1, <1>3, <2>2, CleanVerifies
  <2>4. QED
    BY <2>2, <2>3
<1>4. QED
  BY <1>1, <1>2, <1>3, AbortKeeps

\* Linking, unlinking and a kill.
LEMMA LinkKeeps ==
    ASSUME OnboardingInv, NEW s \in Sessions, VerifyAndLink(s)
    PROVE  OnboardingInv'
<1>1. /\ stage[s] = "landed" /\ Verified(s) /\ final = Nobody /\ final' = temp
      /\ stage' = [stage EXCEPT ![s] = "linked"] /\ faults' = faults
      /\ UNCHANGED <<temp, presented, page, authorityKey, account, row>>
  BY DEF VerifyAndLink, Goto, Sound, chain
<1>2. /\ stage \in [Sessions -> Stages] /\ temp = s /\ final' = s
      /\ RowExists /\ AccountExists /\ faults \subseteq Faults
      /\ authorityKey \in {"first", "second"}
  BY <1>1 DEF OnboardingInv, TypeOK, Orderly
<1>3. FaultsGrow
  BY <1>1, <1>2 DEF FaultsGrow
<1>4. /\ stage' \in [Sessions -> Stages] /\ stage'[s] = "linked"
      /\ \A t \in Sessions : t # s => stage'[t] = stage[t]
  BY <1>1, <1>2 DEF Stages
<1>5. TypeOK'
  <2>1. Shown' /\ Carried'
    BY <1>1, <1>3, ChainStands
  <2>2. \A t \in Sessions :
           stage'[t] \in {"sealed", "waiting", "landed", "linked"} => temp' = t
    BY <1>1, <1>2, <1>4 DEF OnboardingInv, TypeOK
  <2>3. QED
    BY <1>1, <1>2, <1>4, <2>1, <2>2 DEF TypeOK, Shown, Carried, Keys
<1>6. Orderly'
  <2>1. ASSUME NEW t \in Sessions
        PROVE  /\ stage'[t] \in Early => presented'[t] = Nobody
               /\ stage'[t] = "landed" => RowExists'
               /\ stage'[t] = "dead" /\ presented'[t] # Nobody => temp' = t
               /\ stage'[t] \in {"linked", "done"} => final' = t
               /\ final' = t => stage'[t] \in {"linked", "done", "failed", "dead"}
    <3>1. CASE t = s
      BY <1>2, <1>4, <3>1 DEF Early
    <3>2. CASE t # s
      <4>1. /\ stage[t] \in Early => presented[t] = Nobody
            /\ stage[t] = "landed" => RowExists
            /\ stage[t] = "dead" /\ presented[t] # Nobody => temp = t
            /\ stage[t] \notin {"linked", "done"}
        BY <1>1, NobodyIsNothing DEF OnboardingInv, Orderly
      <4>2. QED
        BY <1>1, <1>2, <1>4, <3>2, <4>1 DEF RowExists
    <3>3. QED
      BY <3>1, <3>2
  <2>2. final' # OldKey
    BY <1>2, NobodyIsNothing
  <2>3. QED
    BY <1>1, <1>3, <2>1, <2>2, ChainStands DEF Orderly
<1>7. ActiveKeyIsOnChain'
  <2>1. /\ account.active \in Authorities /\ account.request.owner \in Authorities
        /\ account.request.policy \in {"empty", "other"}
    BY <1>2 DEF OnboardingInv, Shapes, Accounts, Requests
  <2>2. /\ account.active.alone /\ account.active.key = s
        /\ account.request.owner.alone /\ account.request.owner.key = authorityKey
        /\ row.authority = "authority" /\ row.permission = "active" /\ row.policy = "empty"
    BY <1>1 DEF Verified, Verifies, AuthorizesExclusively
  <2>3. \A x \in Authorities : x.alone => x = Alone(x.key)
    BY DEF Authorities, Alone
  <2>4. account.active = Alone(s) /\ account.request.owner = Alone(authorityKey)
    BY <2>1, <2>2, <2>3
  <2>5. Alone(s) # Alone("foreign")
    BY NobodyIsNothing DEF Alone
  <2>6. account.request.active = Alone(s) /\ account.request.policy = "empty"
    BY <1>2, <2>2, <2>4, <2>5 DEF OnboardingInv, AsRequested
  <2>7. QED
    BY <1>1, <1>2, <2>2, <2>4, <2>6 DEF ActiveKeyIsOnChain, AccountExists, RowExists
<1>8. NoneGaveUp'
  BY <1>1, <1>4 DEF OnboardingInv, NoneGaveUp, AccountExists
<1>9. QED
  BY <1>1, <1>3, <1>5, <1>6, <1>7, <1>8, ChainStands DEF OnboardingInv

LEMMA UnlinkKeeps ==
    ASSUME OnboardingInv, NEW s \in Sessions, Unlink(s)
    PROVE  OnboardingInv'
<1>1. /\ stage[s] = "linked" /\ temp = s /\ final = s
      /\ UNCHANGED <<final, presented, page, authorityKey, account, row>>
  BY DEF OnboardingInv, TypeOK, Orderly, Unlink, chain
<1>2. CASE temp' = Nobody /\ Goto(s, "done") /\ Sound
  <2>1. /\ FaultsGrow /\ "done" \in Stages /\ "done" \notin Early
        /\ stage' = [stage EXCEPT ![s] = "done"]
    BY <1>2, FaultsOfStep DEF Stages, Goto, Early
  <2>2. QED
    BY <1>1, <1>2, <2>1, SessionStep
<1>3. CASE Fault("disk") /\ Goto(s, "failed") /\ temp' \in {temp, Nobody}
  <2>1. /\ FaultsGrow /\ "disk" \in faults' /\ "failed" \in Stages /\ "failed" \notin Early
        /\ stage' = [stage EXCEPT ![s] = "failed"]
    BY <1>3, FaultsOfStep DEF Stages, Goto, Early, AllFaults
  <2>2. QED
    BY <1>1, <1>3, <2>1, SessionStep
<1>4. QED
  BY <1>2, <1>3 DEF Unlink

LEMMA CrashKeeps ==
    ASSUME OnboardingInv, NEW s \in Sessions, Crash(s)
    PROVE  OnboardingInv'
<1>1. /\ FaultsGrow /\ "dead" \in Stages /\ "dead" \notin Early
      /\ stage' = [stage EXCEPT ![s] = "dead"] /\ stage[s] \notin {"done", "failed", "dead"}
      /\ UNCHANGED <<temp, final, presented, page, authorityKey, account, row>>
  BY FaultsOfStep DEF Crash, Stages, Goto, Early, AllFaults, chain
<1>2. QED
  BY <1>1, SessionStep

\* The request is shown, from now on the container holds its key.
LEMMA PresentKeeps ==
    ASSUME OnboardingInv, NEW s \in Sessions, Present(s)
    PROVE  OnboardingInv'
<1>1. /\ stage[s] = "sealed" /\ temp = s /\ faults' = faults /\ FaultsGrow
      /\ UNCHANGED <<final, page, authorityKey, account, row>>
      /\ stage[s] \in Early
  BY FaultsOfStep DEF OnboardingInv, TypeOK, Present, chain, Early
<1>2. presented[s] = Nobody /\ final # s
  BY <1>1 DEF OnboardingInv, Orderly
<1>3. CASE Abort(s) /\ UNCHANGED presented
  <2>1. ~(AccountExists /\ account.request = presented[s])
    BY <1>2, NobodyIsNothing DEF OnboardingInv, Shapes, Accounts
  <2>2. QED
    BY <1>1, <1>3, <2>1, AbortKeeps
<1>4. CASE /\ presented' = [presented EXCEPT ![s] = Built(s, authorityKey, Permission)]
           /\ Goto(s, "waiting") /\ UNCHANGED temp
  <2> DEFINE b == Built(s, authorityKey, Permission)
  <2>1. /\ stage \in [Sessions -> Stages] /\ temp \in Sessions \cup {Nobody} /\ final \in Keys
        /\ faults \subseteq Faults /\ authorityKey \in {"first", "second"}
        /\ presented \in [Sessions -> Requests \cup {Nobody}]
    BY DEF OnboardingInv, TypeOK, Shapes
  <2>2. b \in Requests /\ b.owner = Alone(authorityKey) /\ b.active = Alone(s)
    BY <2>1, BuiltType
  <2>3. /\ presented' \in [Sessions -> Requests \cup {Nobody}] /\ presented'[s] = b
        /\ \A t \in Sessions : t # s => presented'[t] = presented[t]
    BY <1>4, <2>1, <2>2
  <2>4. /\ stage' \in [Sessions -> Stages] /\ stage'[s] = "waiting"
        /\ \A t \in Sessions : t # s => stage'[t] = stage[t]
    BY <1>4, <2>1 DEF Goto, Stages
  <2>5. Permission' = Permission
    BY <1>1 DEF Permission
  <2>6. \A t \in Sessions : \A r \in Copies(t) : r \in Copies(t)'
    <3>1. SUFFICES ASSUME NEW t \in Sessions, NEW r \in Copies(t) PROVE r \in Copies(t)'
      OBVIOUS
    <3>2. t # s
      BY <1>2 DEF Copies
    <3>3. QED
      BY <2>3, <3>2 DEF Copies
  <2>7. Shapes'
    BY <1>1, <2>3 DEF OnboardingInv, Shapes, AccountExists, RowExists
  <2>8. Shown'
    BY <1>1, <2>1, <2>3, <2>5 DEF OnboardingInv, TypeOK, Shown
  <2>9. Carried'
    <3>1. page # Nobody => page.session \in Sessions /\ page.request \in Copies(page.session)
      BY DEF OnboardingInv, TypeOK, Shapes
    <3>2. page' # Nobody => (page.request \in Copies(page.session))'
      <4>1. SUFFICES ASSUME page # Nobody PROVE (page.request \in Copies(page.session))'
        BY <1>1
      <4>2. page.session # s
        BY <1>2, <3>1, <4>1 DEF Copies
      <4>3. QED
        BY <1>1, <2>3, <3>1, <4>1, <4>2 DEF Copies
    <3>3. AccountExists' => (\E t \in Sessions : account.request \in Copies(t))'
      BY <1>1, <2>6 DEF OnboardingInv, TypeOK, AccountExists
    <3>4. QED
      BY <1>1, <3>2, <3>3 DEF OnboardingInv, TypeOK, Carried, AccountExists, RowExists
  <2>10. TypeOK'
    <3>1. \A t \in Sessions :
             stage'[t] \in {"sealed", "waiting", "landed", "linked"} => temp' = t
      BY <1>1, <1>4, <2>4 DEF OnboardingInv, TypeOK
    <3>2. QED
      BY <1>1, <1>4, <2>1, <2>4, <2>8, <2>9, <3>1 DEF TypeOK, Shown, Carried
  <2>11. Orderly'
    <3>1. ASSUME NEW t \in Sessions
          PROVE  /\ stage'[t] \in Early => presented'[t] = Nobody
                 /\ presented'[t] # Nobody =>
                       presented'[t].owner = Alone("first") \/ "rotate" \in faults'
                 /\ stage'[t] = "landed" => RowExists'
                 /\ stage'[t] = "dead" /\ presented'[t] # Nobody => temp' = t
                 /\ stage'[t] \in {"linked", "done"} => final' = t
                 /\ final' = t => stage'[t] \in {"linked", "done", "failed", "dead"}
      <4>1. CASE t = s
        BY <1>1, <1>2, <2>2, <2>3, <2>4, <4>1 DEF OnboardingInv, Orderly, Early
      <4>2. CASE t # s
        BY <1>1, <1>4, <2>3, <2>4, <4>2 DEF OnboardingInv, Orderly, RowExists
      <4>3. QED
        BY <4>1, <4>2
    <3>2. QED
      BY <1>1, <3>1 DEF OnboardingInv, Orderly
  <2>12. AsRequested' /\ ActiveKeyIsOnChain'
    BY <1>1 DEF OnboardingInv, AsRequested, CompanionTook, ActiveKeyIsOnChain, AccountExists,
                RowExists
  <2>13. NoneGaveUp'
    BY <1>1, <2>3, <2>4 DEF OnboardingInv, NoneGaveUp, AccountExists
  <2>14. QED
    BY <2>7, <2>10, <2>11, <2>12, <2>13 DEF OnboardingInv
<1>5. QED
  BY <1>3, <1>4 DEF Present

-----------------------------------------------------------------------------
\* A step of the chain or of the page leaves the sessions where they are.
LEMMA SessionsStand ==
    ASSUME OnboardingInv, FaultsGrow, UNCHANGED <<stage, temp, final, presented, authorityKey>>,
           RowExists => RowExists'
    PROVE  /\ Orderly' /\ Shown'
           /\ faults' \subseteq Faults
           /\ stage' \in [Sessions -> Stages] /\ temp' \in Sessions \cup {Nobody}
           /\ final' \in Keys /\ authorityKey' \in {"first", "second"}
           /\ \A s \in Sessions :
                 stage'[s] \in {"sealed", "waiting", "landed", "linked"} => temp' = s
<1>1. UNCHANGED Permission
  BY DEF FaultsGrow, Permission
<1>2. Shown'
  BY <1>1 DEF OnboardingInv, TypeOK, Shown
<1>3. Orderly'
  BY DEF OnboardingInv, Orderly, FaultsGrow
<1>4. QED
  BY <1>2, <1>3 DEF OnboardingInv, TypeOK, FaultsGrow

\* A request that lands was some session's, perhaps changed; the chain then
\* holds what it says.
LEMMA LandsKeeps ==
    ASSUME OnboardingInv, NEW s \in Sessions, NEW r \in Copies(s), NEW companion \in BOOLEAN,
           Lands(s, r, companion), companion => CompanionTook(r),
           page' = page \/ page' = Nobody
    PROVE  OnboardingInv'
<1>1. /\ ~AccountExists
      /\ account' = [request |-> r, companion |-> companion, active |-> r.active]
      /\ UNCHANGED <<stage, temp, final, presented, authorityKey>>
      /\ IF stage[s] \in {"waiting", "dead"} THEN Sound ELSE Fault("late")
  BY DEF Lands
<1>2. row' = IF Registers(r)
             THEN [authority |-> r.creator, permission |-> r.permission, policy |-> r.policy]
             ELSE row
  BY DEF Lands, Registers
<1>3. FaultsGrow
  BY <1>1, FaultsOfStep DEF AllFaults
<1>4. ~RowExists
  BY <1>1 DEF OnboardingInv, TypeOK
<1>5. r \in Requests /\ \A t \in Sessions : r.active = Alone(t) => t = s
  BY CopiesType DEF OnboardingInv
<1>6. account' \in Accounts /\ AccountExists'
  <2>1. account' \in Accounts
    BY <1>1, <1>5 DEF Accounts, Requests
  <2>2. QED
    BY <2>1, NobodyIsNothing DEF AccountExists
<1>7. /\ Registers(r) => row' \in Rows /\ RowExists'
      /\ ~Registers(r) => ~RowExists'
  <2>1. ASSUME Registers(r) PROVE row' \in Rows
    BY <1>2, <1>5, <2>1 DEF Rows, Requests
  <2>2. QED
    BY <1>2, <1>4, <2>1, NobodyIsNothing DEF RowExists
<1>8. account'.request = r /\ account'.active = r.active /\ account'.companion = companion
  BY <1>1
<1>9. Shapes'
  BY <1>1, <1>6, <1>7 DEF OnboardingInv, Shapes, AccountExists
<1>10. Carried'
  <2>1. \A t : UNCHANGED Copies(t)
    BY <1>1 DEF Copies
  <2>2. (page # Nobody => page.request \in Copies(page.session))'
    BY <1>1 DEF OnboardingInv, TypeOK, Copies
  <2>3. (\E t \in Sessions : account.request \in Copies(t))'
    BY <1>8, <2>1
  <2>4. QED
    BY <1>6, <2>2, <2>3 DEF Carried
<1>11. TypeOK' /\ Orderly'
  <2>1. /\ Orderly' /\ Shown'
        /\ faults' \subseteq Faults
        /\ stage' \in [Sessions -> Stages] /\ temp' \in Sessions \cup {Nobody}
        /\ final' \in Keys /\ authorityKey' \in {"first", "second"}
        /\ \A t \in Sessions :
              stage'[t] \in {"sealed", "waiting", "landed", "linked"} => temp' = t
    BY <1>1, <1>3, <1>4, SessionsStand
  <2>2. QED
    BY <1>10, <2>1 DEF TypeOK, Shown, Carried
<1>12. AsRequested'
  <2>1. companion => CompanionTook(r)'
    BY <1>3 DEF CompanionTook, FaultsGrow
  <2>2. (page # Nobody => CompanionTook(page.request))'
    BY <1>3 DEF OnboardingInv, AsRequested, CompanionTook, FaultsGrow
  <2>3. Registers(r) => /\ row'.authority = r.creator /\ row'.permission = r.permission
                        /\ row'.policy = r.policy
    BY <1>2
  <2>4. (account.companion => CompanionTook(account.request))'
    BY <1>8, <2>1 DEF CompanionTook, Registers
  <2>5. (RowExists <=> Registers(account.request))'
    BY <1>7, <1>8 DEF Registers
  <2>6. QED
    BY <1>6, <1>7, <1>8, <2>2, <2>3, <2>4, <2>5 DEF AsRequested
<1>13. ActiveKeyIsOnChain'
  BY <1>1 DEF OnboardingInv, ActiveKeyIsOnChain
<1>14. NoneGaveUp'
  <2>1. SUFFICES ASSUME faults' \subseteq {"crash"}, NEW t \in Sessions, r = presented[t]
                 PROVE  stage[t] # "failed"
    BY <1>1, <1>8 DEF NoneGaveUp
  <2>2. stage[s] \in {"waiting", "dead"}
    BY <1>1, <2>1 DEF Fault
  <2>3. t = s
    <3>1. presented[t] # Nobody
      BY <1>5, <2>1, NobodyIsNothing
    <3>2. PICK k \in {"first", "second"} : presented[t] = Built(t, k, Permission)
      BY <3>1 DEF OnboardingInv, TypeOK
    <3>3. r.active = Alone(t)
      BY <2>1, <3>2, BuiltType
    <3>4. QED
      BY <1>5, <3>3
  <2>4. QED
    BY <2>2, <2>3
<1>15. QED
  BY <1>9, <1>11, <1>12, <1>13, <1>14 DEF OnboardingInv

\* Signing in a wallet, with or without the companion.
LEMMA SigningKeeps ==
    ASSUME OnboardingInv, (\E s \in Sessions : WalletSigns(s)) \/ CompanionSigns
    PROVE  OnboardingInv'
<1>1. CASE \E s \in Sessions : WalletSigns(s)
  <2>1. PICK s \in Sessions : \E r \in Copies(s) : Lands(s, r, FALSE) /\ page' = page
    BY <1>1 DEF WalletSigns
  <2>2. QED
    BY <2>1, LandsKeeps
<1>2. CASE CompanionSigns
  <2>1. /\ page # Nobody /\ page' = Nobody
        /\ page.session \in Sessions /\ page.request \in Copies(page.session)
        /\ CompanionTook(page.request)
    BY <1>2 DEF CompanionSigns, OnboardingInv, TypeOK, Shapes, AsRequested
  <2>2. CASE Lands(page.session, page.request, TRUE)
    BY <2>1, <2>2, LandsKeeps
  <2>3. CASE Sound /\ UNCHANGED <<stage, temp, final, presented, authorityKey, account, row>>
    <3>1. FaultsGrow /\ faults' = faults
      BY <2>3, FaultsOfStep
    <3>2. Shapes' /\ AsRequested' /\ Carried'
      BY <2>1, <2>3, <3>1 DEF OnboardingInv, Shapes, AsRequested, CompanionTook, TypeOK, Carried,
                              Copies, AccountExists, RowExists
    <3>3. TypeOK' /\ Orderly'
      <4>1. RowExists => RowExists'
        BY <2>3 DEF RowExists
      <4>2. /\ Orderly' /\ Shown'
            /\ faults' \subseteq Faults
            /\ stage' \in [Sessions -> Stages] /\ temp' \in Sessions \cup {Nobody}
            /\ final' \in Keys /\ authorityKey' \in {"first", "second"}
            /\ \A t \in Sessions :
                  stage'[t] \in {"sealed", "waiting", "landed", "linked"} => temp' = t
        BY <2>3, <3>1, <4>1, SessionsStand
      <4>3. QED
        BY <3>2, <4>2 DEF TypeOK, Shown, Carried
    <3>4. ActiveKeyIsOnChain' /\ NoneGaveUp'
      BY <2>3, <3>1 DEF OnboardingInv, ActiveKeyIsOnChain, NoneGaveUp, AccountExists, RowExists
    <3>5. QED
      BY <3>2, <3>3, <3>4 DEF OnboardingInv
  <2>4. QED
    BY <1>2, <2>2, <2>3 DEF CompanionSigns, chain
<1>3. QED
  BY <1>1, <1>2

\* The page accepts a request for one that registers the agent for its user.
LEMMA CompanionAsksKeeps ==
    ASSUME OnboardingInv, NEW s \in Sessions, CompanionAsks(s)
    PROVE  OnboardingInv'
<1>1. PICK r \in Copies(s) : /\ CompanionAccepts(r, AccountExists, authorityKey)
                             /\ page' = [session |-> s, request |-> r]
  BY DEF CompanionAsks
<1>2. /\ faults' = faults /\ FaultsGrow
      /\ UNCHANGED <<stage, temp, final, presented, authorityKey, account, row>>
  BY FaultsOfStep DEF CompanionAsks, chain
<1>3. r \in Requests
  BY CopiesType DEF OnboardingInv
<1>4. CompanionTook(r)
  <2>1. /\ r.contract = "ours" /\ r.active.alone /\ r.owner.alone
        /\ r.policy = "empty" /\ r.owner.key = authorityKey /\ r.creator = "authority"
    BY <1>1 DEF CompanionAccepts, Validates
  <2>2. PICK ram \in BOOLEAN : r.actions = Actions(ram)
    BY <1>1 DEF CompanionAccepts, Validates
  <2>3. r.actions[Len(r.actions)] = "createpolicy"
    BY <2>2 DEF Actions
  <2>4. authorityKey = "first" \/ "rotate" \in faults
    BY DEF OnboardingInv, Orderly
  <2>5. QED
    BY <2>1, <2>3, <2>4 DEF CompanionTook, Registers
<1>5. page'.session = s /\ page'.request = r
  BY <1>1
<1>6. Shapes'
  BY <1>2, <1>3, <1>5 DEF OnboardingInv, Shapes, AccountExists, RowExists
<1>7. AsRequested'
  BY <1>2, <1>4, <1>5 DEF OnboardingInv, AsRequested, CompanionTook, Registers, AccountExists, RowExists
<1>8. Carried'
  <2>1. \A t : UNCHANGED Copies(t)
    BY <1>2 DEF Copies
  <2>2. (page.request \in Copies(page.session))'
    BY <1>2, <1>5 DEF Copies
  <2>3. QED
    BY <1>2, <2>1, <2>2 DEF OnboardingInv, TypeOK, Carried, AccountExists, RowExists
<1>9. TypeOK' /\ Orderly'
  <2>1. RowExists => RowExists'
    BY <1>2 DEF RowExists
  <2>2. /\ Orderly' /\ Shown'
        /\ faults' \subseteq Faults
        /\ stage' \in [Sessions -> Stages] /\ temp' \in Sessions \cup {Nobody}
        /\ final' \in Keys /\ authorityKey' \in {"first", "second"}
        /\ \A t \in Sessions :
              stage'[t] \in {"sealed", "waiting", "landed", "linked"} => temp' = t
    BY <1>2, <2>1, SessionsStand
  <2>3. QED
    BY <1>8, <2>2 DEF TypeOK, Shown, Carried
<1>10. ActiveKeyIsOnChain' /\ NoneGaveUp'
  BY <1>2 DEF OnboardingInv, ActiveKeyIsOnChain, NoneGaveUp, AccountExists, RowExists
<1>11. QED
  BY <1>6, <1>7, <1>9, <1>10 DEF OnboardingInv

\* What others do to the authority's key, the row and the agent's permission.
LEMMA OthersKeep ==
    ASSUME OnboardingInv, FaultsGrow, UNCHANGED <<stage, temp, final, presented, page>>,
           \/ /\ authorityKey' = "second" /\ "rotate" \in faults'
              /\ UNCHANGED <<account, row>>
           \/ /\ RowExists /\ row' = [row EXCEPT !.policy = "other"] /\ "edit" \in faults'
              /\ row.policy = "empty"
              /\ UNCHANGED <<authorityKey, account>>
           \/ /\ AccountExists /\ account' = [account EXCEPT !.active = Alone("foreign")]
              /\ "replace" \in faults'
              /\ UNCHANGED <<authorityKey, row>>
    PROVE  OnboardingInv'
<1>1. /\ AccountExists => account \in Accounts /\ account.request \in Requests
      /\ RowExists => row \in Rows
  BY DEF OnboardingInv, Shapes, Accounts
<1>2. ASSUME RowExists, row' = [row EXCEPT !.policy = "other"]
      PROVE  /\ row' \in Rows /\ row'.policy = "other"
             /\ row'.authority = row.authority /\ row'.permission = row.permission
  <2>1. \A o \in Rows : /\ [o EXCEPT !.policy = "other"] \in Rows
                        /\ [o EXCEPT !.policy = "other"].policy = "other"
                        /\ [o EXCEPT !.policy = "other"].authority = o.authority
                        /\ [o EXCEPT !.policy = "other"].permission = o.permission
    BY DEF Rows
  <2>2. QED
    BY <1>1, <1>2, <2>1
<1>3. ASSUME AccountExists, account' = [account EXCEPT !.active = Alone("foreign")]
      PROVE  /\ account' \in Accounts /\ account'.active = Alone("foreign")
             /\ account'.request = account.request /\ account'.companion = account.companion
  <2>1. Alone("foreign") \in Authorities
    BY DEF Alone, Authorities, Names
  <2>2. \A a \in Accounts : /\ [a EXCEPT !.active = Alone("foreign")] \in Accounts
                            /\ [a EXCEPT !.active = Alone("foreign")].active = Alone("foreign")
                            /\ [a EXCEPT !.active = Alone("foreign")].request = a.request
                            /\ [a EXCEPT !.active = Alone("foreign")].companion = a.companion
    BY <2>1 DEF Accounts
  <2>3. QED
    BY <1>1, <1>3, <2>2
\* The account and the row that result, whichever of the three it was.
<1>4. /\ AccountExists' <=> AccountExists
      /\ AccountExists => /\ account' \in Accounts
                          /\ account'.request = account.request
                          /\ account'.companion = account.companion
                          /\ \/ account'.active = account.active
                             \/ account'.active = Alone("foreign") /\ "replace" \in faults'
      /\ RowExists' <=> RowExists
      /\ RowExists => /\ row' \in Rows
                      /\ row'.authority = row.authority /\ row'.permission = row.permission
                      /\ \/ row'.policy = row.policy
                         \/ row'.policy = "other" /\ "edit" \in faults'
      /\ authorityKey' \in {"first", "second"}
      /\ authorityKey' = authorityKey \/ "rotate" \in faults'
  <2>1. CASE authorityKey' = "second" /\ "rotate" \in faults' /\ UNCHANGED <<account, row>>
    BY <1>1, <2>1 DEF AccountExists, RowExists
  <2>2. CASE /\ RowExists /\ row' = [row EXCEPT !.policy = "other"] /\ "edit" \in faults'
             /\ UNCHANGED <<authorityKey, account>>
    BY <1>1, <1>2, <2>2, NobodyIsNothing DEF OnboardingInv, TypeOK, AccountExists, RowExists
  <2>3. CASE /\ AccountExists /\ account' = [account EXCEPT !.active = Alone("foreign")]
             /\ "replace" \in faults' /\ UNCHANGED <<authorityKey, row>>
    BY <1>1, <1>3, <2>3, NobodyIsNothing DEF OnboardingInv, TypeOK, AccountExists, RowExists
  <2>4. QED
    BY <2>1, <2>2, <2>3
<1>5. Shapes'
  BY <1>4 DEF OnboardingInv, Shapes
<1>6. UNCHANGED Permission /\ \A t : UNCHANGED Copies(t)
  BY DEF FaultsGrow, Permission, Copies
<1>7. Orderly'
  <2>1. (authorityKey = "first" \/ "rotate" \in faults)'
    BY <1>4 DEF OnboardingInv, Orderly, FaultsGrow
  <2>2. QED
    BY <1>4, <2>1 DEF OnboardingInv, Orderly, FaultsGrow
<1>8. TypeOK'
  <2>1. Shown'
    BY <1>6 DEF OnboardingInv, TypeOK, Shown
  <2>2. (page # Nobody => page.request \in Copies(page.session))'
    BY DEF OnboardingInv, TypeOK, Copies
  <2>3. AccountExists' => (\E t \in Sessions : account.request \in Copies(t))'
    BY <1>4, <1>6 DEF OnboardingInv, TypeOK
  <2>4. RowExists' => AccountExists'
    BY <1>4 DEF OnboardingInv, TypeOK
  <2>5. /\ faults' \subseteq Faults
        /\ stage' \in [Sessions -> Stages] /\ temp' \in Sessions \cup {Nobody}
        /\ final' \in Keys
        /\ \A t \in Sessions :
              stage'[t] \in {"sealed", "waiting", "landed", "linked"} => temp' = t
    BY DEF OnboardingInv, TypeOK, FaultsGrow
  <2>6. QED
    BY <1>4, <2>1, <2>2, <2>3, <2>4, <2>5 DEF TypeOK, Shown
<1>9. AsRequested'
  <2>1. (page # Nobody => CompanionTook(page.request))'
    BY DEF OnboardingInv, AsRequested, CompanionTook, FaultsGrow
  <2>2. AccountExists =>
           /\ \/ account'.active = account.request.active
              \/ "replace" \in faults' /\ account'.active = Alone("foreign")
           /\ RowExists <=> Registers(account.request)
           /\ (account.companion /\ CompanionTook(account.request)) \/ ~account.companion
    BY <1>4 DEF OnboardingInv, AsRequested, FaultsGrow
  <2>3. AccountExists => (Registers(account.request)' <=> Registers(account.request))
    BY <1>4 DEF Registers
  <2>4. AccountExists /\ account.companion => CompanionTook(account.request)'
    BY <1>4, <2>2 DEF CompanionTook, Registers, FaultsGrow
  <2>5. RowExists =>
           /\ AccountExists
           /\ row.authority = account.request.creator
           /\ row.permission = account.request.permission
           /\ \/ row.policy = account.request.policy
              \/ "edit" \in faults' /\ row.policy = "other"
    BY DEF OnboardingInv, AsRequested, FaultsGrow
  <2>6. QED
    BY <1>4, <2>1, <2>2, <2>3, <2>4, <2>5 DEF AsRequested
<1>10. ActiveKeyIsOnChain'
  BY <1>4 DEF OnboardingInv, ActiveKeyIsOnChain
<1>11. NoneGaveUp'
  BY <1>4 DEF OnboardingInv, NoneGaveUp, FaultsGrow
<1>12. QED
  BY <1>5, <1>7, <1>8, <1>9, <1>10, <1>11 DEF OnboardingInv

-----------------------------------------------------------------------------
LEMMA OnboardingStart == Init => OnboardingInv
<1> SUFFICES ASSUME Init PROVE OnboardingInv
  OBVIOUS
<1>1. /\ faults \in SUBSET (Faults \cap {"reuse", "custom"})
      /\ stage = [s \in Sessions |-> "authority"] /\ temp = Nobody
      /\ final = IF "reuse" \in faults THEN OldKey ELSE Nobody
      /\ presented = [s \in Sessions |-> Nobody] /\ authorityKey = "first"
      /\ page = Nobody /\ ~AccountExists /\ ~RowExists
  BY DEF Init, AccountExists, RowExists
<1>2. TypeOK
  BY <1>1 DEF TypeOK, Stages, Keys
<1>3. Shapes /\ AsRequested
  BY <1>1 DEF Shapes, AsRequested
<1>4. Orderly
  BY <1>1, OnboardingAssumption, NobodyIsNothing DEF Orderly
<1>5. ActiveKeyIsOnChain
  BY <1>1, OnboardingAssumption DEF ActiveKeyIsOnChain
<1>6. NoneGaveUp
  BY <1>1 DEF NoneGaveUp
<1>7. QED
  BY <1>2, <1>3, <1>4, <1>5, <1>6 DEF OnboardingInv

LEMMA OnboardingStep == OnboardingInv /\ [Next]_vars => OnboardingInv'
<1> SUFFICES ASSUME OnboardingInv, [Next]_vars PROVE OnboardingInv'
  OBVIOUS
<1>1. ASSUME NEW s \in Sessions, CheckAuthority(s) \/ CheckAccount(s) \/ CheckRow(s)
      PROVE  OnboardingInv'
  BY <1>1, ReadsKeep
<1>2. ASSUME NEW s \in Sessions, Seal(s) \/ Present(s) PROVE OnboardingInv'
  BY <1>2, SealKeeps, PresentKeeps
<1>3. ASSUME NEW s \in Sessions, PollFindsRow(s) \/ TimeOut(s) PROVE OnboardingInv'
  BY <1>3, WaitingKeeps
<1>4. ASSUME NEW s \in Sessions, VerifyAndLink(s) \/ VerifyOrLinkFails(s) PROVE OnboardingInv'
  BY <1>4, LinkKeeps, FailedVerificationKeeps
<1>5. ASSUME NEW s \in Sessions, Unlink(s) \/ Crash(s) PROVE OnboardingInv'
  BY <1>5, UnlinkKeeps, CrashKeeps
<1>6. CASE (\E s \in Sessions : WalletSigns(s)) \/ CompanionSigns
  BY <1>6, SigningKeeps
<1>7. ASSUME NEW s \in Sessions, CompanionAsks(s) PROVE OnboardingInv'
  BY <1>7, CompanionAsksKeeps
<1>8. CASE AuthorityRotates
  <2>1. FaultsGrow /\ "rotate" \in faults'
    BY <1>8, FaultsOfStep DEF AuthorityRotates, AllFaults
  <2>2. QED
    BY <1>8, <2>1, OthersKeep DEF AuthorityRotates
<1>9. CASE PolicyEdited
  <2>1. FaultsGrow /\ "edit" \in faults'
    BY <1>9, FaultsOfStep DEF PolicyEdited, AllFaults
  <2>2. QED
    BY <1>9, <2>1, OthersKeep DEF PolicyEdited
<1>10. CASE UNCHANGED vars
  <2>1. /\ UNCHANGED <<faults, stage, temp, final, presented, authorityKey, page, account, row>>
        /\ faults \subseteq Faults
    BY <1>10 DEF vars, OnboardingInv, TypeOK
  <2>2. FaultsGrow
    BY <2>1 DEF FaultsGrow
  <2>3. Shapes' /\ AsRequested' /\ Carried'
    BY <2>1, <2>2, ChainStands
  <2>4. RowExists => RowExists'
    BY <2>1 DEF RowExists
  <2>5. TypeOK' /\ Orderly'
    <3>1. /\ Orderly' /\ Shown'
          /\ faults' \subseteq Faults
          /\ stage' \in [Sessions -> Stages] /\ temp' \in Sessions \cup {Nobody}
          /\ final' \in Keys /\ authorityKey' \in {"first", "second"}
          /\ \A t \in Sessions :
                stage'[t] \in {"sealed", "waiting", "landed", "linked"} => temp' = t
      BY <2>1, <2>2, <2>4, SessionsStand
    <3>2. QED
      BY <2>3, <3>1 DEF TypeOK, Shown, Carried
  <2>6. ActiveKeyIsOnChain' /\ NoneGaveUp'
    BY <2>1 DEF OnboardingInv, ActiveKeyIsOnChain, NoneGaveUp, AccountExists, RowExists
  <2>7. QED
    BY <2>3, <2>5, <2>6 DEF OnboardingInv
<1>11. QED
  BY <1>1, <1>2, <1>3, <1>4, <1>5, <1>6, <1>7, <1>8, <1>9, <1>10 DEF Next

-----------------------------------------------------------------------------
\* The key of a request that landed as built is in one of the two containers.
LEMMA KeyIsKept == OnboardingInv => KeyKept
<1> SUFFICES ASSUME OnboardingInv, faults \subseteq {"crash"}, NEW s \in Sessions,
                    AccountExists, account.request = presented[s]
             PROVE  s \in {temp, final}
  BY DEF KeyKept, KeyNotLost
<1>1. presented[s] # Nobody
  BY NobodyIsNothing DEF OnboardingInv, Shapes, Accounts
<1>2. stage[s] \in Stages /\ stage[s] \notin Early /\ stage[s] # "failed"
  BY <1>1 DEF OnboardingInv, TypeOK, Orderly, NoneGaveUp
<1>3. stage[s] \in {"waiting", "landed", "linked", "done", "dead"}
  BY <1>2 DEF Stages, Early
<1>4. QED
  BY <1>1, <1>3 DEF OnboardingInv, TypeOK, Orderly

\* What the companion let pass verifies.
LEMMA CompanionAgrees == OnboardingInv => CompanionAgreesWithCli
<1> SUFFICES ASSUME OnboardingInv, NEW s \in Sessions,
                    AccountExists, account.companion,
                    account.request.active.key = s, account.request.permission = "active",
                    faults \cap {"custom", "rotate", "edit", "replace"} = {}
             PROVE  Verified(s)
  BY DEF CompanionAgreesWithCli
<1>1. /\ "custom" \notin faults /\ "rotate" \notin faults
      /\ "edit" \notin faults /\ "replace" \notin faults
  OBVIOUS
<1>2. CompanionTook(account.request) /\ RowExists /\ account.active = account.request.active
  BY <1>1 DEF OnboardingInv, AsRequested, CompanionTook
<1>3. /\ row.authority = "authority" /\ row.permission = "active" /\ row.policy = "empty"
      /\ account.request.owner.key = "first"
  BY <1>1, <1>2 DEF OnboardingInv, AsRequested, CompanionTook
<1>4. authorityKey = "first" /\ Permission = "active"
  BY <1>1 DEF OnboardingInv, Orderly, Permission
<1>5. QED
  BY <1>2, <1>3, <1>4 DEF Verified, Verifies, AuthorizesExclusively, CompanionTook

-----------------------------------------------------------------------------
(***************************************************************************)
(* The daemon, and the key from its onboarding to its use.                 *)
(***************************************************************************)

Results == [authorized : BOOLEAN, at : Nat]
CheckStates == [stage : {"idle", "asked", "read", "answered"}, at : Nat, authorized : BOOLEAN]
DaemonStates == [stage : {"off", "unlocking", "up"}, attempt : 0 .. MaxAttempts, key : Keys]

\* A running daemon has the key that is at the path, and only a running one
\* has anything in its cache.
DaemonInv ==
    /\ clock \in 0 .. MaxClock
    /\ daemon \in DaemonStates
    /\ daemon.stage # "off" => final # Nobody
    /\ daemon.stage = "up" => daemon.key = final
    /\ daemon.stage # "up" => entry = NoEntry /\ \A c \in Checks : check[c] = NoCheck

Replacement ==
    /\ replacedAt \in 0 .. Never
    /\ replacedAt = Never => (AccountExists => account.active = account.request.active)
    /\ replacedAt # Never =>
          AccountExists /\ account.active = Alone("foreign") /\ replacedAt <= clock

\* The permission was the daemon's key's alone when the chain answered, or the
\* node was behind by no more than its lag.
RightAt(t) ==
    /\ account.request.active = Alone(daemon.key)
    /\ replacedAt = Never \/ t <= replacedAt + HeadLag

\* What a result owes that is in the cache ...
EntryIsRight(e) ==
    /\ e \in Results /\ (e = NoEntry \/ e.at <= clock)
    /\ e.authorized => RowExists /\ RightAt(e.at)

\* ... on its way, and given to a decision.
CheckIsRight(x) ==
    /\ x \in CheckStates /\ x.at <= clock
    /\ x.stage # "idle" => RowExists
    /\ x.stage \in {"asked", "read"} => clock <= x.at + MaxLatency
    /\ x.stage = "read" /\ x.authorized => RightAt(x.at)
    /\ x.stage = "answered" /\ x.authorized =>
          /\ account.request.active = Alone(daemon.key)
          /\ replacedAt = Never \/ x.at < replacedAt + FreshnessMs + HeadLag

KeyInv ==
    /\ OnboardingInv /\ DaemonInv /\ Replacement
    /\ EntryIsRight(entry)
    /\ check \in [Checks -> CheckStates] /\ \A c \in Checks : CheckIsRight(check[c])

-----------------------------------------------------------------------------
LEMMA Numbers ==
    /\ FreshnessMs \in Nat /\ NegativeMs \in Nat /\ MaxLatency \in Nat /\ MaxClock \in Nat
    /\ HeadLag \in Nat /\ MaxLatency < FreshnessMs /\ Never \in Nat /\ Never = MaxClock + 1
    /\ NoEntry \in Results /\ ~NoEntry.authorized
    /\ NoCheck \in CheckStates /\ NoCheck.stage = "idle" /\ NoCheck.at = 0
    /\ MaxAttempts \in Nat /\ MaxAttempts >= 1
  BY AuthorityCacheAssumption, AgentKeyAssumption DEF Never, NoEntry, NoCheck, Results, CheckStates

\* An empty cache owes nothing.
LEMMA EmptyIsRight ==
    ASSUME clock \in Nat
    PROVE  EntryIsRight(NoEntry) /\ CheckIsRight(NoCheck)
  BY Numbers DEF EntryIsRight, CheckIsRight

LEMMA KeyStart == KeyInit => KeyInv
<1> SUFFICES ASSUME KeyInit PROVE KeyInv
  OBVIOUS
<1>1. /\ Init /\ clock = 0 /\ entry = NoEntry /\ check = [c \in Checks |-> NoCheck]
      /\ daemon = Off /\ replacedAt = Never
  BY DEF KeyInit, CacheInit
<1>2. OnboardingInv
  BY <1>1, OnboardingStart
<1>3. DaemonInv
  <2>1. Off \in DaemonStates /\ Off.stage = "off"
    BY Numbers DEF Off, DaemonStates, Keys
  <2>2. QED
    BY <1>1, <2>1, Numbers DEF DaemonInv
<1>4. Replacement
  BY <1>1, Numbers DEF Replacement, Init, AccountExists
<1>5. /\ EntryIsRight(entry) /\ check \in [Checks -> CheckStates]
      /\ \A c \in Checks : CheckIsRight(check[c])
  BY <1>1, EmptyIsRight, Numbers
<1>6. QED
  BY <1>2, <1>3, <1>4, <1>5 DEF KeyInv

-----------------------------------------------------------------------------
\* Once there, a key at the path, an account and a row stay, and an account is
\* born with the permission of its request.
LEMMA OnboardingRatchets ==
    ASSUME OnboardingInv, Next
    PROVE  /\ final # Nobody => final' = final
           /\ AccountExists => account' = account
           /\ RowExists => RowExists'
           /\ AccountExists' => AccountExists \/ account'.active = account'.request.active
<1>1. ASSUME NEW s \in Sessions, \/ CheckAuthority(s) \/ CheckAccount(s) \/ CheckRow(s)
                                 \/ Seal(s) \/ Present(s) \/ PollFindsRow(s) \/ TimeOut(s)
                                 \/ VerifyOrLinkFails(s) \/ Unlink(s) \/ Crash(s)
                                 \/ CompanionAsks(s)
      PROVE  UNCHANGED <<final, account, row>>
  BY <1>1 DEF CheckAuthority, CheckAccount, CheckRow, Seal, Present, PollFindsRow, TimeOut,
              VerifyOrLinkFails, Unlink, Crash, CompanionAsks, chain
<1>2. ASSUME NEW s \in Sessions, VerifyAndLink(s)
      PROVE  final = Nobody /\ UNCHANGED <<account, row>>
  BY <1>2 DEF VerifyAndLink, chain
<1>3. ASSUME NEW s, NEW r, NEW companion, Lands(s, r, companion)
      PROVE  /\ ~AccountExists /\ ~RowExists /\ UNCHANGED final
             /\ account'.active = account'.request.active
  BY <1>3 DEF Lands, OnboardingInv, TypeOK
<1>4. CASE AuthorityRotates
  BY <1>4 DEF AuthorityRotates, AccountExists, RowExists
<1>5. CASE PolicyEdited
  <2>1. /\ UNCHANGED <<final, account>> /\ RowExists
        /\ row' = [row EXCEPT !.policy = "other"] /\ row \in Rows
    BY <1>5 DEF PolicyEdited, OnboardingInv, Shapes
  <2>2. row' \in Rows
    BY <2>1 DEF Rows
  <2>3. QED
    BY <2>1, <2>2, NobodyIsNothing DEF AccountExists, RowExists
<1>6. CASE CompanionSigns
  BY <1>3, <1>6 DEF CompanionSigns, chain, AccountExists, RowExists
<1>7. ASSUME NEW s \in Sessions, WalletSigns(s)
      PROVE  \E r : Lands(s, r, FALSE)
  BY <1>7 DEF WalletSigns
<1>8. QED
  BY <1>1, <1>2, <1>3, <1>4, <1>5, <1>6, <1>7 DEF Next, AccountExists, RowExists

LEMMA OnboardingKeepsKey ==
    ASSUME KeyInv, Next, UNCHANGED <<cacheVars, daemon, replacedAt>>
    PROVE  KeyInv'
<1>1. UNCHANGED <<clock, entry, check, daemon, replacedAt>>
  BY DEF cacheVars
<1>2. OnboardingInv'
  BY OnboardingStep DEF KeyInv
<1>3. /\ final # Nobody => final' = final
      /\ AccountExists => account' = account
      /\ RowExists => RowExists'
      /\ AccountExists' => AccountExists \/ account'.active = account'.request.active
  BY OnboardingRatchets DEF KeyInv
<1>4. RowExists => AccountExists
  BY DEF KeyInv, OnboardingInv, TypeOK
<1>5. DaemonInv'
  BY <1>1, <1>3 DEF KeyInv, DaemonInv
<1>6. Replacement'
  BY <1>1, <1>3 DEF KeyInv, Replacement, AccountExists
<1>7. EntryIsRight(entry)'
  BY <1>1, <1>3, <1>4 DEF KeyInv, EntryIsRight, RightAt
<1>8. \A c \in Checks : CheckIsRight(check[c])'
  BY <1>1, <1>3, <1>4 DEF KeyInv, CheckIsRight, RightAt
<1>9. QED
  BY <1>1, <1>2, <1>5, <1>6, <1>7, <1>8 DEF KeyInv

\* The daemon starts with what is at the path, and stops with an empty cache.
LEMMA DaemonKeepsKey ==
    ASSUME KeyInv, Start \/ WrongPassphrase \/ Unlock \/ StartFails \/ Stop
    PROVE  KeyInv'
<1>1. UNCHANGED vars /\ UNCHANGED <<clock, replacedAt>>
  BY DEF Start, WrongPassphrase, Unlock, StartFails, Stop, cacheVars
<1>2. OnboardingInv' /\ UNCHANGED <<final, account, row>>
  BY <1>1, OnboardingStep DEF KeyInv, vars
<1>3. /\ clock \in Nat /\ clock' = clock /\ final \in Keys /\ daemon \in DaemonStates
      /\ Off \in DaemonStates /\ Off.stage = "off"
  BY <1>1, Numbers DEF KeyInv, DaemonInv, OnboardingInv, TypeOK, Off, DaemonStates, Keys
<1>4. daemon' \in DaemonStates
  <2>1. CASE Start
    <3>1. daemon' = [stage |-> "unlocking", attempt |-> 1, key |-> Nobody]
      BY <2>1 DEF Start, Off
    <3>2. QED
      BY <3>1, Numbers DEF DaemonStates, Keys
  <2>2. CASE WrongPassphrase
    <3>1. ASSUME daemon.attempt < MaxAttempts
          PROVE  [daemon EXCEPT !.attempt = @ + 1] \in DaemonStates
      <4>1. \A d \in DaemonStates : d.attempt < MaxAttempts =>
               [d EXCEPT !.attempt = d.attempt + 1] \in DaemonStates
        BY Numbers DEF DaemonStates
      <4>2. QED
        BY <1>3, <3>1, <4>1
    <3>2. daemon' = Off \/ (daemon.attempt < MaxAttempts
                              /\ daemon' = [daemon EXCEPT !.attempt = @ + 1])
      BY <2>2 DEF WrongPassphrase
    <3>3. QED
      BY <1>3, <3>1, <3>2
  <2>3. CASE Unlock
    BY <1>3, <2>3, Numbers DEF Unlock, DaemonStates
  <2>4. CASE StartFails \/ Stop
    BY <1>3, <2>4 DEF StartFails, Stop
  <2>5. QED
    BY <2>1, <2>2, <2>3, <2>4
<1>5. /\ entry' = NoEntry /\ check' = [c \in Checks |-> NoCheck]
      /\ daemon'.stage # "off" => final # Nobody
      /\ daemon'.stage = "up" => daemon'.key = final
  <2>1. CASE Start
    BY <2>1 DEF Start, Off, KeyInv, DaemonInv, cacheVars
  <2>2. CASE WrongPassphrase
    BY <1>3, <2>2 DEF WrongPassphrase, KeyInv, DaemonInv, DaemonStates, Off, cacheVars
  <2>3. CASE Unlock
    BY <2>3 DEF Unlock, KeyInv, DaemonInv, cacheVars
  <2>4. CASE StartFails
    BY <2>4 DEF StartFails, KeyInv, DaemonInv, Off, cacheVars
  <2>5. CASE Stop
    BY <2>5 DEF Stop, Off
  <2>6. QED
    BY <2>1, <2>2, <2>3, <2>4, <2>5
<1>6. DaemonInv'
  BY <1>1, <1>2, <1>4, <1>5 DEF KeyInv, DaemonInv
<1>7. Replacement'
  BY <1>1, <1>2 DEF KeyInv, Replacement, AccountExists
<1>8. EntryIsRight(entry)' /\ \A c \in Checks : CheckIsRight(check[c])'
  BY <1>3, <1>5, Numbers DEF EntryIsRight, CheckIsRight
<1>9. check' \in [Checks -> CheckStates]
  BY <1>5, Numbers
<1>10. QED
  BY <1>2, <1>6, <1>7, <1>8, <1>9 DEF KeyInv

-----------------------------------------------------------------------------
\* The owner gives the permission away now, no result is younger.
LEMMA ReplacementKeeps ==
    ASSUME KeyInv, KeyReplaced
    PROVE  KeyInv'
<1>1. /\ AccountExists /\ replacedAt = Never /\ replacedAt' = clock
      /\ account' = [account EXCEPT !.active = Alone("foreign")] /\ Fault("replace")
      /\ UNCHANGED <<stage, temp, final, presented, authorityKey, page, row,
                     clock, entry, check, daemon>>
  BY DEF KeyReplaced, cacheVars
<1>2. FaultsGrow /\ "replace" \in faults'
  BY <1>1, FaultsOfStep DEF KeyInv, AllFaults
<1>3. OnboardingInv'
  BY <1>1, <1>2, OthersKeep DEF KeyInv
<1>4. /\ account \in Accounts /\ clock \in 0 .. MaxClock
      /\ account'.active = Alone("foreign") /\ account'.request = account.request
  <2>1. account \in Accounts
    BY <1>1 DEF KeyInv, OnboardingInv, Shapes
  <2>2. \A a \in Accounts : /\ [a EXCEPT !.active = Alone("foreign")].active = Alone("foreign")
                            /\ [a EXCEPT !.active = Alone("foreign")].request = a.request
    BY DEF Accounts
  <2>3. QED
    BY <1>1, <2>1, <2>2 DEF KeyInv, DaemonInv
<1>5. AccountExists'
  <2>1. Alone("foreign") \in Authorities
    BY DEF Alone, Authorities, Names
  <2>2. account' \in Accounts
    BY <1>1, <1>4, <2>1 DEF Accounts
  <2>3. QED
    BY <2>2, NobodyIsNothing DEF AccountExists
<1>6. DaemonInv'
  BY <1>1 DEF KeyInv, DaemonInv
<1>7. Replacement'
  BY <1>1, <1>4, <1>5, Numbers DEF Replacement
<1>8. EntryIsRight(entry)'
  <2>1. entry.authorized => entry.at <= clock + HeadLag /\ entry # NoEntry
    BY <1>4, Numbers DEF KeyInv, EntryIsRight, Results
  <2>2. QED
    BY <1>1, <1>4, <2>1 DEF KeyInv, EntryIsRight, RightAt, RowExists
<1>9. ASSUME NEW c \in Checks PROVE CheckIsRight(check[c])'
  <2>1. CheckIsRight(check[c]) /\ check[c].at \in Nat
    BY DEF KeyInv, CheckStates
  <2>2. check[c].at <= clock + HeadLag /\ check[c].at < clock + FreshnessMs + HeadLag
    BY <1>4, <2>1, Numbers DEF CheckIsRight
  <2>3. QED
    BY <1>1, <1>4, <2>1, <2>2 DEF CheckIsRight, RightAt, RowExists
<1>10. QED
  BY <1>1, <1>3, <1>6, <1>7, <1>8, <1>9 DEF KeyInv

\* A step of a check of a running daemon.
LEMMA CheckBecomes ==
    ASSUME KeyInv, NEW c \in Checks, daemon.stage = "up", NEW x, CheckIsRight(x),
           check' = [check EXCEPT ![c] = x], EntryIsRight(entry'),
           UNCHANGED <<vars, daemon, replacedAt, clock>>
    PROVE  KeyInv'
<1>1. /\ UNCHANGED <<faults, stage, temp, final, presented, authorityKey, page, account, row>>
      /\ OnboardingInv'
  BY OnboardingStep DEF KeyInv, vars
<1>2. x \in CheckStates
  BY DEF CheckIsRight
<1>3. check' \in [Checks -> CheckStates] /\ \A d \in Checks : check'[d] = x \/ check'[d] = check[d]
  BY <1>2 DEF KeyInv
<1>4. \A d \in Checks : CheckIsRight(check'[d])
  BY <1>3 DEF KeyInv
<1>5. (\A d \in Checks : CheckIsRight(check[d]))' /\ EntryIsRight(entry)'
  BY <1>1, <1>4 DEF CheckIsRight, EntryIsRight, RightAt, RowExists
<1>6. DaemonInv' /\ Replacement'
  BY <1>1 DEF KeyInv, DaemonInv, Replacement, AccountExists
<1>7. QED
  BY <1>1, <1>3, <1>5, <1>6 DEF KeyInv

\* A positive answer that is younger than the freshness.
LEMMA AnswerIsRight ==
    ASSUME KeyInv, RowExists, NEW t \in Nat, RightAt(t), clock < t + FreshnessMs
    PROVE  CheckIsRight([stage |-> "answered", at |-> clock, authorized |-> TRUE])
<1> DEFINE x == [stage |-> "answered", at |-> clock, authorized |-> TRUE]
<1>1. clock \in Nat /\ replacedAt \in Nat
  BY Numbers DEF KeyInv, DaemonInv, Replacement
<1>2. x \in CheckStates /\ x.stage = "answered" /\ x.at = clock
  BY <1>1 DEF CheckStates
<1>3. replacedAt = Never \/ clock < replacedAt + FreshnessMs + HeadLag
  BY <1>1, Numbers DEF RightAt
<1> HIDE DEF x
<1>4. account.request.active = Alone(daemon.key)
  BY DEF RightAt
<1>5. QED
  BY <1>1, <1>2, <1>3, <1>4 DEF CheckIsRight, x

\* What the chain says is right: of a node that is behind, as of the lag.
LEMMA ChainIsRight ==
    ASSUME KeyInv, NEW c \in Checks, RowExists, daemon.stage = "up",
           TRUE \in Resolutions(c)
    PROVE  RightAt(check[c].at)
<1>1. /\ AccountExists /\ account \in Accounts /\ account.request \in Requests
      /\ account.active \in Authorities /\ account.request.active \in Authorities
  BY DEF KeyInv, OnboardingInv, TypeOK, Shapes, Accounts, Requests
<1>2. daemon.key \in Keys /\ daemon.key # "foreign"
  <2>1. daemon.key \in Keys
    BY DEF KeyInv, DaemonInv, DaemonStates
  <2>2. QED
    BY <2>1, NamesAssumption DEF Keys
<1>3. \A a \in Authorities : Authorizes(a) => a = Alone(daemon.key)
  BY DEF Authorizes, AuthorizesExclusively, Authorities, Alone
<1>4. check[c].at \in Nat /\ check[c].at <= clock /\ replacedAt \in Nat
  BY Numbers DEF KeyInv, CheckIsRight, CheckStates, Replacement
<1>5. CASE Authorizes(account.active)
  <2>1. account.active = Alone(daemon.key)
    BY <1>1, <1>3, <1>5
  <2>2. Alone(daemon.key) # Alone("foreign")
    BY <1>2 DEF Alone
  <2>3. replacedAt = Never
    BY <2>1, <2>2 DEF KeyInv, Replacement
  <2>4. QED
    BY <1>1, <2>1, <2>3 DEF KeyInv, Replacement, RightAt
<1>6. CASE /\ replacedAt # Never /\ check[c].at - replacedAt <= HeadLag
           /\ Authorizes(account.request.active)
  <2>1. account.request.active = Alone(daemon.key)
    BY <1>1, <1>3, <1>6
  <2>2. check[c].at <= replacedAt + HeadLag
    BY <1>4, <1>6, Numbers
  <2>3. QED
    BY <2>1, <2>2 DEF RightAt
<1>7. QED
  <2>1. ~Authorizes(account.active) =>
           /\ replacedAt # Never /\ check[c].at - replacedAt <= HeadLag
           /\ Authorizes(account.request.active)
    BY DEF Resolutions, Authorizes
  <2>2. QED
    BY <1>5, <1>6, <2>1

LEMMA CheckKeeps ==
    ASSUME KeyInv, NEW c \in Checks, Check(c) \/ ChainAnswers(c) \/ Settle(c),
           UNCHANGED <<vars, daemon, replacedAt>>
    PROVE  KeyInv'
<1>1. /\ clock \in Nat /\ check[c] \in CheckStates /\ CheckIsRight(check[c])
      /\ EntryIsRight(entry) /\ CheckIsRight(NoCheck)
  BY EmptyIsRight DEF KeyInv, DaemonInv
<1>2. CASE Check(c) /\ CheckHit(c)
  <2>1. /\ daemon.stage = "up" /\ RowExists /\ UNCHANGED <<clock, entry>> /\ Fresh(entry)
        /\ check' = [check EXCEPT ![c] =
                       IF entry.authorized
                       THEN [stage |-> "answered", at |-> clock, authorized |-> TRUE]
                       ELSE NoCheck]
    BY <1>2 DEF Check, CheckHit, Answer
  <2>2. CASE entry.authorized
    <3>1. entry.at \in Nat /\ clock < entry.at + FreshnessMs /\ RightAt(entry.at)
      BY <1>1, <2>1, <2>2, Numbers DEF Fresh, EntryIsRight, Results
    <3>2. CheckIsRight([stage |-> "answered", at |-> clock, authorized |-> TRUE])
      BY <2>1, <3>1, AnswerIsRight
    <3>3. EntryIsRight(entry')
      BY <1>1, <2>1
    <3>4. QED
      BY <2>1, <2>2, <3>2, <3>3, CheckBecomes
  <2>3. CASE ~entry.authorized
    <3>1. EntryIsRight(entry')
      BY <1>1, <2>1
    <3>2. QED
      BY <1>1, <2>1, <2>3, <3>1, CheckBecomes
  <2>4. QED
    BY <2>2, <2>3
<1>3. CASE Check(c) /\ CheckMiss(c)
  <2> DEFINE x == [stage |-> "asked", at |-> clock, authorized |-> FALSE]
  <2>1. /\ daemon.stage = "up" /\ RowExists /\ UNCHANGED <<clock, entry>>
        /\ check' = [check EXCEPT ![c] = x]
    BY <1>3 DEF Check, CheckMiss
  <2>2. x \in CheckStates
    BY <1>1 DEF CheckStates
  <2>3. CheckIsRight(x)
    BY <1>1, <2>1, <2>2, Numbers DEF CheckIsRight
  <2>4. EntryIsRight(entry')
    BY <1>1, <2>1
  <2>5. QED
    BY <2>1, <2>3, <2>4, CheckBecomes
<1>4. ASSUME c \in Checks, check[c].stage # "idle" PROVE daemon.stage = "up" /\ RowExists
  BY <1>1, <1>4, Numbers DEF KeyInv, DaemonInv, CheckIsRight
<1>5. CASE ChainAnswers(c)
  <2>1. PICK authorized \in Resolutions(c) : Resolve(c, authorized)
    BY <1>5 DEF ChainAnswers
  <2>2. /\ check[c].stage = "asked" /\ UNCHANGED <<clock, entry>>
        /\ check' = [check EXCEPT ![c].stage = "read", ![c].authorized = authorized]
    BY <2>1 DEF Resolve
  <2>3. daemon.stage = "up" /\ RowExists
    BY <1>4, <2>2
  <2>4. authorized \in BOOLEAN
    BY <2>1 DEF Resolutions, Authorizes, AuthorizesExclusively
  <2> DEFINE x == [stage |-> "read", at |-> check[c].at, authorized |-> authorized]
  <2>5. check' = [check EXCEPT ![c] = x]
    <3>1. ASSUME NEW k \in CheckStates
          PROVE  [k EXCEPT !.stage = "read", !.authorized = authorized]
                    = [stage |-> "read", at |-> k.at, authorized |-> authorized]
      <4> DEFINE y == [k EXCEPT !.stage = "read", !.authorized = authorized]
      <4>1. y \in CheckStates
        BY <2>4 DEF CheckStates
      <4>2. y.stage = "read" /\ y.at = k.at /\ y.authorized = authorized
        BY <2>4 DEF CheckStates
      <4> HIDE DEF y
      <4>3. y = [stage |-> "read", at |-> k.at, authorized |-> authorized]
        BY <4>1, <4>2 DEF CheckStates
      <4>4. QED
        BY <4>3 DEF y
    <3>2. check' = [check EXCEPT ![c] =
                      [check[c] EXCEPT !.stage = "read", !.authorized = authorized]]
      BY <2>2 DEF KeyInv
    <3>3. QED
      BY <1>1, <3>1, <3>2
  <2>6. x \in CheckStates
    BY <1>1, <2>4 DEF CheckStates
  <2>7. authorized => RightAt(check[c].at)
    BY <2>1, <2>3, <2>4, ChainIsRight
  <2>8. CheckIsRight(x)
    BY <1>1, <2>2, <2>3, <2>6, <2>7 DEF CheckIsRight
  <2>9. EntryIsRight(entry')
    BY <1>1, <2>2
  <2> HIDE DEF x
  <2>10. QED
    BY <2>2, <2>3, <2>5, <2>8, <2>9, CheckBecomes
<1>6. CASE Settle(c)
  <2> DEFINE e == [authorized |-> check[c].authorized, at |-> check[c].at]
  <2>1. /\ check[c].stage = "read" /\ UNCHANGED clock /\ entry' = e
        /\ check' = [check EXCEPT ![c] =
                       IF check[c].authorized
                       THEN [stage |-> "answered", at |-> clock, authorized |-> TRUE]
                       ELSE NoCheck]
    BY <1>6 DEF Settle, Answer
  <2>2. daemon.stage = "up" /\ RowExists
    BY <1>4, <2>1
  <2>3. /\ check[c].at \in Nat /\ check[c].at <= clock /\ clock <= check[c].at + MaxLatency
        /\ check[c].authorized => RightAt(check[c].at)
    BY <1>1, <2>1 DEF CheckIsRight, CheckStates
  <2>4. EntryIsRight(entry')
    <3>1. e \in Results /\ e.at = check[c].at /\ e.authorized = check[c].authorized
      BY <1>1 DEF CheckStates, Results
    <3>2. QED
      BY <2>1, <2>2, <2>3, <3>1 DEF EntryIsRight
  <2>5. CASE check[c].authorized
    <3>1. clock < check[c].at + FreshnessMs
      BY <1>1, <2>3, Numbers
    <3>2. CheckIsRight([stage |-> "answered", at |-> clock, authorized |-> TRUE])
      BY <2>2, <2>3, <2>5, <3>1, AnswerIsRight
    <3>3. QED
      BY <2>1, <2>2, <2>4, <2>5, <3>2, CheckBecomes
  <2>6. CASE ~check[c].authorized
    BY <1>1, <2>1, <2>2, <2>4, <2>6, CheckBecomes
  <2>7. QED
    BY <2>5, <2>6
<1>7. QED
  BY <1>2, <1>3, <1>5, <1>6 DEF Check

LEMMA TimeKeeps ==
    ASSUME KeyInv, daemon.stage = "up", Tick, UNCHANGED <<vars, daemon, replacedAt>>
    PROVE  KeyInv'
<1>1. /\ clock < MaxClock /\ clock' = clock + 1 /\ UNCHANGED <<entry, check>>
      /\ \A c \in Checks : Pending(c) => clock - check[c].at < MaxLatency
  BY DEF Tick
<1>2. /\ UNCHANGED <<faults, stage, temp, final, presented, authorityKey, page, account, row>>
      /\ OnboardingInv'
  BY OnboardingStep DEF KeyInv, vars
<1>3. clock \in 0 .. MaxClock /\ clock' \in 0 .. MaxClock /\ clock \in Nat /\ clock <= clock'
  BY <1>1, Numbers DEF KeyInv, DaemonInv
<1>4. DaemonInv'
  BY <1>1, <1>2, <1>3 DEF KeyInv, DaemonInv
<1>5. Replacement'
  <2>1. replacedAt \in Nat
    BY Numbers DEF KeyInv, Replacement
  <2>2. QED
    BY <1>2, <1>3, <2>1 DEF KeyInv, Replacement, AccountExists
<1>6. EntryIsRight(entry)'
  <2>1. entry.at \in Nat
    BY DEF KeyInv, EntryIsRight, Results
  <2>2. QED
    BY <1>1, <1>2, <1>3, <2>1 DEF KeyInv, EntryIsRight, RightAt, RowExists
<1>7. ASSUME NEW c \in Checks PROVE CheckIsRight(check[c])'
  <2>1. CheckIsRight(check[c]) /\ check[c].at \in Nat
    BY DEF KeyInv, CheckStates
  <2>2. check[c].stage \in {"asked", "read"} => clock' <= check[c].at + MaxLatency
    BY <1>1, <1>3, <2>1, Numbers DEF Pending
  <2>3. check[c].at <= clock'
    BY <1>3, <2>1 DEF CheckIsRight
  <2>4. QED
    BY <1>1, <1>2, <2>1, <2>2, <2>3 DEF CheckIsRight, RightAt, RowExists
<1>8. QED
  BY <1>1, <1>2, <1>4, <1>5, <1>6, <1>7 DEF KeyInv

LEMMA KeyStep == KeyInv /\ [KeyNext]_keyVars => KeyInv'
<1> SUFFICES ASSUME KeyInv, [KeyNext]_keyVars PROVE KeyInv'
  OBVIOUS
<1>1. CASE Next /\ UNCHANGED <<cacheVars, daemon, replacedAt>>
  BY <1>1, OnboardingKeepsKey
<1>2. CASE Start \/ WrongPassphrase \/ Unlock \/ StartFails \/ Stop
  BY <1>2, DaemonKeepsKey
<1>3. CASE KeyReplaced
  BY <1>3, ReplacementKeeps
<1>4. ASSUME NEW c \in Checks, Check(c) \/ ChainAnswers(c) \/ Settle(c),
             UNCHANGED <<vars, daemon, replacedAt>>
      PROVE  KeyInv'
  BY <1>4, CheckKeeps
<1>5. CASE daemon.stage = "up" /\ Tick /\ UNCHANGED <<vars, daemon, replacedAt>>
  BY <1>5, TimeKeeps
<1>6. CASE UNCHANGED keyVars
  <2>1. UNCHANGED <<vars, clock, entry, check, daemon, replacedAt>>
    BY <1>6 DEF keyVars, cacheVars
  <2>2. /\ UNCHANGED <<faults, stage, temp, final, presented, authorityKey, page, account, row>>
        /\ OnboardingInv'
    BY <2>1, OnboardingStep DEF KeyInv, vars
  <2>3. DaemonInv' /\ Replacement'
    BY <2>1, <2>2 DEF KeyInv, DaemonInv, Replacement, AccountExists
  <2>4. EntryIsRight(entry)' /\ (\A c \in Checks : CheckIsRight(check[c]))'
    BY <2>1, <2>2 DEF KeyInv, EntryIsRight, CheckIsRight, RightAt, RowExists
  <2>5. QED
    BY <2>1, <2>2, <2>3, <2>4 DEF KeyInv
<1>7. QED
  BY <1>1, <1>2, <1>3, <1>4, <1>5, <1>6 DEF KeyNext

LEMMA KeyInductive == KeySpec => []KeyInv
  BY KeyStart, KeyStep, PTL DEF KeySpec

-----------------------------------------------------------------------------
\* Every state is well-typed, and while a session works on the temporary
\* container it holds that session's key (encryptedFile.ts, createTemp).
THEOREM KeyTypes == KeySpec => []KeyTypeOK
<1>1. KeyInv => KeyTypeOK
  <2> SUFFICES ASSUME KeyInv PROVE KeyTypeOK
    OBVIOUS
  <2>1. TypeOK
    BY DEF KeyInv, OnboardingInv
  <2>2. CacheTypeOK
    BY DEF KeyInv, DaemonInv, EntryIsRight, CheckIsRight, CheckStates, CacheTypeOK
  <2>3. QED
    BY <2>1, <2>2 DEF KeyInv, DaemonInv, DaemonStates, Replacement, KeyTypeOK
<1>2. QED
  BY <1>1, KeyInductive, PTL

\* A session's key becomes the active one only if the chain carries that very
\* key alone, registered as asked for (flow.ts, verification after landing).
THEOREM ActiveKeysAreOnChain == KeySpec => []ActiveKeyIsOnChain
<1>1. KeyInv => ActiveKeyIsOnChain
  BY DEF KeyInv, OnboardingInv
<1>2. QED
  BY <1>1, KeyInductive, PTL

\* With sessions killed anywhere, the key of the request that landed is in one
\* of the two containers (flow.ts: "the key is never orphaned and never lost").
THEOREM KeysAreKept == KeySpec => []KeyKept
<1>1. KeyInv => KeyKept
  BY KeyIsKept DEF KeyInv
<1>2. QED
  BY <1>1, KeyInductive, PTL

\* What the companion page lets a user sign, the CLI accepts after landing
\* (validate.ts and verifyLanded in xpr/onboarding.ts).
THEOREM CompanionAndCliAgree == KeySpec => []CompanionAgreesWithCli
<1>1. KeyInv => CompanionAgreesWithCli
  BY CompanionAgrees DEF KeyInv
<1>2. QED
  BY <1>1, KeyInductive, PTL

\* The daemon is told it may sign only with the key of the account, and less
\* than the freshness and a node's lag after that key was replaced
\* (authorityCache.ts: "that TTL is the rotation-detection bound").
THEOREM AuthorizationsAreRecent == KeySpec => []AuthorizedIsRecent
<1>1. KeyInv => AuthorizedIsRecent
  BY DEF KeyInv, CheckIsRight, AuthorizedIsRecent
<1>2. QED
  BY <1>1, KeyInductive, PTL
=============================================================================
