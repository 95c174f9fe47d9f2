------------------------ MODULE SigningDaemonProofs ------------------------
(***************************************************************************)
(* For any number of agents, requests, lines and restarts: the types of    *)
(* the daemon's state, the charge of everything that can still land, the   *)
(* cap this puts on what an agent lands, and anti-replay.                  *)
(***************************************************************************)
EXTENDS SigningDaemon, FiniteSetTheorems, TLAPS

Slot == [stage : Stages, line : Lines \cup {NoLine}, token : 0 .. MaxBoots,
         signed : Signed \cup {NoTx}, answer : Answers]

-----------------------------------------------------------------------------
(* The nonce cache. *)

\* register() adds one entry, if it answers "ok", to a cache with room for it.
LEMMA RegisteredType ==
    ASSUME NEW cache \in [Nonces -> Nat], Cardinality(Entries(cache)) <= MaxEntries,
           NEW nonce \in Nonces, NEW expires \in Nat, NEW now \in Nat,
           Fresh(cache, nonce, now)
    PROVE  /\ Registered(cache, nonce, expires, now) \in [Nonces -> Nat]
           /\ Cardinality(Entries(Registered(cache, nonce, expires, now))) <= MaxEntries
<1> DEFINE kept == Swept(cache, now)
           new == Registered(cache, nonce, expires, now)
<1>1. kept \in [Nonces -> Nat]
  BY DEF Swept, Purged, Never
<1>2. new = [kept EXCEPT ![nonce] = expires] /\ new \in [Nonces -> Nat]
  BY <1>1 DEF Registered
<1>3. IsFiniteSet(Entries(kept)) /\ Cardinality(Entries(kept)) \in Nat
  BY NonceAssumption, FS_Subset, FS_CardinalityType DEF Entries
<1>4. Cardinality(Entries(kept)) < MaxEntries
  BY <1>3, NonceAssumption DEF Fresh, Saturated
<1>5. Entries(new) \subseteq Entries(kept) \cup {nonce}
  BY <1>1, <1>2 DEF Entries
<1>6. /\ IsFiniteSet(Entries(kept) \cup {nonce})
      /\ Cardinality(Entries(kept) \cup {nonce}) <= Cardinality(Entries(kept)) + 1
      /\ Cardinality(Entries(kept) \cup {nonce}) \in Nat
  <2> DEFINE S == Entries(kept)
  <2>1. IsFiniteSet(S) /\ Cardinality(S) \in Nat
    BY <1>3
  <2> HIDE DEF S
  <2>2. /\ IsFiniteSet(S \cup {nonce})
        /\ Cardinality(S \cup {nonce}) = IF nonce \in S THEN Cardinality(S) ELSE Cardinality(S) + 1
    BY <2>1, FS_AddElement
  <2>3. /\ IsFiniteSet(S \cup {nonce}) /\ Cardinality(S \cup {nonce}) \in Nat
        /\ Cardinality(S \cup {nonce}) <= Cardinality(S) + 1
    BY <2>1, <2>2
  <2>4. QED
    BY <2>3 DEF S
<1>7. /\ Cardinality(Entries(new)) <= Cardinality(Entries(kept) \cup {nonce})
      /\ Cardinality(Entries(new)) \in Nat
  BY <1>5, <1>6, FS_Subset, FS_CardinalityType
<1>8. QED
  BY <1>2, <1>3, <1>4, <1>6, <1>7, NonceAssumption

\* A new cache has none.
LEMMA NoEntriesType ==
    NoEntries \in [Nonces -> Nat] /\ Cardinality(Entries(NoEntries)) <= MaxEntries
<1>1. Entries(NoEntries) = {}
  BY DEF Entries, NoEntries
<1>2. NoEntries \in [Nonces -> Nat]
  BY DEF NoEntries, Never
<1>3. QED
  BY <1>1, <1>2, FS_EmptySet, NonceAssumption

\* A line that passes carries what its operation needs.
LEMMA PassesType ==
    ASSUME NEW l \in Lines, NEW token, Passes(l, token)
    PROVE  /\ l.agent \in Agents /\ l.nonce \in Nonces /\ l.expires \in Nat
           /\ l.op \in {"sign", "submit", "push"}
           /\ l.op = "push" => l.signed \in Signed
           /\ l.op # "push" => l.tx \in Txs
           /\ l.expires > clock /\ token = boot
           /\ Fresh(nonces[l.agent], l.nonce, clock)
BY LinesAssumption DEF Passes, Admitted, Parses, Ops, Reads, InWindow, Authentic, TokenOf

\* The cache after a line took its nonce.
LEMMA TakeNonceType ==
    ASSUME TypeOK, NEW l \in Lines, NEW token, Passes(l, token), TakeNonce(l)
    PROVE  /\ nonces' \in [Agents -> [Nonces -> Nat]]
           /\ \A a \in Agents : Cardinality(Entries(nonces'[a])) <= MaxEntries
<1> DEFINE new == Registered(nonces[l.agent], l.nonce, l.expires, clock)
<1>1. l.agent \in Agents /\ l.nonce \in Nonces /\ l.expires \in Nat
      /\ Fresh(nonces[l.agent], l.nonce, clock)
  BY PassesType
<1>2. new \in [Nonces -> Nat] /\ Cardinality(Entries(new)) <= MaxEntries
  <2>1. nonces[l.agent] \in [Nonces -> Nat] /\ Cardinality(Entries(nonces[l.agent])) <= MaxEntries
        /\ clock \in Nat
    BY <1>1, DaemonAssumption DEF TypeOK
  <2>2. QED
    BY <1>1, <2>1, RegisteredType
<1>3. nonces' = [nonces EXCEPT ![l.agent] = new]
  BY DEF TakeNonce
<1> HIDE DEF new
<1>4. QED
  BY <1>1, <1>2, <1>3 DEF TypeOK

-----------------------------------------------------------------------------
(* Types. *)

LEMMA TypeInit == Init => TypeOK
<1>1. SUFFICES ASSUME Init PROVE TypeOK
  OBVIOUS
<1>2. \A a \in Agents : nonces[a] = NoEntries /\ Cardinality(Entries(nonces[a])) <= MaxEntries
  BY <1>1, NoEntriesType DEF Init
<1>3. nonces \in [Agents -> [Nonces -> Nat]]
  BY <1>1, NoEntriesType DEF Init
<1>4. req \in [Requests -> Slot]
  BY <1>1, DaemonAssumption DEF Init, Slot, Stages, Answers
<1>5. QED
  BY <1>1, <1>2, <1>3, <1>4, DaemonAssumption DEF Init, TypeOK, Slot

\* A line is read.
LEMMA TypeHandle ==
    ASSUME TypeOK, NEW q \in Requests, NEW l \in Lines, NEW token \in 0 .. MaxBoots,
           Handle(q, l, token)
    PROVE  TypeOK'
<1> USE DEF Slot
<1>1. \A stage \in Stages, answer \in Answers, s \in Signed \cup {NoTx} :
          Arrived(q, l, token, stage, answer, s) => req' \in [Requests -> Slot]
  BY DEF Arrived, TypeOK
<1>2. CASE TurnAway(q, l, token)
  <2>1. req' \in [Requests -> Slot]
    BY <1>1, <1>2 DEF TurnAway, Stages, Answers
  <2>2. log' \in [Requests -> {"none", "denied", "signed", "broadcast"}]
    BY <1>2 DEF TurnAway, Record, TypeOK
  <2>3. QED
    BY <1>2, <2>1, <2>2 DEF TurnAway, TypeOK, chain
<1>3. CASE DenyAtGate(q, l, token)
  <2>1. req' \in [Requests -> Slot]
    BY <1>1, <1>3 DEF DenyAtGate, Stages, Answers
  <2>2. log' \in [Requests -> {"none", "denied", "signed", "broadcast"}]
    BY <1>3 DEF DenyAtGate, Record, TypeOK
  <2>3. /\ nonces' \in [Agents -> [Nonces -> Nat]]
        /\ \A a \in Agents : Cardinality(Entries(nonces'[a])) <= MaxEntries
    BY <1>3, TakeNonceType DEF DenyAtGate
  <2>4. QED
    BY <1>3, <2>1, <2>2, <2>3 DEF DenyAtGate, TypeOK, chain
<1>4. CASE StartDecision(q, l, token)
  <2>1. req' \in [Requests -> Slot]
    BY <1>1, <1>4 DEF StartDecision, Stages, Awaiting, Answers
  <2>2. /\ nonces' \in [Agents -> [Nonces -> Nat]]
        /\ \A a \in Agents : Cardinality(Entries(nonces'[a])) <= MaxEntries
    BY <1>4, TakeNonceType DEF StartDecision
  <2>3. QED
    BY <1>4, <2>1, <2>2 DEF StartDecision, TypeOK, chain
<1>5. CASE StartRelay(q, l, token)
  <2>1. l.signed \in Signed
    BY <1>5, PassesType DEF StartRelay
  <2>2. req' \in [Requests -> Slot]
    BY <1>1, <1>5, <2>1 DEF StartRelay, Stages, Awaiting, Answers
  <2>3. /\ nonces' \in [Agents -> [Nonces -> Nat]]
        /\ \A a \in Agents : Cardinality(Entries(nonces'[a])) <= MaxEntries
    BY <1>5, TakeNonceType DEF StartRelay
  <2>4. push' \in [Requests -> {"none", "sent", "applied", "refused"}]
    BY <1>5 DEF StartRelay, TypeOK
  <2>5. QED
    BY <1>5, <2>2, <2>3, <2>4 DEF StartRelay, TypeOK
<1>6. CASE RefuseRead(q, l, token)
  <2>1. req' \in [Requests -> Slot]
    BY <1>1, <1>6 DEF RefuseRead, Stages, Answers
  <2>2. QED
    BY <1>6, <2>1 DEF RefuseRead, TypeOK, chain
<1>7. CASE Read(q, l, token)
  <2>1. req' \in [Requests -> Slot]
    BY <1>1, <1>7 DEF Read, Stages, Awaiting, Answers
  <2>2. QED
    BY <1>7, <2>1 DEF Read, TypeOK, chain
<1>8. QED
  BY <1>2, <1>3, <1>4, <1>5, <1>6, <1>7 DEF Handle

\* A decision goes on.
LEMMA TypeBecomes ==
    ASSUME TypeOK, NEW q \in Requests, NEW stage \in Stages, NEW s \in Signed \cup {NoTx},
           NEW answer \in Answers, Becomes(q, stage, s, answer)
    PROVE  /\ req' \in [Requests -> Slot]
           /\ req'[q] = [stage |-> stage, line |-> req[q].line, token |-> req[q].token,
                         signed |-> s, answer |-> answer]
           /\ \A p \in Requests \ {q} : req'[p] = req[p]
BY DEF Becomes, TypeOK, Slot

LEMMA TypeResume ==
    ASSUME TypeOK, NEW q \in Requests, Resume(q)
    PROVE  TypeOK'
<1> DEFINE Logged == log' \in [Requests -> {"none", "denied", "signed", "broadcast"}]
           Settled == fate' \in [Requests -> {"none", "reserved", "committed", "released"}]
           Slots == req' \in [Requests -> Slot]
<1>1. \A decision \in {"denied", "signed", "broadcast"} : Record(q, decision) => Logged
  BY DEF Record, TypeOK
<1>2. req[q].signed \in Signed \cup {NoTx}
  BY DEF TypeOK
<1>3. Deny(q) => Logged /\ Slots
  BY <1>1, <1>2, TypeBecomes DEF Deny, Stages, Answers
<1>4. \A stage \in Stages : Await(q, stage) => Logged /\ Slots
  BY <1>2, TypeBecomes DEF Await, Answers, TypeOK
<1>5. \A f \in {"none", "reserved", "committed", "released"} : Settle(q, f) => Settled
  BY DEF Settle, TypeOK
<1>6. /\ fate[q] \in {"none", "reserved", "committed", "released"}
      /\ Release(q) \in {"none", "reserved", "committed", "released"}
      /\ \A s : Commit(q, s) \in {"none", "reserved", "committed", "released"}
  BY DEF TypeOK, Release, Commit
<1>7. UNCHANGED fate => Settled
  BY DEF TypeOK
<1> HIDE DEF Logged, Settled, Slots
<1>8. CASE PolicyArrives(q)
  <2>1. Logged /\ Slots
    BY <1>3, <1>4, <1>8 DEF PolicyArrives, Stages, Awaiting
  <2>2. QED
    BY <1>8, <2>1 DEF PolicyArrives, Logged, Slots, Slot, TypeOK, chain
<1>9. CASE AuthorityArrives(q)
  <2>1. Logged /\ Slots
    BY <1>3, <1>4, <1>9 DEF AuthorityArrives, Stages, Awaiting
  <2>2. QED
    BY <1>9, <2>1 DEF AuthorityArrives, Logged, Slots, Slot, TypeOK, chain
<1>10. CASE Decide(q)
  <2>1. Logged /\ Slots
    BY <1>3, <1>4, <1>10 DEF Decide, Stages, Awaiting
  <2>2. Settled
    BY <1>5, <1>7, <1>10 DEF Decide
  <2>3. QED
    BY <1>10, <2>1, <2>2 DEF Decide, Logged, Settled, Slots, Slot, TypeOK, chain
<1>11. CASE SignerThrows(q)
  <2>1. Logged /\ Slots
    BY <1>3, <1>11 DEF SignerThrows
  <2>2. Settled
    BY <1>5, <1>6, <1>7, <1>11 DEF SignerThrows
  <2>3. QED
    BY <1>11, <2>1, <2>2 DEF SignerThrows, Logged, Settled, Slots, Slot, TypeOK, chain
<1>12. CASE \E s \in Signed : SignedForSubmit(q, s)
  <2>1. Slots
    BY <1>12, TypeBecomes DEF SignedForSubmit, Stages, Awaiting, Answers, Slots
  <2>2. push' \in [Requests -> {"none", "sent", "applied", "refused"}]
    BY <1>12 DEF SignedForSubmit, TypeOK
  <2>3. QED
    BY <1>12, <2>1, <2>2 DEF SignedForSubmit, Slots, Slot, TypeOK
<1>13. CASE \E s \in Signed : SignedForClient(q, s)
  <2>1. PICK s \in Signed : SignedForClient(q, s)
    BY <1>13
  <2>2. Logged
    BY <1>1, <2>1 DEF SignedForClient
  <2>3. Settled
    BY <1>5, <1>6, <1>7, <2>1 DEF SignedForClient
  <2>4. Slots
    BY <2>1, TypeBecomes DEF SignedForClient, Stages, Answers, Slots
  <2>5. handed' \subseteq Signed
    BY <2>1 DEF SignedForClient, TypeOK
  <2>6. QED
    BY <2>1, <2>2, <2>3, <2>4, <2>5 DEF SignedForClient, Logged, Settled, Slots, Slot, TypeOK, chain
<1>14. CASE \E outcome \in {"accepted", "rejected", "ambiguous"} : BroadcastReturns(q, outcome)
  <2>1. PICK outcome \in {"accepted", "rejected", "ambiguous"} : BroadcastReturns(q, outcome)
    BY <1>14
  <2>2. Logged
    BY <1>1, <1>3, <2>1 DEF BroadcastReturns
  <2>3. Slots
    BY <1>2, <1>3, <2>1, TypeBecomes DEF BroadcastReturns, Stages, Answers, Slots
  <2>4. Settled
    BY <1>5, <1>6, <1>7, <2>1 DEF BroadcastReturns, FateAfter
  <2>5. QED
    BY <2>1, <2>2, <2>3, <2>4 DEF BroadcastReturns, Logged, Settled, Slots, Slot, TypeOK, chain
<1>15. CASE RelayReturns(q)
  <2>1. Logged /\ Slots
    BY <1>1, <1>2, <1>15, TypeBecomes DEF RelayReturns, Stages, Answers, Slots
  <2>2. QED
    BY <1>15, <2>1 DEF RelayReturns, Logged, Slots, Slot, TypeOK, chain
<1>16. CASE QueryReturns(q)
  <2>1. Slots
    BY <1>16, TypeBecomes DEF QueryReturns, Stages, Answers, Slots
  <2>2. QED
    BY <1>16, <2>1 DEF QueryReturns, Slots, Slot, TypeOK, chain
<1>17. QED
  BY <1>8, <1>9, <1>10, <1>11, <1>12, <1>13, <1>14, <1>15, <1>16 DEF Resume

\* Commands, restarts, the chain and the clock.
Aside ==
    \/ \E q \in Requests : NodeApplies(q) \/ NodeRefuses(q)
    \/ \E a \in Agents : Disable(a) \/ Enable(a)
    \/ \E s \in Signed : ClientPushes(s)
    \/ Restart \/ Tick

\* A restart cuts off the decisions that were awaiting something.
LEMMA TypeRestart ==
    ASSUME TypeOK, Restart
    PROVE  /\ req' \in [Requests -> Slot]
           /\ \A q \in Requests :
                 /\ req'[q].line = req[q].line /\ req'[q].token = req[q].token
                 /\ req'[q].signed = req[q].signed /\ req'[q].answer = req[q].answer
                 /\ req'[q].stage = IF req[q].stage \in Awaiting THEN "cut" ELSE req[q].stage
<1> DEFINE new(q) == IF req[q].stage \in Awaiting THEN [req[q] EXCEPT !.stage = "cut"] ELSE req[q]
<1>1. \A q \in Requests :
          /\ new(q) \in Slot
          /\ new(q).line = req[q].line /\ new(q).token = req[q].token
          /\ new(q).signed = req[q].signed /\ new(q).answer = req[q].answer
          /\ new(q).stage = IF req[q].stage \in Awaiting THEN "cut" ELSE req[q].stage
  BY DEF TypeOK, Slot, Stages
<1>2. req' = [q \in Requests |-> new(q)]
  BY DEF Restart
<1> HIDE DEF new
<1>3. QED
  BY <1>1, <1>2

LEMMA TypeElsewhere ==
    ASSUME TypeOK, Aside,
           \A q \in Requests : push[q] = "sent" => req[q].signed \in Signed
    PROVE  TypeOK'
<1> USE DEF decisions, chain
<1>1. CASE \E q \in Requests : NodeApplies(q)
  <2>1. PICK q \in Requests : NodeApplies(q)
    BY <1>1
  <2>2. push' \in [Requests -> {"none", "sent", "applied", "refused"}]
    BY <2>1 DEF NodeApplies, TypeOK
  <2>3. landed' \subseteq Signed
    BY <2>1 DEF NodeApplies, TypeOK
  <2>4. QED
    BY <2>1, <2>2, <2>3 DEF NodeApplies, TypeOK
<1>2. CASE \E q \in Requests : NodeRefuses(q)
  <2>1. PICK q \in Requests : NodeRefuses(q)
    BY <1>2
  <2>2. push' \in [Requests -> {"none", "sent", "applied", "refused"}]
    BY <2>1 DEF NodeRefuses, TypeOK
  <2>3. QED
    BY <2>1, <2>2 DEF NodeRefuses, TypeOK
<1>3. CASE \E a \in Agents : Disable(a) \/ Enable(a)
  <2>1. enabled' \in [Agents -> BOOLEAN]
    BY <1>3 DEF Disable, Enable, TypeOK
  <2>2. QED
    BY <1>3, <2>1 DEF Disable, Enable, TypeOK
<1>4. CASE \E s \in Signed : ClientPushes(s)
  BY <1>4 DEF ClientPushes, TypeOK
<1>5. CASE Restart
  <2>1. /\ nonces' \in [Agents -> [Nonces -> Nat]]
        /\ \A a \in Agents : Cardinality(Entries(nonces'[a])) <= MaxEntries
    BY <1>5, NoEntriesType DEF Restart
  <2>2. req' \in [Requests -> Slot]
    BY <1>5, TypeRestart
  <2>3. boot' \in 1 .. MaxBoots /\ enabled' \in [Agents -> BOOLEAN]
    BY <1>5, DaemonAssumption DEF Restart, TypeOK
  <2>4. QED
    BY <1>5, <2>1, <2>2, <2>3 DEF Restart, TypeOK, Slot
<1>6. CASE Tick
  <2>1. clock' \in 0 .. MaxClock
    BY <1>6, DaemonAssumption DEF Tick, TypeOK
  <2>2. QED
    BY <1>6, <2>1 DEF Tick, TypeOK
<1>7. QED
  BY <1>1, <1>2, <1>3, <1>4, <1>5, <1>6 DEF Aside

-----------------------------------------------------------------------------
(* How far a decision is, and what it has done to the journal and the node. *)

Orderly(q) ==
    /\ req[q].stage \in {"idle", "policy", "authority", "evidence", "query"} =>
          fate[q] = "none" /\ push[q] = "none"
    /\ req[q].stage = "signing" =>
          push[q] = "none" /\ (req[q].line.tx \in LimitedTxs => fate[q] = "reserved")
    /\ req[q].stage = "broadcast" =>
          push[q] # "none" /\ (req[q].signed[1] \in LimitedTxs => fate[q] = "reserved")
    /\ req[q].stage = "relay" => fate[q] = "none" /\ req[q].signed \in handed
    /\ req[q].stage \notin {"done", "cut"} => fate[q] \in {"none", "reserved"}
    /\ push[q] # "none" => req[q].signed \in Signed

\* A signature that is charged for good: a commit is never undone.
Firm(s) == \E q \in Requests : fate[q] = "committed" /\ req[q].signed = s

PushCovered(q) ==
    (push[q] \in {"sent", "applied"} /\ req[q].signed[1] \in LimitedTxs) =>
        fate[q] = "reserved" \/ Firm(req[q].signed)

\* What clients hold is charged for good; what was pushed is, or its decision
\* still has its reservation; what landed is one or the other.
Covered ==
    /\ \A s \in handed : s[1] \in LimitedTxs => Firm(s)
    /\ \A q \in Requests : PushCovered(q)
    /\ \A s \in landed :
          s \in handed \/ \E q \in Requests : push[q] = "applied" /\ req[q].signed = s

ChargeInv == TypeOK /\ (\A q \in Requests : Orderly(q)) /\ Covered

\* A step of one decision leaves the others alone.
Alone(q) ==
    \A p \in Requests \ {q} :
        req'[p] = req[p] /\ fate'[p] = fate[p] /\ push'[p] = push[p]

LEMMA HandleAlone ==
    ASSUME TypeOK, NEW q \in Requests, NEW l, NEW token, Handle(q, l, token)
    PROVE  Alone(q) /\ UNCHANGED <<fate, handed, landed>>
<1>1. \A stage, answer, s : Arrived(q, l, token, stage, answer, s) =>
          \A p \in Requests \ {q} : req'[p] = req[p]
  BY DEF Arrived, TypeOK
<1>2. CASE StartRelay(q, l, token)
  BY <1>1, <1>2 DEF StartRelay, Alone, TypeOK
<1>3. CASE ~StartRelay(q, l, token)
  BY <1>1, <1>3 DEF Handle, TurnAway, DenyAtGate, StartDecision, RefuseRead, Read, Alone, chain
<1>4. QED
  BY <1>2, <1>3

LEMMA ResumeAlone ==
    ASSUME TypeOK, NEW q \in Requests, Resume(q)
    PROVE  Alone(q) /\ landed' = landed /\ handed \subseteq handed'
<1>1. \A stage, s, answer : Becomes(q, stage, s, answer) =>
          \A p \in Requests \ {q} : req'[p] = req[p]
  BY DEF Becomes, TypeOK
<1>2. /\ Deny(q) => \A p \in Requests \ {q} : req'[p] = req[p]
      /\ \A stage : Await(q, stage) => \A p \in Requests \ {q} : req'[p] = req[p]
  BY <1>1 DEF Deny, Await
<1>3. \A f : Settle(q, f) => \A p \in Requests \ {q} : fate'[p] = fate[p]
  BY DEF Settle, TypeOK
<1>4. CASE PolicyArrives(q) \/ AuthorityArrives(q)
  BY <1>2, <1>4 DEF PolicyArrives, AuthorityArrives, Alone, chain
<1>5. CASE Decide(q)
  BY <1>2, <1>3, <1>5 DEF Decide, Alone, chain
<1>6. CASE SignerThrows(q)
  BY <1>2, <1>3, <1>6 DEF SignerThrows, Alone, chain
<1>7. CASE \E s \in Signed : SignedForSubmit(q, s)
  BY <1>1, <1>7 DEF SignedForSubmit, Alone, TypeOK
<1>8. CASE \E s \in Signed : SignedForClient(q, s)
  BY <1>1, <1>3, <1>8 DEF SignedForClient, Alone, chain
<1>9. CASE \E outcome \in {"accepted", "rejected", "ambiguous"} : BroadcastReturns(q, outcome)
  BY <1>1, <1>2, <1>3, <1>9 DEF BroadcastReturns, Alone, chain
<1>10. CASE RelayReturns(q) \/ QueryReturns(q)
  BY <1>1, <1>10 DEF RelayReturns, QueryReturns, Alone, chain
<1>11. QED
  BY <1>4, <1>5, <1>6, <1>7, <1>8, <1>9, <1>10 DEF Resume

LEMMA OthersOrderly ==
    ASSUME NEW q \in Requests, \A p \in Requests : Orderly(p), Alone(q), handed \subseteq handed'
    PROVE  \A p \in Requests \ {q} : Orderly(p)'
BY DEF Orderly, Alone

\* A commit is never undone, nor is its signature another.
LEMMA FirmStays ==
    ASSUME NEW q \in Requests, fate[q] # "committed", Alone(q)
    PROVE  \A s : Firm(s) => Firm(s)'
BY DEF Firm, Alone

\* A commit, or the one of the same signature it gave way to.
LEMMA CommitIsFirm ==
    ASSUME TypeOK, NEW q \in Requests, NEW s, fate[q] = "reserved", Alone(q),
           Settle(q, Commit(q, s)), req'[q].signed = s
    PROVE  Firm(s)'
<1>1. CASE CommittedAlready(q, s)
  <2>1. Firm(s)
    BY <1>1 DEF CommittedAlready, Firm
  <2>2. QED
    BY <2>1, FirmStays
<1>2. CASE ~CommittedAlready(q, s)
  <2>1. fate'[q] = "committed"
    BY <1>2 DEF Settle, Commit, TypeOK
  <2>2. QED
    BY <2>1 DEF Firm
<1>3. QED
  BY <1>1, <1>2

LEMMA ChargeHandle ==
    ASSUME ChargeInv, NEW q \in Requests, NEW l \in Lines, NEW token \in 0 .. MaxBoots,
           Handle(q, l, token)
    PROVE  ChargeInv'
<1>1. TypeOK /\ (\A p \in Requests : Orderly(p)) /\ Covered
  BY DEF ChargeInv
<1>2. TypeOK'
  BY <1>1, TypeHandle
<1>3. Alone(q) /\ UNCHANGED <<fate, handed, landed>>
  BY <1>1, HandleAlone
<1>4. req[q].stage = "idle" /\ fate[q] = "none" /\ push[q] = "none"
  BY <1>1 DEF Handle, TurnAway, DenyAtGate, StartDecision, StartRelay, RefuseRead, Read,
              Arrives, Orderly
<1>5. \A stage, answer, s : Arrived(q, l, token, stage, answer, s) =>
          req'[q].stage = stage /\ req'[q].signed = s
  BY <1>1 DEF Arrived, TypeOK
<1>6. CASE StartRelay(q, l, token)
  <2>1. req'[q].stage = "relay" /\ req'[q].signed = l.signed /\ push'[q] = "sent"
    BY <1>1, <1>5, <1>6 DEF StartRelay, TypeOK
  <2>2. l.signed \in handed /\ l.signed \in Signed
    BY <1>6, PassesType DEF StartRelay, Arrives
  <2>3. Orderly(q)'
    BY <1>3, <1>4, <2>1, <2>2 DEF Orderly
  <2>4. \A p \in Requests : Orderly(p)'
    BY <1>1, <1>3, <2>3, OthersOrderly
  <2>5. \A s : Firm(s) => Firm(s)'
    BY <1>3, <1>4, FirmStays
  <2>6. \A p \in Requests : PushCovered(p)'
    BY <1>1, <1>3, <2>1, <2>2, <2>5 DEF Alone, Covered, PushCovered
  <2>7. \A s \in landed' :
            s \in handed' \/ \E p \in Requests : push'[p] = "applied" /\ req'[p].signed = s
    BY <1>1, <1>3, <1>4 DEF Alone, Covered, PushCovered
  <2>8. Covered'
    BY <1>1, <1>3, <2>5, <2>6, <2>7 DEF Covered
  <2>9. QED
    BY <1>2, <2>4, <2>8 DEF ChargeInv
<1>7. CASE ~StartRelay(q, l, token)
  <2>1. push'[q] = "none" /\ req'[q].stage \in {"policy", "query", "done"}
    BY <1>4, <1>5, <1>7 DEF Handle, TurnAway, DenyAtGate, StartDecision, RefuseRead, Read, chain
  <2>2. Orderly(q)'
    BY <1>3, <1>4, <2>1 DEF Orderly
  <2>3. \A p \in Requests : Orderly(p)'
    BY <1>1, <1>3, <2>2, OthersOrderly
  <2>4. \A s : Firm(s) => Firm(s)'
    BY <1>3, <1>4, FirmStays
  <2>5. \A p \in Requests : PushCovered(p)'
    BY <1>1, <1>3, <2>1, <2>4 DEF Alone, Covered, PushCovered
  <2>6. \A s \in landed' :
            s \in handed' \/ \E p \in Requests : push'[p] = "applied" /\ req'[p].signed = s
    BY <1>1, <1>3, <1>4 DEF Alone, Covered, PushCovered
  <2>7. Covered'
    BY <1>1, <1>3, <2>4, <2>5, <2>6 DEF Covered
  <2>8. QED
    BY <1>2, <2>3, <2>7 DEF ChargeInv
<1>8. QED
  BY <1>6, <1>7

\* The parts of Covered that a step of q cannot disturb, once it is known what
\* becomes of q's own push and of what clients hold.
LEMMA CoveredAfter ==
    ASSUME NEW q \in Requests, Covered, Alone(q), landed' = landed, handed \subseteq handed',
           fate[q] # "committed",
           \A s \in handed' : s \in handed \/ (s[1] \in LimitedTxs => Firm(s)'),
           PushCovered(q)',
           push[q] = "applied" => push'[q] = "applied" /\ req'[q].signed = req[q].signed
    PROVE  Covered'
<1>1. \A s : Firm(s) => Firm(s)'
  BY FirmStays
<1>2. \A s \in handed' : s[1] \in LimitedTxs => Firm(s)'
  BY <1>1 DEF Covered
<1>3. \A p \in Requests : PushCovered(p)'
  BY <1>1 DEF Alone, Covered, PushCovered
<1>4. \A s \in landed' :
          s \in handed' \/ \E p \in Requests : push'[p] = "applied" /\ req'[p].signed = s
  <2>1. TAKE s \in landed'
  <2>2. CASE s \in handed
    BY <2>2
  <2>3. CASE \E p \in Requests : push[p] = "applied" /\ req[p].signed = s
    BY <2>3 DEF Alone
  <2>4. QED
    BY <2>2, <2>3 DEF Covered
<1>5. QED
  BY <1>2, <1>3, <1>4 DEF Covered

LEMMA ChargeResume ==
    ASSUME ChargeInv, NEW q \in Requests, Resume(q)
    PROVE  ChargeInv'
<1>1. TypeOK /\ (\A p \in Requests : Orderly(p)) /\ Covered
  BY DEF ChargeInv
<1>2. TypeOK'
  BY <1>1, TypeResume
<1>3. Alone(q) /\ landed' = landed /\ handed \subseteq handed'
  BY <1>1, ResumeAlone
<1>4. req[q].stage \in Awaiting /\ fate[q] # "committed"
  <2>1. req[q].stage \in Awaiting
    BY DEF Resume, PolicyArrives, AuthorityArrives, Decide, SignerThrows, SignedForSubmit,
           SignedForClient, BroadcastReturns, RelayReturns, QueryReturns, Awaiting
  <2>2. QED
    BY <1>1, <2>1 DEF Orderly, Awaiting
<1>5. \A stage, s, answer : Becomes(q, stage, s, answer) =>
          req'[q].stage = stage /\ req'[q].signed = s /\ req'[q].line = req[q].line
  BY <1>1 DEF Becomes, TypeOK
<1>6. \A f : Settle(q, f) => fate'[q] = f
  BY <1>1 DEF Settle, TypeOK
<1>7. SUFFICES /\ Orderly(q)'
               /\ \A s \in handed' : s \in handed \/ (s[1] \in LimitedTxs => Firm(s)')
               /\ PushCovered(q)'
               /\ push[q] = "applied" => push'[q] = "applied" /\ req'[q].signed = req[q].signed
  BY <1>1, <1>2, <1>3, <1>4, OthersOrderly, CoveredAfter DEF ChargeInv
<1>8. CASE PolicyArrives(q) \/ AuthorityArrives(q)
  <2>1. /\ req'[q].stage \in {"authority", "evidence", "done"}
        /\ push'[q] = "none" /\ fate'[q] = "none" /\ handed' = handed /\ push[q] = "none"
    BY <1>1, <1>5, <1>8 DEF PolicyArrives, AuthorityArrives, Await, Deny, Orderly, chain
  <2>2. Orderly(q)'
    BY <2>1 DEF Orderly
  <2>3. QED
    BY <2>1, <2>2 DEF PushCovered
<1>9. CASE Decide(q)
  <2>1. push[q] = "none" /\ fate[q] = "none" /\ push'[q] = "none" /\ handed' = handed
    BY <1>1, <1>9 DEF Decide, Orderly, chain
  <2>2. \/ req'[q].stage = "done" /\ fate'[q] = "none"
        \/ /\ req'[q].stage = "signing" /\ req'[q].line = req[q].line
           /\ fate'[q] \in {"none", "reserved"}
           /\ req[q].line.tx \in LimitedTxs => fate'[q] = "reserved"
    BY <1>5, <1>6, <1>9, <2>1 DEF Decide, Await, Deny
  <2>3. Orderly(q)'
    BY <2>1, <2>2 DEF Orderly
  <2>4. QED
    BY <2>1, <2>3 DEF PushCovered
<1>10. CASE SignerThrows(q)
  <2>1. push[q] = "none" /\ push'[q] = "none" /\ handed' = handed
    BY <1>1, <1>10 DEF SignerThrows, Orderly, chain
  <2>2. req'[q].stage = "done"
    BY <1>5, <1>10 DEF SignerThrows, Deny
  <2>3. Orderly(q)'
    BY <2>1, <2>2 DEF Orderly
  <2>4. QED
    BY <2>1, <2>3 DEF PushCovered
<1>11. CASE \E s \in Signed : SignedForSubmit(q, s)
  <2>1. PICK s \in Signed : SignedForSubmit(q, s)
    BY <1>11
  <2>2. /\ req'[q].stage = "broadcast" /\ req'[q].signed = s /\ s[1] = req[q].line.tx
        /\ push[q] = "none" /\ push'[q] = "sent" /\ handed' = handed /\ fate'[q] = fate[q]
        /\ req[q].line.tx \in LimitedTxs => fate[q] = "reserved"
        /\ fate[q] \in {"none", "reserved"}
    BY <1>1, <1>5, <2>1 DEF SignedForSubmit, Orderly, TypeOK
  <2>3. Orderly(q)'
    BY <2>2 DEF Orderly
  <2>4. QED
    BY <2>2, <2>3 DEF PushCovered
<1>12. CASE \E s \in Signed : SignedForClient(q, s)
  <2>1. PICK s \in Signed : SignedForClient(q, s)
    BY <1>12
  <2>2. /\ req'[q].stage = "done" /\ req'[q].signed = s /\ s[1] = req[q].line.tx
        /\ push[q] = "none" /\ push'[q] = "none"
        /\ req[q].line.tx \in LimitedTxs => fate[q] = "reserved"
    BY <1>1, <1>5, <2>1 DEF SignedForClient, Orderly, chain
  <2>3. Orderly(q)'
    BY <2>2 DEF Orderly
  <2>4. handed' = handed \/ (handed' = handed \cup {s} /\ Settle(q, Commit(q, s)))
    BY <2>1 DEF SignedForClient
  <2>5. handed' = handed \/ (handed' = handed \cup {s} /\ (s[1] \in LimitedTxs => Firm(s)'))
    BY <1>1, <1>3, <2>2, <2>4, CommitIsFirm
  <2>6. QED
    BY <2>2, <2>3, <2>5 DEF PushCovered
<1>13. CASE \E outcome \in {"accepted", "rejected", "ambiguous"} : BroadcastReturns(q, outcome)
  <2>1. PICK outcome \in {"accepted", "rejected", "ambiguous"} : BroadcastReturns(q, outcome)
    BY <1>13
  <2>2. /\ req'[q].stage = "done" /\ req'[q].signed = req[q].signed
        /\ push'[q] = push[q] /\ handed' = handed
        /\ req[q].signed[1] \in LimitedTxs => fate[q] = "reserved"
        /\ req[q].signed \in Signed
    BY <1>1, <1>5, <2>1 DEF BroadcastReturns, Deny, Orderly, chain
  <2>3. Orderly(q)'
    BY <2>2 DEF Orderly
  <2>4. CASE push[q] \in {"sent", "applied"} /\ req[q].signed[1] \in LimitedTxs
    <3>1. outcome # "rejected"
      BY <2>1, <2>4 DEF BroadcastReturns, Outcomes
    <3>2. fate' = fate \/ Settle(q, Commit(q, req[q].signed))
      BY <2>1, <3>1 DEF BroadcastReturns, FateAfter
    <3>3. fate'[q] = "reserved" \/ Firm(req[q].signed)'
      BY <1>1, <1>3, <2>2, <2>4, <3>2, CommitIsFirm
    <3>4. QED
      BY <2>2, <2>3, <3>3 DEF PushCovered
  <2>5. CASE ~(push[q] \in {"sent", "applied"} /\ req[q].signed[1] \in LimitedTxs)
    BY <2>2, <2>3, <2>5 DEF PushCovered
  <2>6. QED
    BY <2>4, <2>5
<1>14. CASE RelayReturns(q)
  <2>1. /\ req'[q].stage = "done" /\ req'[q].signed = req[q].signed
        /\ push'[q] = push[q] /\ handed' = handed /\ fate'[q] = fate[q]
        /\ req[q].signed \in handed /\ req[q].signed \in Signed
    BY <1>1, <1>5, <1>14 DEF RelayReturns, Orderly, chain, TypeOK
  <2>2. Orderly(q)'
    BY <2>1 DEF Orderly
  <2>3. req[q].signed[1] \in LimitedTxs => Firm(req[q].signed)'
    BY <1>1, <1>3, <1>4, <2>1, FirmStays DEF Covered
  <2>4. QED
    BY <2>1, <2>2, <2>3 DEF PushCovered
<1>15. CASE QueryReturns(q)
  <2>1. /\ req'[q].stage = "done"
        /\ push[q] = "none" /\ push'[q] = "none" /\ handed' = handed
    BY <1>1, <1>5, <1>15 DEF QueryReturns, Orderly, chain
  <2>2. Orderly(q)'
    BY <2>1 DEF Orderly
  <2>3. QED
    BY <2>1, <2>2 DEF PushCovered
<1>16. QED
  BY <1>8, <1>9, <1>10, <1>11, <1>12, <1>13, <1>14, <1>15 DEF Resume

LEMMA ChargeElsewhere ==
    ASSUME ChargeInv, Aside
    PROVE  ChargeInv'
<1>1. TypeOK /\ (\A p \in Requests : Orderly(p)) /\ Covered
  BY DEF ChargeInv
<1>2. TypeOK'
  BY <1>1, TypeElsewhere DEF Orderly
<1>3. ASSUME NEW q \in Requests, NEW became \in {"applied", "refused"},
             push[q] = "sent", push' = [push EXCEPT ![q] = became],
             UNCHANGED <<req, fate, handed>>,
             landed' = landed \cup (IF became = "applied" THEN {req[q].signed} ELSE {})
      PROVE  ChargeInv'
  <2>1. push'[q] = became /\ \A p \in Requests \ {q} : push'[p] = push[p]
    BY <1>1, <1>3 DEF TypeOK
  <2>2. \A p \in Requests : Orderly(p)'
    BY <1>1, <1>3, <2>1 DEF Orderly
  <2>3. \A s : Firm(s) <=> Firm(s)'
    BY <1>3 DEF Firm
  <2>4. \A p \in Requests : PushCovered(p)'
    BY <1>1, <1>3, <2>1, <2>3 DEF Covered, PushCovered
  <2>5. \A s \in landed' :
            s \in handed' \/ \E p \in Requests : push'[p] = "applied" /\ req'[p].signed = s
    BY <1>1, <1>3, <2>1 DEF Covered
  <2>6. \A s \in handed' : s[1] \in LimitedTxs => Firm(s)'
    BY <1>1, <1>3, <2>3 DEF Covered
  <2>7. QED
    BY <1>2, <2>2, <2>4, <2>5, <2>6 DEF ChargeInv, Covered
<1>4. CASE \E q \in Requests : NodeApplies(q) \/ NodeRefuses(q)
  BY <1>3, <1>4 DEF NodeApplies, NodeRefuses, decisions
<1>5. ASSUME UNCHANGED <<fate, push, handed>>, landed' \subseteq landed \cup handed,
             \A p \in Requests :
                 /\ req'[p].signed = req[p].signed /\ req'[p].line = req[p].line
                 /\ req'[p].stage \in {req[p].stage, "cut"}
      PROVE  ChargeInv'
  <2>1. \A p \in Requests : Orderly(p)'
    BY <1>1, <1>5 DEF Orderly
  <2>2. \A s : Firm(s) <=> Firm(s)'
    BY <1>5 DEF Firm
  <2>3. \A p \in Requests : PushCovered(p)'
    BY <1>1, <1>5, <2>2 DEF Covered, PushCovered
  <2>4. \A s \in landed' :
            s \in handed' \/ \E p \in Requests : push'[p] = "applied" /\ req'[p].signed = s
    BY <1>1, <1>5 DEF Covered
  <2>5. \A s \in handed' : s[1] \in LimitedTxs => Firm(s)'
    BY <1>1, <1>5, <2>2 DEF Covered
  <2>6. QED
    BY <1>2, <2>1, <2>3, <2>4, <2>5 DEF ChargeInv, Covered
<1>6. CASE Restart
  BY <1>1, <1>5, <1>6, TypeRestart DEF Restart, chain
<1>7. CASE Tick \/ \E a \in Agents : Disable(a) \/ Enable(a)
  BY <1>5, <1>7 DEF Tick, Disable, Enable, decisions, chain
<1>8. CASE \E s \in Signed : ClientPushes(s)
  BY <1>5, <1>8 DEF ClientPushes, decisions
<1>9. QED
  BY <1>4, <1>6, <1>7, <1>8 DEF Aside

LEMMA ChargeInit == Init => ChargeInv
  BY TypeInit DEF Init, ChargeInv, Orderly, Covered, PushCovered

LEMMA ChargeStutters ==
    ASSUME ChargeInv, UNCHANGED vars
    PROVE  ChargeInv'
<1>1. TypeOK'
  BY DEF ChargeInv, TypeOK, vars, decisions, chain
<1>2. (\A q \in Requests : Orderly(q))'
  BY DEF ChargeInv, Orderly, vars, decisions, chain
<1>3. Covered'
  BY DEF ChargeInv, Covered, PushCovered, Firm, vars, decisions, chain
<1>4. QED
  BY <1>1, <1>2, <1>3 DEF ChargeInv

\* A line comes with a token of this life of the daemon or an earlier one.
LEMMA NextCases ==
    ASSUME TypeOK, Next
    PROVE  \/ \E q \in Requests, l \in Lines, token \in 0 .. MaxBoots : Handle(q, l, token)
           \/ \E q \in Requests : Resume(q)
           \/ Aside
<1>1. CASE \E q \in Requests : Receive(q)
  <2>1. PICK q \in Requests, l \in Lines, b \in 1 .. boot : Handle(q, l, TokenOf(b))
    BY <1>1 DEF Receive
  <2>2. TokenOf(b) \in 0 .. MaxBoots
    BY DaemonAssumption DEF TokenOf, TypeOK
  <2>3. QED
    BY <2>1, <2>2
<1>2. QED
  BY <1>1 DEF Next, Aside

LEMMA ChargeStep == ChargeInv /\ [Next]_vars => ChargeInv'
<1>1. SUFFICES ASSUME ChargeInv, Next PROVE ChargeInv'
  BY ChargeStutters
<1>2. QED
  BY <1>1, NextCases, ChargeHandle, ChargeResume, ChargeElsewhere DEF ChargeInv

\* Types, the bound of each nonce cache among them (nonceCache.ts: "the cache
\* never grows past the bound").
THEOREM DaemonTypes == Spec => []TypeOK
<1>1. ChargeInv => TypeOK
  BY DEF ChargeInv
<1>2. QED
  BY <1>1, ChargeInit, ChargeStep, PTL DEF Spec

\* Whatever is on the chain, in a client's hands or on its way to the node is
\* charged by a reservation that stands, through refusals, lost replies,
\* failing stores and restarts (server.ts, runDecision).
THEOREM LandableCharged == Spec => []LandableIsCharged
<1>1. ChargeInv => LandableIsCharged
  <2>1. SUFFICES ASSUME ChargeInv, NEW s \in Landable, s[1] \in LimitedTxs PROVE Charged(s)
    BY DEF LandableIsCharged
  <2>2. Firm(s) => Charged(s)
    BY DEF Firm, Charged, Standing
  <2>3. CASE s \in handed
    BY <2>1, <2>2, <2>3 DEF ChargeInv, Covered
  <2>4. ASSUME NEW q \in Requests, push[q] \in {"sent", "applied"}, req[q].signed = s
        PROVE  Charged(s)
    BY <2>1, <2>2, <2>4 DEF ChargeInv, Covered, PushCovered, Charged, Standing
  <2>5. CASE s \in landed
    BY <2>1, <2>3, <2>4, <2>5 DEF ChargeInv, Covered
  <2>6. CASE \E q \in Requests : push[q] = "sent" /\ req[q].signed = s
    BY <2>4, <2>6
  <2>7. QED
    BY <2>3, <2>5, <2>6 DEF Landable
<1>2. QED
  BY <1>1, ChargeInit, ChargeStep, PTL DEF Spec

-----------------------------------------------------------------------------
(* The cap of an agent. *)

\* The decisions of an agent whose reservations were not given back.
StandingOf(a) == {q \in Requests : fate[q] \in Standing /\ AgentOf(q) = a}

\* Past the identity check the transaction acts for the agent that asked, and
\* what is charged is what was signed.
Bound(q) ==
    /\ req[q].stage \in {"policy", "authority", "evidence"} => req[q].signed = NoTx
    /\ req[q].stage \in {"authority", "evidence", "signing", "broadcast"} =>
          Actor[req[q].line.tx] = AgentOf(q)
    /\ fate[q] # "none" =>
          /\ Actor[req[q].line.tx] = AgentOf(q)
          /\ req[q].signed # NoTx => req[q].signed[1] = req[q].line.tx

HasLine(q) == req[q].stage # "idle" => req[q].line \in Lines

WithinCap == \A a \in Agents : Cardinality(StandingOf(a)) <= Cap

CapInv == ChargeInv /\ (\A q \in Requests : Bound(q) /\ HasLine(q)) /\ WithinCap

\* Reservations of an agent are finitely many.
LEMMA StandingIsFinite ==
    \A a : IsFiniteSet(StandingOf(a)) /\ Cardinality(StandingOf(a)) \in Nat
<1>1. SUFFICES ASSUME NEW a
               PROVE  IsFiniteSet(StandingOf(a)) /\ Cardinality(StandingOf(a)) \in Nat
  OBVIOUS
<1>2. StandingOf(a) \subseteq Requests
  BY DEF StandingOf
<1>3. QED
  BY <1>2, RequestsAssumption, FS_Subset, FS_CardinalityType

LEMMA FewerStanding ==
    ASSUME WithinCap, \A a \in Agents : StandingOf(a)' \subseteq StandingOf(a)
    PROVE  WithinCap'
<1>1. SUFFICES ASSUME NEW a \in Agents PROVE Cardinality(StandingOf(a)') <= Cap
  BY DEF WithinCap
<1> DEFINE S == StandingOf(a)
           T == StandingOf(a)'
<1>2. T \subseteq S /\ IsFiniteSet(S) /\ Cardinality(S) \in Nat /\ Cardinality(S) <= Cap
  BY StandingIsFinite DEF WithinCap
<1> HIDE DEF S, T
<1>3. Cardinality(T) <= Cardinality(S) /\ Cardinality(T) \in Nat
  BY <1>2, FS_Subset, FS_CardinalityType
<1>4. Cardinality(T) <= Cap
  BY <1>2, <1>3, DaemonAssumption
<1>5. QED
  BY <1>4 DEF T

\* Only a reservation adds to what stands.
LEMMA StandingAfter ==
    ASSUME NEW q \in Requests, Alone(q), NEW a,
           fate'[q] \in Standing => fate[q] \in Standing /\ req'[q].line = req[q].line
    PROVE  StandingOf(a)' \subseteq StandingOf(a)
BY DEF StandingOf, Alone, AgentOf

LEMMA CapHandle ==
    ASSUME CapInv, NEW q \in Requests, NEW l \in Lines, NEW token \in 0 .. MaxBoots,
           Handle(q, l, token)
    PROVE  CapInv'
<1>1. TypeOK /\ ChargeInv /\ (\A p \in Requests : Bound(p) /\ HasLine(p)) /\ WithinCap
  BY DEF CapInv, ChargeInv
<1>2. ChargeInv'
  BY <1>1, ChargeHandle
<1>3. Alone(q) /\ fate' = fate
  BY <1>1, HandleAlone
<1>4. req[q].stage = "idle" /\ fate[q] = "none"
  BY <1>1 DEF ChargeInv, Handle, TurnAway, DenyAtGate, StartDecision, StartRelay, RefuseRead, Read,
              Arrives, Orderly
<1>5. \A stage, answer, s : Arrived(q, l, token, stage, answer, s) =>
          req'[q].stage = stage /\ req'[q].signed = s /\ req'[q].line = l
  BY <1>1 DEF Arrived, TypeOK
<1>6. /\ req'[q].stage \in {"policy", "relay", "query", "done"}
      /\ req'[q].stage = "policy" => req'[q].signed = NoTx
      /\ req'[q].line = l
  BY <1>5 DEF Handle, TurnAway, DenyAtGate, StartDecision, StartRelay, RefuseRead, Read
<1>7. \A p \in Requests : Bound(p)' /\ HasLine(p)'
  BY <1>1, <1>3, <1>4, <1>6 DEF Bound, HasLine, Alone, AgentOf
<1>8. \A a \in Agents : StandingOf(a)' \subseteq StandingOf(a)
  BY <1>3, <1>4, StandingAfter DEF Standing
<1>9. QED
  BY <1>1, <1>2, <1>7, <1>8, FewerStanding DEF CapInv

\* A reservation that is made finds room.
LEMMA CapReserve ==
    ASSUME CapInv, NEW q \in Requests, Alone(q), HasRoom(AgentOf(q)), fate[q] = "none",
           fate'[q] = "reserved", req'[q].line = req[q].line
    PROVE  WithinCap'
<1>1. SUFFICES ASSUME NEW a \in Agents PROVE Cardinality(StandingOf(a)') <= Cap
  BY DEF WithinCap
<1> DEFINE S == StandingOf(a)
           T == StandingOf(a)'
<1>2. IsFiniteSet(S) /\ Cardinality(S) \in Nat /\ Cardinality(S) <= Cap
  BY StandingIsFinite DEF WithinCap, CapInv
<1>3. CASE AgentOf(q) = a
  <2>1. T = S \cup {q} /\ q \notin S
    BY <1>3 DEF StandingOf, Standing, Alone, AgentOf
  <2>2. Cardinality(S) < Cap
    BY <1>3 DEF HasRoom, StandingOf
  <2> HIDE DEF S, T
  <2>3. Cardinality(T) = Cardinality(S) + 1
    BY <1>2, <2>1, FS_AddElement
  <2>4. Cardinality(T) <= Cap
    BY <1>2, <2>2, <2>3, DaemonAssumption
  <2>5. QED
    BY <2>4 DEF T
<1>4. CASE AgentOf(q) # a
  <2>1. T = S
    BY <1>4 DEF StandingOf, Standing, Alone, AgentOf
  <2>2. QED
    BY <1>2, <2>1
<1>5. QED
  BY <1>3, <1>4

\* The line of a decision that goes on was heard, and stays what it was.
LEMMA ResumeKeepsLine ==
    ASSUME TypeOK, NEW q \in Requests, Resume(q)
    PROVE  req[q].stage # "idle" /\ req'[q].line = req[q].line
<1>1. /\ \A stage, s, answer : Becomes(q, stage, s, answer) => req'[q].line = req[q].line
      /\ Deny(q) => req'[q].line = req[q].line
      /\ \A stage : Await(q, stage) => req'[q].line = req[q].line
  BY DEF Becomes, TypeOK, Deny, Await
<1>2. QED
  BY <1>1 DEF Resume, PolicyArrives, AuthorityArrives, Decide, SignerThrows, SignedForSubmit,
              SignedForClient, BroadcastReturns, RelayReturns, QueryReturns

LEMMA CapResume ==
    ASSUME CapInv, NEW q \in Requests, Resume(q)
    PROVE  CapInv'
<1>1. TypeOK /\ ChargeInv /\ (\A p \in Requests : Bound(p) /\ HasLine(p) /\ Orderly(p)) /\ WithinCap
  BY DEF CapInv, ChargeInv
<1>2. ChargeInv'
  BY <1>1, ChargeResume
<1>3. Alone(q)
  BY <1>1, ResumeAlone
<1>4. \A stage, s, answer : Becomes(q, stage, s, answer) =>
          req'[q].stage = stage /\ req'[q].signed = s /\ req'[q].line = req[q].line
  BY <1>1 DEF Becomes, TypeOK
<1>5. \A f : Settle(q, f) => fate'[q] = f
  BY <1>1 DEF Settle, TypeOK
<1>a. HasLine(q)'
  BY <1>1, ResumeKeepsLine DEF HasLine
<1>6. SUFFICES /\ Bound(q)'
               /\ WithinCap'
  BY <1>1, <1>2, <1>3, <1>a DEF CapInv, Bound, HasLine, Alone, AgentOf
<1>7. SUFFICES /\ Bound(q)' /\ req'[q].line = req[q].line
               /\ WithinCap' \/ (fate'[q] \in Standing => fate[q] \in Standing)
  BY <1>1, <1>3, StandingAfter, FewerStanding
<1>8. CASE PolicyArrives(q)
  <2>1. /\ \/ req'[q].stage = "authority" /\ Actor[req[q].line.tx] = AgentOf(q)
           \/ req'[q].stage = "done"
        /\ req'[q].line = req[q].line /\ fate'[q] = "none" /\ fate[q] = "none"
        /\ req'[q].signed = req[q].signed /\ req[q].stage = "policy"
    BY <1>1, <1>4, <1>8 DEF PolicyArrives, checkLocalIdentity, Await, Deny, Orderly
  <2>2. QED
    BY <1>1, <2>1 DEF Bound, Standing, AgentOf
<1>9. CASE AuthorityArrives(q)
  <2>1. /\ req'[q].stage \in {"evidence", "done"} /\ req[q].stage = "authority"
        /\ req'[q].line = req[q].line /\ fate'[q] = "none" /\ fate[q] = "none"
        /\ req'[q].signed = req[q].signed
    BY <1>1, <1>4, <1>9 DEF AuthorityArrives, Await, Deny, Orderly
  <2>2. QED
    BY <1>1, <2>1 DEF Bound, Standing, AgentOf
<1>10. CASE Decide(q)
  <2>1. /\ req'[q].stage \in {"signing", "done"} /\ req[q].stage \in {"authority", "evidence"}
        /\ req'[q].line = req[q].line /\ req'[q].signed = req[q].signed /\ fate[q] = "none"
        /\ fate'[q] = "none" \/ (fate'[q] = "reserved" /\ HasRoom(AgentOf(q)))
    BY <1>1, <1>4, <1>5, <1>10 DEF Decide, Await, Deny, Orderly
  <2>2. Actor[req[q].line.tx] = AgentOf(q)
    BY <1>1, <2>1 DEF Bound
  <2>3. fate'[q] = "reserved" => WithinCap'
    BY <1>3, <2>1, CapReserve
  <2>4. req[q].signed = NoTx
    BY <1>1, <2>1 DEF Bound
  <2>5. QED
    BY <2>1, <2>2, <2>3, <2>4 DEF Bound, Standing, AgentOf
<1>11. CASE SignerThrows(q)
  <2>1. /\ req'[q].stage = "done" /\ req'[q].signed = req[q].signed /\ req'[q].line = req[q].line
        /\ fate'[q] = fate[q] \/ (fate'[q] = "released" /\ fate[q] = "reserved")
    BY <1>4, <1>5, <1>11 DEF SignerThrows, Deny, Release
  <2>2. QED
    BY <1>1, <2>1 DEF Bound, Standing, AgentOf
<1>12. CASE \E s \in Signed : SignedForSubmit(q, s) \/ SignedForClient(q, s)
  <2>1. PICK s \in Signed : SignedForSubmit(q, s) \/ SignedForClient(q, s)
    BY <1>12
  <2>2. /\ req'[q].stage \in {"broadcast", "done"} /\ req[q].stage = "signing"
        /\ req'[q].signed = s /\ s[1] = req[q].line.tx /\ req'[q].line = req[q].line
        /\ \/ fate'[q] = fate[q]
           \/ fate'[q] \in {"committed", "released"} /\ fate[q] = "reserved"
    BY <1>4, <1>5, <2>1 DEF SignedForSubmit, SignedForClient, Commit
  <2>3. QED
    BY <1>1, <2>2 DEF Bound, Standing, AgentOf
<1>13. CASE \E outcome \in {"accepted", "rejected", "ambiguous"} : BroadcastReturns(q, outcome)
  <2>1. /\ req'[q].stage = "done" /\ req'[q].signed = req[q].signed /\ req'[q].line = req[q].line
        /\ \/ fate'[q] = fate[q]
           \/ fate'[q] \in {"committed", "released"} /\ fate[q] = "reserved"
    BY <1>4, <1>5, <1>13 DEF BroadcastReturns, FateAfter, Commit, Release, Deny
  <2>2. QED
    BY <1>1, <2>1 DEF Bound, Standing, AgentOf
<1>14. CASE RelayReturns(q) \/ QueryReturns(q)
  <2>1. /\ req'[q].stage = "done" /\ req'[q].signed \in {req[q].signed, NoTx}
        /\ req'[q].line = req[q].line /\ fate'[q] = fate[q]
    BY <1>4, <1>14 DEF RelayReturns, QueryReturns
  <2>2. QED
    BY <1>1, <2>1 DEF Bound, Standing, AgentOf
<1>15. QED
  BY <1>8, <1>9, <1>10, <1>11, <1>12, <1>13, <1>14 DEF Resume

LEMMA ElsewhereKeeps ==
    ASSUME TypeOK, Aside \/ UNCHANGED vars
    PROVE  /\ fate' = fate
           /\ \A p \in Requests :
                 /\ req'[p].line = req[p].line /\ req'[p].signed = req[p].signed
                 /\ req'[p].stage \in {req[p].stage, "cut"}
                 /\ req'[p].stage = "cut" => req[p].stage # "idle"
<1>1. CASE Restart
  <2>1. fate' = fate /\ \A p \in Requests :
            /\ req'[p].line = req[p].line /\ req'[p].signed = req[p].signed
            /\ req'[p].stage \in {req[p].stage, "cut"}
    BY <1>1, TypeRestart DEF Restart
  <2>2. ASSUME NEW p \in Requests, req[p].stage = "idle" PROVE req'[p] = req[p]
    BY <1>1, <2>2 DEF Restart, Awaiting
  <2>3. QED
    BY <2>1, <2>2
<1>2. CASE ~Restart
  <2>1. req' = req /\ fate' = fate
    BY <1>2 DEF Aside, NodeApplies, NodeRefuses, Disable, Enable, ClientPushes, Tick,
                decisions, vars
  <2>2. QED
    BY <2>1
<1>3. QED
  BY <1>1, <1>2

LEMMA CapElsewhere ==
    ASSUME CapInv, \/ Aside /\ ChargeInv'
                   \/ UNCHANGED vars /\ ChargeInv'
    PROVE  CapInv'
<1>1. TypeOK /\ (\A p \in Requests : Bound(p) /\ HasLine(p)) /\ WithinCap /\ ChargeInv'
  BY DEF CapInv, ChargeInv
<1>2. /\ fate' = fate
      /\ \A p \in Requests : /\ req'[p].line = req[p].line /\ req'[p].signed = req[p].signed
                             /\ req'[p].stage \in {req[p].stage, "cut"}
                             /\ req'[p].stage = "cut" => req[p].stage # "idle"
  BY <1>1, ElsewhereKeeps
<1>3. \A p \in Requests : Bound(p)' /\ HasLine(p)'
  BY <1>1, <1>2 DEF Bound, HasLine, AgentOf
<1>4. \A a \in Agents : StandingOf(a)' \subseteq StandingOf(a)
  BY <1>2 DEF StandingOf, AgentOf
<1>5. QED
  BY <1>1, <1>3, <1>4, FewerStanding DEF CapInv

LEMMA CapInit == Init => CapInv
<1>1. SUFFICES ASSUME Init PROVE CapInv
  OBVIOUS
<1>2. \A q \in Requests : Bound(q) /\ HasLine(q)
  BY <1>1 DEF Init, Bound, HasLine
<1>3. \A a \in Agents : StandingOf(a) = {}
  BY <1>1 DEF Init, StandingOf, Standing
<1>4. WithinCap
  BY <1>3, FS_EmptySet, DaemonAssumption DEF WithinCap
<1>5. QED
  BY <1>1, <1>2, <1>4, ChargeInit DEF CapInv

LEMMA CapStep == CapInv /\ [Next]_vars => CapInv'
<1>1. SUFFICES ASSUME CapInv, [Next]_vars PROVE CapInv'
  OBVIOUS
<1>2. ChargeInv'
  BY <1>1, ChargeStep DEF CapInv
<1>3. TypeOK
  BY <1>1 DEF CapInv, ChargeInv
<1>4. QED
  BY <1>1, <1>2, <1>3, NextCases, CapHandle, CapResume, CapElsewhere

\* A limit holds on the chain (server.ts, runDecision; identity.ts): no more
\* limited transactions that act for an agent land than its cap.  Each is
\* charged, by a decision of that agent, for one signature is one decision's.
THEOREM CapHoldsOnChain == Spec => []LandedWithinCap
<1>1. ASSUME CapInv, LandableIsCharged PROVE LandedWithinCap
  <2>1. SUFFICES ASSUME NEW a \in Agents PROVE Cardinality(LandedFor(a)) <= Cap
    BY DEF LandedWithinCap
  <2> DEFINE S == StandingOf(a)
             signedBy == [q \in S |-> req[q].signed]
             image == {signedBy[q] : q \in S}
             L == LandedFor(a)
  <2>2. IsFiniteSet(S) /\ Cardinality(S) \in Nat /\ Cardinality(S) <= Cap
    BY <1>1, StandingIsFinite DEF CapInv, WithinCap
  <2>3. L \subseteq image
    <3>1. SUFFICES ASSUME NEW s \in L PROVE s \in image
      OBVIOUS
    <3>2. s \in Landable /\ s[1] \in LimitedTxs /\ Actor[s[1]] = a /\ s \in Signed
      BY <1>1, <3>1 DEF LandedFor, Landable, CapInv, ChargeInv, TypeOK
    <3>3. PICK q \in Requests : req[q].signed = s /\ fate[q] \in Standing
      BY <1>1, <3>2 DEF LandableIsCharged, Charged
    <3>4. s # NoTx /\ fate[q] # "none"
      BY <3>2, <3>3, DaemonAssumption DEF Standing
    <3>5. AgentOf(q) = a
      BY <1>1, <3>2, <3>3, <3>4 DEF CapInv, Bound
    <3>6. QED
      BY <3>3, <3>5 DEF StandingOf
  <2> HIDE DEF S, L
  <2>4. IsFiniteSet(image) /\ Cardinality(image) <= Cardinality(S) /\ Cardinality(image) \in Nat
    <3>1. signedBy \in Surjection(S, image)
      BY DEF Surjection
    <3> HIDE DEF signedBy, image
    <3>2. QED
      BY <2>2, <3>1, FS_Surjection, FS_CardinalityType
  <2> HIDE DEF image
  <2>5. Cardinality(L) <= Cardinality(image) /\ Cardinality(L) \in Nat
    BY <2>3, <2>4, FS_Subset, FS_CardinalityType
  <2>6. Cardinality(L) <= Cap
    BY <2>2, <2>4, <2>5, DaemonAssumption
  <2>7. QED
    BY <2>6 DEF L
<1>2. QED
  BY <1>1, CapInit, CapStep, LandableCharged, PTL DEF Spec

-----------------------------------------------------------------------------
(* The cap, as a ledger's. *)

Kept == {q \in Requests : fate[q] = "committed"}
GivenBack == {q \in Requests : fate[q] = "released"}

\* The rows a ledger counts are the decisions the daemon counts.
LEMMA RowsFit ==
    ASSUME NEW rows, NEW standing,
           \A a \in Agents :
              /\ standing[a] \subseteq Requests /\ Cardinality(standing[a]) <= Cap
              /\ \A r \in rows : r.agent = a =>
                    \E q \in standing[a] : r = [rid |-> q, agent |-> a, at |-> 0]
    PROVE  RowsWithinCap(rows)
<1>1. SUFFICES ASSUME NEW a \in Agents
               PROVE  Cardinality({r \in rows : r.agent = a}) <= Cap
  BY DEF RowsWithinCap
<1> DEFINE S == standing[a]
           rowOf == [q \in S |-> [rid |-> q, agent |-> a, at |-> 0]]
           image == {rowOf[q] : q \in S}
           R == {r \in rows : r.agent = a}
<1>2. IsFiniteSet(S) /\ Cardinality(S) \in Nat /\ Cardinality(S) <= Cap
  BY RequestsAssumption, FS_Subset, FS_CardinalityType
<1>3. R \subseteq image
  OBVIOUS
<1> HIDE DEF S, R
<1>4. IsFiniteSet(image) /\ Cardinality(image) <= Cardinality(S) /\ Cardinality(image) \in Nat
  <2>1. rowOf \in Surjection(S, image)
    BY DEF Surjection
  <2> HIDE DEF rowOf, image
  <2>2. QED
    BY <1>2, <2>1, FS_Surjection, FS_CardinalityType
<1> HIDE DEF image
<1>5. Cardinality(R) <= Cardinality(image) /\ Cardinality(R) \in Nat
  BY <1>3, <1>4, FS_Subset, FS_CardinalityType
<1>6. Cardinality(R) <= Cap
  BY <1>2, <1>4, <1>5, DaemonAssumption
<1>7. QED
  BY <1>6 DEF R

\* What a decision is charged as does not change while others go on.
LEMMA SameCharges ==
    ASSUME \A p \in Requests : /\ fate'[p] = "none" <=> fate[p] = "none"
                               /\ fate[p] # "none" => req'[p].line = req[p].line
    PROVE  Charges' = Charges
BY DEF Charges

\* A decision that has its reservation settles it, or leaves it.
LEMMA LedgerSettles ==
    ASSUME TypeOK, NEW q \in Requests, Alone(q), req'[q].line = req[q].line,
           fate[q] = "reserved", fate'[q] \in {"committed", "released"}
    PROVE  Ledger!LedgerNext
<1>1. UNCHANGED Charges
  BY SameCharges DEF Alone
<1>2. CASE fate'[q] = "committed"
  <2>1. q \notin GivenBack /\ Kept' = Kept \cup {q} /\ GivenBack' = GivenBack
    BY <1>2 DEF Kept, GivenBack, Alone
  <2>2. Ledger!Keep(q)
    BY <1>1, <2>1 DEF Ledger!Keep, Kept, GivenBack
  <2>3. QED
    BY <2>2 DEF Ledger!LedgerNext
<1>3. CASE fate'[q] = "released"
  <2>1. q \notin Kept /\ Kept' = Kept /\ GivenBack' = GivenBack \cup {q}
    BY <1>3 DEF Kept, GivenBack, Alone
  <2>2. Ledger!Refund(q)
    BY <1>1, <2>1 DEF Ledger!Refund, Kept, GivenBack
  <2>3. QED
    BY <2>2 DEF Ledger!LedgerNext
<1>4. QED
  BY <1>2, <1>3

\* A reservation is a charge that has room.
LEMMA LedgerAdmits ==
    ASSUME TypeOK, (TypeOK /\ WithinCap)', NEW q \in Requests, Alone(q),
           req'[q].line = req[q].line, req[q].line \in Lines,
           fate[q] = "none", fate'[q] = "reserved"
    PROVE  Ledger!LedgerNext
<1> DEFINE row == [rid |-> q, agent |-> req[q].line.agent, at |-> 0]
           batch == Charges' \ Charges
<1>1. \A r \in Charges : r.rid # q
  BY DEF Charges
<1>2. Charges' = Charges \cup {row}
  <2>1. \A r : r \in Charges' <=> r \in Charges \/ r = row
    BY DEF Charges, Alone
  <2>2. QED
    BY <2>1
<1>3. batch = {row} /\ row.rid = q
  BY <1>1, <1>2
<1>4. req[q].line.agent \in Agents
  BY LinesAssumption
<1>5. Kept' = Kept /\ GivenBack' = GivenBack
  BY DEF Kept, GivenBack, Alone
<1>6. RowsWithinCap(Ledger!Standing(Charges', GivenBack))
  <2> DEFINE rows == Ledger!Standing(Charges', GivenBack)
             standing == [a \in Agents |-> StandingOf(a)']
  <2>1. SUFFICES ASSUME NEW a \in Agents
                 PROVE  /\ standing[a] \subseteq Requests /\ Cardinality(standing[a]) <= Cap
                        /\ \A r \in rows : r.agent = a =>
                              \E p \in standing[a] : r = [rid |-> p, agent |-> a, at |-> 0]
    BY RowsFit
  <2>2. standing[a] \subseteq Requests /\ Cardinality(standing[a]) <= Cap
    BY DEF WithinCap, StandingOf
  <2>3. ASSUME NEW r \in rows, r.agent = a
        PROVE  \E p \in standing[a] : r = [rid |-> p, agent |-> a, at |-> 0]
    <3>1. r \in Charges' /\ r.rid \notin GivenBack'
      BY <1>5 DEF Ledger!Standing
    <3>2. PICK p \in Requests :
              fate'[p] # "none" /\ r = [rid |-> p, agent |-> req'[p].line.agent, at |-> 0]
      BY <3>1 DEF Charges
    <3>3. r.rid = p /\ req'[p].line.agent = a
      BY <2>3, <3>2
    <3>4. fate'[p] \in Standing
      BY <3>1, <3>2, <3>3 DEF TypeOK, Standing, GivenBack
    <3>5. p \in standing[a]
      BY <3>3, <3>4 DEF StandingOf, AgentOf
    <3>6. QED
      BY <3>2, <3>3, <3>5
  <2>4. QED
    BY <2>2, <2>3
<1>7. Ledger!Admit(batch)
  <2>1. batch # {} /\ batch \subseteq [rid : Requests, agent : Agents, at : {0}]
    <3>1. row \in [rid : Requests, agent : Agents, at : {0}]
      BY <1>4
    <3> HIDE DEF row, batch
    <3>2. QED
      BY <1>3, <3>1
  <2>2. \A r \in batch, s \in Charges : s.rid # r.rid
    BY <1>1, <1>3
  <2>3. \A r, s \in batch : r.rid = s.rid /\ r.agent = s.agent /\ r.at = s.at
    BY <1>3
  <2>4. Charges' = Charges \cup batch
    BY <1>2, <1>3
  <2> HIDE DEF batch, row
  <2>5. QED
    BY <1>5, <1>6, <2>1, <2>2, <2>3, <2>4 DEF Ledger!Admit, Kept, GivenBack
<1>8. QED
  BY <1>7 DEF Ledger!LedgerNext

\* A step that settles nothing and charges nothing.
LEMMA LedgerStutters ==
    ASSUME UNCHANGED fate, \A p \in Requests : fate[p] # "none" => req'[p].line = req[p].line
    PROVE  UNCHANGED <<Charges, Kept, GivenBack>>
BY SameCharges DEF Kept, GivenBack

LEMMA LedgerResume ==
    ASSUME CapInv, CapInv', NEW q \in Requests, Resume(q)
    PROVE  Ledger!LedgerNext \/ UNCHANGED <<Charges, Kept, GivenBack>>
<1>1. TypeOK /\ Orderly(q) /\ HasLine(q) /\ TypeOK' /\ WithinCap'
  BY DEF CapInv, ChargeInv
<1>2. Alone(q) /\ req[q].stage # "idle" /\ req'[q].line = req[q].line /\ req[q].line \in Lines
  BY <1>1, ResumeAlone, ResumeKeepsLine DEF HasLine
<1>3. \A f : Settle(q, f) => fate'[q] = f
  BY <1>1 DEF Settle, TypeOK
<1>4. CASE fate' = fate
  BY <1>2, <1>4, LedgerStutters DEF Alone
<1>5. \/ fate'[q] = fate[q]
      \/ fate[q] = "none" /\ fate'[q] = "reserved"
      \/ fate[q] = "reserved" /\ fate'[q] \in {"committed", "released"}
  <2>1. CASE Decide(q)
    BY <1>1, <1>3, <2>1 DEF Decide, Orderly
  <2>2. CASE ~Decide(q)
    BY <1>3, <2>2 DEF Resume, PolicyArrives, AuthorityArrives, SignerThrows, SignedForSubmit,
              SignedForClient, BroadcastReturns, RelayReturns, QueryReturns, FateAfter, Commit, Release
  <2>3. QED
    BY <2>1, <2>2
<1>6. CASE fate'[q] = fate[q]
  BY <1>1, <1>2, <1>4, <1>6 DEF Alone, TypeOK
<1>7. CASE fate[q] = "none" /\ fate'[q] = "reserved"
  BY <1>1, <1>2, <1>7, LedgerAdmits
<1>8. CASE fate[q] = "reserved" /\ fate'[q] \in {"committed", "released"}
  BY <1>1, <1>2, <1>8, LedgerSettles
<1>9. QED
  BY <1>5, <1>6, <1>7, <1>8

\* The daemon, with everything that goes on at once in it, treats the quota as
\* the abstract ledger does (server.ts, runDecision): a decision admits its
\* charge or settles it, a restart and all else leaves the ledger alone.
THEOREM DaemonImplementsLedger == Spec => LedgerImplemented
<1>1. Init => Ledger!LedgerInit
  BY DEF Init, Ledger!LedgerInit, Charges
<1>2. CapInv /\ CapInv' /\ [Next]_vars => [Ledger!LedgerNext]_(Ledger!ledgerVars)
  <2>1. SUFFICES ASSUME CapInv, CapInv', [Next]_vars
                 PROVE  Ledger!LedgerNext \/ UNCHANGED <<Charges, Kept, GivenBack>>
    BY DEF Ledger!ledgerVars, Kept, GivenBack
  <2>2. TypeOK /\ \A q \in Requests : Orderly(q)
    BY <2>1 DEF CapInv, ChargeInv
  <2>3. ASSUME NEW q \in Requests, NEW l \in Lines, NEW token \in 0 .. MaxBoots,
               Handle(q, l, token)
        PROVE  UNCHANGED <<Charges, Kept, GivenBack>>
    <3>1. Alone(q) /\ UNCHANGED fate /\ fate[q] = "none"
      BY <2>2, <2>3, HandleAlone DEF Handle, TurnAway, DenyAtGate, StartDecision, StartRelay,
                                     RefuseRead, Read, Arrives, Orderly
    <3>2. QED
      BY <3>1, LedgerStutters DEF Alone
  <2>4. CASE Aside \/ UNCHANGED vars
    BY <2>2, <2>4, ElsewhereKeeps, LedgerStutters
  <2>5. QED
    BY <2>1, <2>2, <2>3, <2>4, LedgerResume, NextCases
<1>3. QED
  BY <1>1, <1>2, CapInit, CapStep, PTL DEF Spec, LedgerImplemented, Ledger!LedgerSpec

-----------------------------------------------------------------------------
(* Anti-replay. *)

\* A line that passed in this life of the daemon is in the nonce cache for as
\* long as its window is open.
Remembered(q) ==
    Passed(q) =>
        /\ req[q].line \in Lines
        /\ req[q].token <= boot
        /\ req[q].token = boot =>
              \/ clock >= req[q].line.expires
              \/ nonces[req[q].line.agent][req[q].line.nonce] >= req[q].line.expires

\* What awaits something was not answered yet.
Unanswered == \A q \in Requests : req[q].stage \in Awaiting => req[q].answer = "none"

ReplayInv == TypeOK /\ Unanswered /\ (\A q \in Requests : Remembered(q)) /\ NoReplay

\* What is swept, or registered under the nonce of an earlier line, is expired.
LEMMA RegisteredKeeps ==
    ASSUME NEW cache \in [Nonces -> Nat], NEW nonce \in Nonces, NEW expires \in Nat,
           NEW now \in Nat, Fresh(cache, nonce, now), expires > now, NEW n \in Nonces, NEW e \in Nat,
           now >= e \/ cache[n] >= e
    PROVE  now >= e \/ Registered(cache, nonce, expires, now)[n] >= e
<1>1. Registered(cache, nonce, expires, now)[n] =
          IF n = nonce THEN expires ELSE Swept(cache, now)[n]
  BY DEF Registered, Swept, Purged, Never
<1>2. n = nonce => now >= e
  BY DEF Fresh
<1>3. now >= e \/ Swept(cache, now)[n] >= e
  BY DEF Swept, Purged, Never
<1>4. QED
  BY <1>1, <1>2, <1>3

\* A line just let through: no other had passed with its bytes, and its nonce
\* is registered.
LEMMA ReplayPasses ==
    ASSUME ReplayInv, TypeOK', Unanswered', NEW q \in Requests, NEW l \in Lines, NEW token \in 0 .. MaxBoots,
           Passes(l, token), TakeNonce(l), UNCHANGED <<boot, clock>>, req[q].stage = "idle",
           \A p \in Requests \ {q} : req'[p] = req[p],
           req'[q].line = l, req'[q].token = token
    PROVE  ReplayInv'
<1>1. /\ l.agent \in Agents /\ l.nonce \in Nonces /\ l.expires \in Nat
      /\ l.expires > clock /\ token = boot /\ Fresh(nonces[l.agent], l.nonce, clock)
  BY PassesType
<1>2. nonces \in [Agents -> [Nonces -> Nat]] /\ clock \in Nat /\ boot \in Nat
  BY DaemonAssumption DEF ReplayInv, TypeOK
<1>3. nonces' = [nonces EXCEPT ![l.agent] = Registered(nonces[l.agent], l.nonce, l.expires, clock)]
  BY DEF TakeNonce
<1>4. \A a \in Agents, n \in Nonces, e \in Nat :
          (clock >= e \/ nonces[a][n] >= e) => (clock >= e \/ nonces'[a][n] >= e)
  <2>1. TAKE a \in Agents, n \in Nonces, e \in Nat
  <2>2. CASE a = l.agent
    BY <1>1, <1>2, <1>3, <2>2, RegisteredKeeps
  <2>3. CASE a # l.agent
    BY <1>2, <1>3, <2>3
  <2>4. QED
    BY <2>2, <2>3
<1>5. nonces'[l.agent][l.nonce] = l.expires
  BY <1>1, <1>2, <1>3 DEF Registered, Swept, Purged, Never
<1>6. \A p \in Requests \ {q} : Passed(p)' <=> Passed(p)
  BY DEF Passed
<1>7. ASSUME NEW p \in Requests \ {q}, Passed(p)
      PROVE  Remembered(p)' /\ ~(req[p].line = l /\ req[p].token = token)
  <2>1. /\ req[p].line \in Lines /\ req[p].token <= boot
        /\ req[p].token = boot =>
              \/ clock >= req[p].line.expires
              \/ nonces[req[p].line.agent][req[p].line.nonce] >= req[p].line.expires
    BY <1>7 DEF ReplayInv, Remembered
  <2>2. /\ req[p].line.agent \in Agents /\ req[p].line.nonce \in Nonces
        /\ req[p].line.expires \in Nat
    BY <1>7, <2>1, LinesAssumption DEF Passed
  <2>3. Remembered(p)'
    BY <1>4, <2>1, <2>2 DEF Remembered
  <2>4. ~(req[p].line = l /\ req[p].token = token)
    BY <1>1, <1>2, <2>1, <2>2 DEF Fresh
  <2>5. QED
    BY <2>3, <2>4
<1>8. Remembered(q)'
  BY <1>1, <1>2, <1>5 DEF Remembered
<1>9. \A p \in Requests : Remembered(p)'
  BY <1>6, <1>7, <1>8 DEF Remembered
<1>10. NoReplay'
  BY <1>6, <1>7 DEF ReplayInv, NoReplay
<1>11. QED
  BY <1>9, <1>10 DEF ReplayInv

\* Any step that lets no line through, and neither sweeps nor forgets.
LEMMA ReplayKeeps ==
    ASSUME ReplayInv, TypeOK', Unanswered', UNCHANGED <<boot, nonces>>, clock <= clock',
           \A p \in Requests : Passed(p)' =>
               Passed(p) /\ req'[p].line = req[p].line /\ req'[p].token = req[p].token
    PROVE  ReplayInv'
<1>1. \A p \in Requests : Remembered(p)'
  <2>1. SUFFICES ASSUME NEW p \in Requests, Passed(p)' PROVE Remembered(p)'
    BY DEF Remembered
  <2>2. /\ req[p].line \in Lines /\ req[p].token <= boot
        /\ req[p].token = boot =>
              \/ clock >= req[p].line.expires
              \/ nonces[req[p].line.agent][req[p].line.nonce] >= req[p].line.expires
    BY <2>1 DEF ReplayInv, Remembered
  <2>3. req[p].line.expires \in Nat /\ clock \in Nat /\ clock' \in Nat
    BY <2>2, LinesAssumption, DaemonAssumption DEF ReplayInv, TypeOK
  <2>4. QED
    BY <2>1, <2>2, <2>3 DEF Remembered
<1>2. NoReplay'
  BY DEF ReplayInv, NoReplay
<1>3. QED
  BY <1>1, <1>2 DEF ReplayInv

LEMMA ReplayHandle ==
    ASSUME ReplayInv, NEW q \in Requests, NEW l \in Lines, NEW token \in 0 .. MaxBoots,
           Handle(q, l, token)
    PROVE  ReplayInv'
<1>1. TypeOK /\ TypeOK'
  BY TypeHandle DEF ReplayInv
<1>2. /\ req[q].stage = "idle" /\ \A p \in Requests \ {q} : req'[p] = req[p]
      /\ UNCHANGED <<boot, clock>>
  BY <1>1, HandleAlone DEF Alone, Handle, TurnAway, DenyAtGate, StartDecision, StartRelay,
                           RefuseRead, Read, Arrives
<1>3. \A stage, answer, s : Arrived(q, l, token, stage, answer, s) =>
          req'[q].answer = answer /\ req'[q].line = l /\ req'[q].token = token
  BY <1>1 DEF Arrived, TypeOK
<1>4. Unanswered'
  <2>1. \A stage, answer, s : Arrived(q, l, token, stage, answer, s) => req'[q].stage = stage
    BY <1>1 DEF Arrived, TypeOK
  <2>2. req'[q].stage \in Awaiting => req'[q].answer = "none"
    BY <1>3, <2>1 DEF Handle, TurnAway, DenyAtGate, StartDecision, StartRelay, RefuseRead, Read,
                      Awaiting
  <2>3. QED
    BY <1>2, <2>2 DEF ReplayInv, Unanswered
<1>5. CASE DenyAtGate(q, l, token) \/ StartDecision(q, l, token) \/ StartRelay(q, l, token)
  <2>1. Passes(l, token) /\ TakeNonce(l) /\ req'[q].line = l /\ req'[q].token = token
    BY <1>3, <1>5 DEF DenyAtGate, StartDecision, StartRelay
  <2>2. QED
    BY <1>1, <1>2, <1>4, <2>1, ReplayPasses
<1>6. CASE TurnAway(q, l, token) \/ RefuseRead(q, l, token) \/ Read(q, l, token)
  <2>1. UNCHANGED nonces
    BY <1>6 DEF TurnAway, RefuseRead, Read
  <2>2. req'[q].answer = "turned_away" \/ req'[q].line.op \in Reads
    BY <1>3, <1>6 DEF TurnAway, RefuseRead, Read
  <2>3. ~Passed(q)'
    BY <2>2 DEF Passed
  <2>4. \A p \in Requests : Passed(p)' =>
            Passed(p) /\ req'[p].line = req[p].line /\ req'[p].token = req[p].token
    BY <1>2, <2>3 DEF Passed
  <2>5. clock <= clock'
    BY <1>1, <1>2, DaemonAssumption DEF TypeOK
  <2>6. QED
    BY <1>1, <1>2, <1>4, <2>1, <2>4, <2>5, ReplayKeeps
<1>7. QED
  BY <1>5, <1>6 DEF Handle

LEMMA ReplayResume ==
    ASSUME ReplayInv, NEW q \in Requests, Resume(q)
    PROVE  ReplayInv'
<1>1. TypeOK /\ TypeOK'
  BY TypeResume DEF ReplayInv
<1>2. UNCHANGED <<boot, nonces, clock>>
  BY DEF Resume, PolicyArrives, AuthorityArrives, Decide, SignerThrows, SignedForSubmit,
         SignedForClient, BroadcastReturns, RelayReturns, QueryReturns
<1>3. PICK there, bytes, told : Becomes(q, there, bytes, told)
  BY DEF Resume, PolicyArrives, AuthorityArrives, Decide, SignerThrows, SignedForSubmit,
         SignedForClient, BroadcastReturns, RelayReturns, QueryReturns, Deny, Await
<1>4. req'[q].line = req[q].line /\ req'[q].token = req[q].token
  BY <1>1, <1>3 DEF Becomes, TypeOK
<1>5. req[q].stage \in Awaiting /\ req[q].answer = "none"
  <2>1. req[q].stage \in Awaiting
    BY DEF Resume, PolicyArrives, AuthorityArrives, Decide, SignerThrows, SignedForSubmit,
           SignedForClient, BroadcastReturns, RelayReturns, QueryReturns, Awaiting
  <2>2. QED
    BY <2>1 DEF ReplayInv, Unanswered
<1>6. \A p \in Requests : Passed(p)' =>
          Passed(p) /\ req'[p].line = req[p].line /\ req'[p].token = req[p].token
  BY <1>1, <1>4, <1>5, ResumeAlone DEF Alone, Passed, Awaiting
<1>7. clock <= clock'
  BY <1>1, <1>2, DaemonAssumption DEF TypeOK
<1>8. Unanswered'
  <2>1. \A stage, s, answer : Becomes(q, stage, s, answer) =>
            req'[q].stage = stage /\ req'[q].answer = answer
    BY <1>1 DEF Becomes, TypeOK
  <2>2. \/ \E stage, s : Becomes(q, stage, s, "none")
        \/ \E s, answer : Becomes(q, "done", s, answer)
    BY DEF Resume, PolicyArrives, AuthorityArrives, Decide, SignerThrows, SignedForSubmit,
           SignedForClient, BroadcastReturns, RelayReturns, QueryReturns, Deny, Await
  <2>3. req'[q].stage \in Awaiting => req'[q].answer = "none"
    BY <2>1, <2>2 DEF Awaiting
  <2>4. QED
    BY <1>1, <2>3, ResumeAlone DEF Alone, ReplayInv, Unanswered
<1>9. QED
  BY <1>1, <1>2, <1>6, <1>7, <1>8, ReplayKeeps

LEMMA ReplayElsewhere ==
    ASSUME ReplayInv, ChargeInv, Aside
    PROVE  ReplayInv'
<1>1. TypeOK /\ TypeOK'
  BY ChargeElsewhere DEF ReplayInv, ChargeInv
<1>2. CASE Restart
  <2>1. boot' = boot + 1 /\ boot \in Nat
    BY <1>1, <1>2 DEF Restart, TypeOK
  <2>2. \A p \in Requests :
            /\ req'[p].line = req[p].line /\ req'[p].token = req[p].token
            /\ req'[p].answer = req[p].answer
            /\ req'[p].stage = IF req[p].stage \in Awaiting THEN "cut" ELSE req[p].stage
    BY <1>1, <1>2, TypeRestart
  <2>3. \A p \in Requests : Passed(p)' <=> Passed(p)
    BY <2>2 DEF Passed, Awaiting
  <2>4. \A p \in Requests : Passed(p) => req[p].token \in Nat /\ req[p].token <= boot
    BY <1>1 DEF ReplayInv, Remembered, TypeOK
  <2>5. \A p \in Requests : Remembered(p)'
    BY <2>1, <2>2, <2>3, <2>4 DEF ReplayInv, Remembered
  <2>6. Unanswered'
    BY <2>2 DEF ReplayInv, Unanswered, Awaiting
  <2>7. NoReplay'
    BY <2>2, <2>3 DEF ReplayInv, NoReplay
  <2>8. QED
    BY <1>1, <2>5, <2>6, <2>7 DEF ReplayInv
<1>3. CASE ~Restart
  <2>1. UNCHANGED <<boot, nonces, req>> /\ (clock' = clock \/ clock' = clock + 1)
    BY <1>3 DEF Aside, NodeApplies, NodeRefuses, Disable, Enable, ClientPushes, Tick,
                decisions, chain
  <2>2. clock <= clock'
    BY <1>1, <2>1, DaemonAssumption DEF TypeOK
  <2>3. \A p \in Requests : Passed(p)' =>
            Passed(p) /\ req'[p].line = req[p].line /\ req'[p].token = req[p].token
    BY <2>1 DEF Passed
  <2>4. Unanswered'
    BY <2>1 DEF ReplayInv, Unanswered
  <2>5. QED
    BY <1>1, <2>1, <2>2, <2>3, <2>4, ReplayKeeps
<1>4. QED
  BY <1>2, <1>3

LEMMA ReplayStutters ==
    ASSUME ReplayInv, UNCHANGED vars
    PROVE  ReplayInv'
<1>1. TypeOK' /\ Unanswered'
  BY DEF ReplayInv, Unanswered, TypeOK, vars, decisions, chain
<1>2. \A p \in Requests : Passed(p)' =>
          Passed(p) /\ req'[p].line = req[p].line /\ req'[p].token = req[p].token
  BY DEF Passed, vars, decisions
<1>3. clock <= clock' /\ UNCHANGED <<boot, nonces>>
  BY DaemonAssumption DEF ReplayInv, TypeOK, vars
<1>4. QED
  BY <1>1, <1>2, <1>3, ReplayKeeps

\* One line, byte for byte, gets past the gate at most once, whatever else
\* arrives, however full the cache, and across restarts (server.ts, the gate;
\* nonceCache.ts; daemonRunner.ts, the token).
THEOREM NothingReplayed == Spec => []NoReplay
<1>1. Init => ReplayInv
  <2>1. SUFFICES ASSUME Init PROVE ReplayInv
    OBVIOUS
  <2>2. \A p \in Requests : req[p].stage = "idle"
    BY <2>1 DEF Init
  <2>3. QED
    BY <2>1, <2>2, TypeInit DEF ReplayInv, Remembered, NoReplay, Passed, Unanswered, Awaiting
<1>2. ReplayInv /\ ChargeInv /\ [Next]_vars => ReplayInv'
  <2>1. SUFFICES ASSUME ReplayInv, ChargeInv, Next PROVE ReplayInv'
    BY ReplayStutters
  <2>2. QED
    BY <2>1, NextCases, ReplayHandle, ReplayResume, ReplayElsewhere DEF ReplayInv
<1>3. ReplayInv => NoReplay
  BY DEF ReplayInv
<1>4. QED
  BY <1>1, <1>2, <1>3, ChargeInit, ChargeStep, PTL DEF Spec
=============================================================================
