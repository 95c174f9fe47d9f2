--------------------------- MODULE SigningDaemon ---------------------------
(***************************************************************************)
(* The decision pipeline of the daemon (src/daemon/server.ts).             *)
(*                                                                         *)
(* Lines arrive on the socket and are decided concurrently in one event    *)
(* loop: what happens between two awaits is one action, and anything may   *)
(* happen during an await - other decisions, an administrator's command,   *)
(* the death of the process.  A request slot q follows one line from its   *)
(* arrival to its answer through the stages                                *)
(*                                                                         *)
(*   idle -> policy -> authority [-> evidence] -> signing [-> broadcast]   *)
(*   idle -> relay                    (op "broadcast", the standalone path)*)
(*   idle -> query                    (op "query", a read of the chain)    *)
(*                                                                         *)
(* each named for the await the decision is in.  The quota journal appears *)
(* by what it does at this level (QuotaJournal.tla has the detail): a      *)
(* reservation is refused at the cap, and commit() gives back the second   *)
(* reservation of a digest.  The chain and the RPC endpoint are external:  *)
(* they may apply or refuse what is pushed, late or never, and every reply *)
(* may be lost.                                                            *)
(***************************************************************************)
EXTENDS NonceCache, Sequences

CONSTANTS
    Agents,
    Capabilities,       \* [agent -> subset of {"sign", "broadcast"}]
    BroadcasterWired,   \* whether the deployment enabled broadcasting
    Requests,           \* slots for the lines handled, in any daemon's life
    Lines,              \* the lines clients write, but for their token
    Txs, LimitedTxs,    \* transactions, and those whose rule has limits
    Actor,              \* [transaction -> the account its actions act for]
    Envelopes,          \* the TAPOS header and expiration the signer adds
    Cap,                \* most limited transactions of an agent in the window
    MaxTtl, MaxSkew,    \* maxRequestTtlMs, maxClockSkewMs
    Faults,             \* local stores whose writes may fail
    MaxBoots, MaxClock, \* bounds
    NoLine, NoTx

Reads == {"whoami", "query"}
Ops == {"sign", "submit", "push"} \cup Reads
Signed == Txs \X Envelopes

ASSUME LinesAssumption ==
    \A l \in Lines :
        /\ l.op \in Ops /\ l.agent \in Agents
        /\ l.asked \in Nat /\ l.expires \in Nat
        /\ l.op \notin Reads => l.nonce \in Nonces /\ l.chainOk \in BOOLEAN

ASSUME DaemonAssumption ==
    /\ Capabilities \in [Agents -> SUBSET {"sign", "broadcast"}]
    /\ BroadcasterWired \in BOOLEAN
    /\ LimitedTxs \subseteq Txs /\ DOMAIN Actor = Txs
    /\ MaxBoots \in Nat \ {0} /\ MaxClock \in Nat
    /\ Cap \in Nat /\ MaxTtl \in Nat /\ MaxSkew \in Nat
    /\ Faults \subseteq {"journal", "audit"}
    /\ NoLine \notin Lines /\ NoTx \notin Signed

\* A daemon handles finitely many lines in its life.
ASSUME RequestsAssumption == IsFiniteSet(Requests)

Awaiting == {"policy", "authority", "evidence", "signing", "broadcast", "relay", "query"}
Stages == {"idle", "done", "cut"} \cup Awaiting
\* "turned_away" is a denial before the nonce was registered.
Answers == {"none", "turned_away", "denied", "signed", "submitted", "relayed", "read"}

VARIABLES
    boot,        \* how often the daemon was started; its tokens are of that boot
    enabled,     \* runtime.enabled, the local kill-switch
    nonces,      \* the nonce cache of each agent
    req,         \* the decisions: [stage, line, token, signed, answer]
    fate,        \* the quota journal: the reservation of each request
    log,         \* the audit log: the decision recorded for each request
    push,        \* what became of the bytes a request pushed to the node
    landed,      \* signed transactions on the chain
    handed,      \* signed transactions that clients hold
    clock

decisions == <<req, fate, log>>
chain == <<push, landed>>
vars == <<boot, enabled, nonces, decisions, chain, handed, clock>>

-----------------------------------------------------------------------------
(* The gate every line passes before the first await. *)

\* (mutant) the token file of the last run is used again
TokenKept(b) == 1

\* A new random token is written at every start.
TokenOf(b) == b

Authentic(l, token) == token = TokenOf(boot)

InWindow(l) ==
    /\ l.expires > clock
    /\ l.asked <= clock + MaxSkew
    /\ l.expires > l.asked
    /\ l.expires - l.asked <= MaxTtl

MayPush(a) == "broadcast" \in Capabilities[a] /\ BroadcasterWired

\* A request to sign is held to its capabilities before its nonce is taken,
\* a standalone broadcast after.
MaySign(l) ==
    /\ "sign" \in Capabilities[l.agent]
    /\ l.op = "submit" => MayPush(l.agent)

\* The schema of the line's operation: what it carries is of the right kind.
Parses(l) ==
    /\ l.op \in Reads => l.readOnly \in BOOLEAN
    /\ l.op = "push" => l.signed \in Signed
    /\ l.op \in {"sign", "submit"} => l.tx \in Txs

\* What every line is held to; a read is held to nothing else.
Admitted(l, token) ==
    /\ Parses(l)
    /\ Authentic(l, token)
    /\ enabled[l.agent]
    /\ InWindow(l)

Passes(l, token) ==
    /\ l.op \notin Reads
    /\ Admitted(l, token)
    /\ l.op # "push" => MaySign(l)
    /\ Fresh(nonces[l.agent], l.nonce, clock)

-----------------------------------------------------------------------------
(* What a decision does to the stores. *)

AgentOf(q) == req[q].line.agent

Standing == {"reserved", "committed"}

\* (mutant) reservations do not count until they are committed
HasRoomOnceCommitted(a) ==
    Cardinality({q \in Requests : fate[q] = "committed" /\ AgentOf(q) = a}) < Cap

HasRoom(a) ==
    Cardinality({q \in Requests : fate[q] \in Standing /\ AgentOf(q) = a}) < Cap

CommittedAlready(q, s) ==
    \E p \in Requests : fate[p] = "committed" /\ AgentOf(p) = AgentOf(q) /\ req[p].signed = s

\* The fate commit() gives the reservation of q; without one it does nothing.
Commit(q, s) ==
    IF fate[q] # "reserved" THEN fate[q]
    ELSE IF CommittedAlready(q, s) THEN "released" ELSE "committed"

\* (mutant) nothing is given back
ReleaseNothing(q) == fate[q]

Release(q) == IF fate[q] = "reserved" THEN "released" ELSE fate[q]

Settle(q, f) == fate' = [fate EXCEPT ![q] = f]

\* A write of a settlement can throw, if there is a reservation to settle.
SettleThrows(q) == "journal" \in Faults /\ fate[q] = "reserved"

\* Errors of the audit log never fail a decision.
Record(q, decision) ==
    \/ log' = [log EXCEPT ![q] = decision]
    \/ "audit" \in Faults /\ UNCHANGED log

Becomes(q, stage, s, answer) ==
    req' = [req EXCEPT ![q] = [stage |-> stage, line |-> @.line, token |-> @.token,
                               signed |-> s, answer |-> answer]]

Deny(q) == Becomes(q, "done", req[q].signed, "denied") /\ Record(q, "denied")

Await(q, stage) == Becomes(q, stage, req[q].signed, "none") /\ UNCHANGED log

-----------------------------------------------------------------------------
Init ==
    /\ boot = 1
    /\ enabled = [a \in Agents |-> TRUE]
    /\ nonces = [a \in Agents |-> NoEntries]
    /\ req = [q \in Requests |->
                [stage |-> "idle", line |-> NoLine, token |-> 0, signed |-> NoTx, answer |-> "none"]]
    /\ fate = [q \in Requests |-> "none"]
    /\ log = [q \in Requests |-> "none"]
    /\ push = [q \in Requests |-> "none"]
    /\ landed = {} /\ handed = {}
    /\ clock = 0

\* A client writes a line with a token it was given in this or an earlier
\* life of the daemon; it can only push bytes it holds.
Arrives(q, l, token) ==
    /\ req[q].stage = "idle"
    /\ l.op = "push" => l.signed \in handed

Arrived(q, l, token, stage, answer, s) ==
    req' = [req EXCEPT ![q] = [stage |-> stage, line |-> l, token |-> token,
                               signed |-> s, answer |-> answer]]

TurnAway(q, l, token) ==
    /\ Arrives(q, l, token) /\ l.op \notin Reads
    /\ ~Passes(l, token)
    /\ Arrived(q, l, token, "done", "turned_away", NoTx)
    /\ Record(q, "denied")
    /\ UNCHANGED <<boot, enabled, nonces, fate, chain, handed, clock>>

TakeNonce(l) ==
    nonces' = [nonces EXCEPT ![l.agent] = Registered(@, l.nonce, l.expires, clock)]

\* wrong chain, or a standalone broadcast that was not granted
DenyAtGate(q, l, token) ==
    /\ Arrives(q, l, token)
    /\ Passes(l, token)
    /\ ~l.chainOk \/ (l.op = "push" /\ ~MayPush(l.agent))
    /\ TakeNonce(l)
    /\ Arrived(q, l, token, "done", "denied", NoTx)
    /\ Record(q, "denied")
    /\ UNCHANGED <<boot, enabled, fate, chain, handed, clock>>

StartDecision(q, l, token) ==
    /\ Arrives(q, l, token)
    /\ Passes(l, token)
    /\ l.chainOk /\ l.op # "push"
    /\ TakeNonce(l)
    /\ Arrived(q, l, token, "policy", "none", NoTx)
    /\ UNCHANGED <<boot, enabled, fate, log, chain, handed, clock>>

StartRelay(q, l, token) ==
    /\ Arrives(q, l, token)
    /\ Passes(l, token)
    /\ l.chainOk /\ l.op = "push" /\ MayPush(l.agent)
    /\ TakeNonce(l)
    /\ Arrived(q, l, token, "relay", "none", l.signed)
    /\ push' = [push EXCEPT ![q] = "sent"]
    /\ UNCHANGED <<boot, enabled, fate, log, landed, handed, clock>>

\* The relay has an allow-list of methods.
Relayed(l) == l.op = "query" => l.readOnly

\* whoami and query: no nonce is taken, no policy asked for, nothing recorded.
RefuseRead(q, l, token) ==
    /\ Arrives(q, l, token) /\ l.op \in Reads
    /\ ~(Admitted(l, token) /\ Relayed(l))
    /\ Arrived(q, l, token, "done", "turned_away", NoTx)
    /\ UNCHANGED <<boot, enabled, nonces, fate, log, chain, handed, clock>>

Read(q, l, token) ==
    /\ Arrives(q, l, token) /\ l.op \in Reads
    /\ Admitted(l, token) /\ Relayed(l)
    /\ \/ l.op = "whoami" /\ Arrived(q, l, token, "done", "read", NoTx)
       \/ l.op = "query" /\ Arrived(q, l, token, "query", "none", NoTx)
    /\ UNCHANGED <<boot, enabled, nonces, fate, log, chain, handed, clock>>

\* The node's answer, if it came and is not too long.
QueryReturns(q) ==
    /\ req[q].stage = "query"
    /\ \E answer \in {"read", "denied"} : Becomes(q, "done", NoTx, answer)
    /\ UNCHANGED <<boot, enabled, nonces, fate, log, chain, handed, clock>>

\* (mutant) the transaction is only held to the permission
checkPermissionOnly(q) == TRUE

\* An agent is an account, and signs for no other.
checkLocalIdentity(q) == Actor[req[q].line.tx] = AgentOf(q)

\* policyCache.get() comes back: the policy is confirmed, or unavailable or
\* disabled on-chain; then decoding and the local identity check.
PolicyArrives(q) ==
    /\ req[q].stage = "policy"
    /\ (checkLocalIdentity(q) /\ Await(q, "authority")) \/ Deny(q)
    /\ UNCHANGED <<boot, enabled, nonces, fate, chain, handed, clock>>

\* authority.check() comes back, and the policy has provider queries.
AuthorityArrives(q) ==
    /\ req[q].stage = "authority"
    /\ Await(q, "evidence") \/ Deny(q)
    /\ UNCHANGED <<boot, enabled, nonces, fate, chain, handed, clock>>

\* The last read is in (providers resolve or time out after 3 s).  Evaluation,
\* reservation and the call of the signer follow without an await.
Decide(q) ==
    /\ req[q].stage \in {"authority", "evidence"}
    /\ IF req[q].line.tx \notin LimitedTxs
       THEN /\ Await(q, "signing") \/ Deny(q)
            /\ UNCHANGED fate
       ELSE \/ /\ HasRoom(AgentOf(q))
               /\ Settle(q, "reserved")
               /\ Await(q, "signing")
            \/ /\ Deny(q)       \* by a rule, or the limit
               /\ UNCHANGED fate
    /\ UNCHANGED <<boot, enabled, nonces, chain, handed, clock>>

SignerThrows(q) ==
    /\ req[q].stage = "signing"
    /\ Settle(q, Release(q)) \/ (SettleThrows(q) /\ UNCHANGED fate)
    /\ Deny(q)
    /\ UNCHANGED <<boot, enabled, nonces, chain, handed, clock>>

\* sign() comes back on the submit path: the bytes go to the broadcaster.
SignedForSubmit(q, s) ==
    /\ req[q].stage = "signing" /\ req[q].line.op = "submit"
    /\ s[1] = req[q].line.tx
    /\ Becomes(q, "broadcast", s, "none")
    /\ push' = [push EXCEPT ![q] = "sent"]
    /\ UNCHANGED <<boot, enabled, nonces, fate, log, landed, handed, clock>>

\* sign() comes back on the plain path: commit, then answer with the bytes.
\* If commit() throws the bytes stay inside and the answer is INTERNAL_ERROR.
SignedForClient(q, s) ==
    /\ req[q].stage = "signing" /\ req[q].line.op = "sign"
    /\ s[1] = req[q].line.tx
    /\ \/ /\ Settle(q, Commit(q, s))
          /\ Becomes(q, "done", s, "signed")
          /\ Record(q, "signed")
          /\ handed' = handed \cup {s}
       \/ /\ SettleThrows(q)
          /\ Becomes(q, "done", s, "denied")
          /\ Record(q, "denied")
          /\ UNCHANGED <<fate, handed>>
    /\ UNCHANGED <<boot, enabled, nonces, chain, clock>>

\* (mutant) a lost reply is not reported
OutcomesOfReplies(q) ==
    {o \in {"accepted", "rejected"} :
        push[q] = IF o = "accepted" THEN "applied" ELSE "refused"}

\* What the broadcaster can report of a push: a duplicate is an acceptance,
\* a reply may always be lost.
Outcomes(q) ==
    {"ambiguous"} \cup {o \in {"accepted", "rejected"} :
                           push[q] = IF o = "accepted" THEN "applied" ELSE "refused"}

\* (mutant) everything but an acceptance gives the quota back
FateAfterUnconfirmed(q, outcome) ==
    IF outcome # "accepted" THEN Release(q) ELSE Commit(q, req[q].signed)

\* The quota follows the chain: given back only if the chain refused.
FateAfter(q, outcome) ==
    IF outcome = "rejected" THEN Release(q) ELSE Commit(q, req[q].signed)

BroadcastReturns(q, outcome) ==
    /\ req[q].stage = "broadcast"
    /\ outcome \in Outcomes(q)
    /\ \/ /\ Settle(q, FateAfter(q, outcome))
          /\ Becomes(q, "done", req[q].signed, "submitted")
          /\ Record(q, "signed")
       \/ /\ SettleThrows(q)
          /\ Deny(q)
          /\ UNCHANGED fate
    /\ UNCHANGED <<boot, enabled, nonces, chain, handed, clock>>

RelayReturns(q) ==
    /\ req[q].stage = "relay"
    /\ Becomes(q, "done", req[q].signed, "relayed")
    /\ Record(q, "broadcast")
    /\ UNCHANGED <<boot, enabled, nonces, fate, chain, handed, clock>>

-----------------------------------------------------------------------------
(* Administration, and the life of the process. *)

Disable(a) ==
    /\ enabled' = [enabled EXCEPT ![a] = FALSE]
    /\ UNCHANGED <<boot, nonces, decisions, chain, handed, clock>>

Enable(a) ==
    /\ enabled' = [enabled EXCEPT ![a] = TRUE]
    /\ UNCHANGED <<boot, nonces, decisions, chain, handed, clock>>

\* The process dies or is stopped, and starts again: the journal and the audit
\* log survive, everything else is new.  No decision goes on.
Restart ==
    /\ boot < MaxBoots
    /\ boot' = boot + 1
    /\ enabled' = [a \in Agents |-> TRUE]
    /\ nonces' = [a \in Agents |-> NoEntries]
    /\ req' = [q \in Requests |->
                 IF req[q].stage \in Awaiting THEN [req[q] EXCEPT !.stage = "cut"] ELSE req[q]]
    /\ UNCHANGED <<fate, log, chain, handed, clock>>

-----------------------------------------------------------------------------
(* The chain, and clients with an endpoint of their own. *)

NodeApplies(q) ==
    /\ push[q] = "sent"
    /\ push' = [push EXCEPT ![q] = "applied"]
    /\ landed' = landed \cup {req[q].signed}
    /\ UNCHANGED <<boot, enabled, nonces, decisions, handed, clock>>

NodeRefuses(q) ==
    /\ push[q] = "sent"
    /\ push' = [push EXCEPT ![q] = "refused"]
    /\ UNCHANGED <<boot, enabled, nonces, decisions, landed, handed, clock>>

ClientPushes(s) ==
    /\ s \in handed
    /\ landed' = landed \cup {s}
    /\ UNCHANGED <<boot, enabled, nonces, decisions, push, handed, clock>>

Tick ==
    /\ clock < MaxClock
    /\ clock' = clock + 1
    /\ UNCHANGED <<boot, enabled, nonces, decisions, chain, handed>>

-----------------------------------------------------------------------------
\* The event loop resumes decision q.
Resume(q) ==
    \/ PolicyArrives(q)
    \/ AuthorityArrives(q)
    \/ Decide(q)
    \/ SignerThrows(q)
    \/ \E s \in Signed : SignedForSubmit(q, s) \/ SignedForClient(q, s)
    \/ \E outcome \in {"accepted", "rejected", "ambiguous"} : BroadcastReturns(q, outcome)
    \/ RelayReturns(q)
    \/ QueryReturns(q)

\* A line is read from a connection.
Handle(q, l, token) ==
    \/ TurnAway(q, l, token)
    \/ DenyAtGate(q, l, token)
    \/ StartDecision(q, l, token)
    \/ StartRelay(q, l, token)
    \/ RefuseRead(q, l, token)
    \/ Read(q, l, token)

Receive(q) == \E l \in Lines, b \in 1 .. boot : Handle(q, l, TokenOf(b))

Next ==
    \/ \E q \in Requests : Receive(q) \/ Resume(q) \/ NodeApplies(q) \/ NodeRefuses(q)
    \/ \E a \in Agents : Disable(a) \/ Enable(a)
    \/ \E s \in Signed : ClientPushes(s)
    \/ Restart
    \/ Tick

Spec == Init /\ [][Next]_vars

-----------------------------------------------------------------------------
TypeOK ==
    /\ boot \in 1 .. MaxBoots
    /\ enabled \in [Agents -> BOOLEAN]
    /\ nonces \in [Agents -> [Nonces -> Nat]]
    /\ \A a \in Agents : Cardinality(Entries(nonces[a])) <= MaxEntries
    /\ req \in [Requests -> [stage : Stages, line : Lines \cup {NoLine}, token : 0 .. MaxBoots,
                             signed : Signed \cup {NoTx}, answer : Answers]]
    /\ fate \in [Requests -> {"none", "reserved", "committed", "released"}]
    /\ log \in [Requests -> {"none", "denied", "signed", "broadcast"}]
    /\ push \in [Requests -> {"none", "sent", "applied", "refused"}]
    /\ landed \subseteq Signed /\ handed \subseteq Signed
    /\ clock \in 0 .. MaxClock

\* Anti-replay (nonceCache.ts, daemonRunner.ts): one line, byte for byte, that
\* asks for a signature or a broadcast gets
\* past the gate at most once - whatever else arrives, however full the cache,
\* and across restarts, which forget the nonces but change the token.
Passed(q) ==
    /\ req[q].stage # "idle" /\ req[q].answer # "turned_away"
    /\ req[q].line.op \notin Reads
NoReplay ==
    \A p, q \in Requests :
        (Passed(p) /\ Passed(q) /\ req[p].line = req[q].line /\ req[p].token = req[q].token)
            => p = q

\* The quota covers every signature that can still have an effect: whatever is
\* on the chain, in the hands of a client or on its way to the node is charged
\* by a reservation that was not given back.
Charged(s) == \E q \in Requests : req[q].signed = s /\ fate[q] \in Standing
Landable ==
    landed \cup handed \cup {req[q].signed : q \in {p \in Requests : push[p] = "sent"}}
LandableIsCharged == \A s \in Landable : s[1] \in LimitedTxs => Charged(s)

\* What a limit of the policy is for: no more limited transactions that act for
\* an agent's account reach the chain than its cap, whoever asked for them and
\* whatever is lost, refused, repeated or cut off by a restart.
LandedFor(a) == {s \in landed : s[1] \in LimitedTxs /\ Actor[s[1]] = a}
LandedWithinCap == \A a \in Agents : Cardinality(LandedFor(a)) <= Cap

-----------------------------------------------------------------------------
(* The daemon's use of the journal, as a ledger. *)

\* One row per decision that was ever charged; there is one window.
Charges ==
    {[rid |-> q, agent |-> req[q].line.agent, at |-> 0] : q \in {p \in Requests : fate[p] # "none"}}

RowsWithinCap(S) == \A a \in Agents : Cardinality({r \in S : r.agent = a}) <= Cap

Ledger == INSTANCE QuotaLedger WITH
    Row          <- [rid : Requests, agent : Agents, at : {0}],
    Reservations <- Requests,
    WithinLimits <- RowsWithinCap,
    charges      <- Charges,
    kept         <- {q \in Requests : fate[q] = "committed"},
    refunded     <- {q \in Requests : fate[q] = "released"}

\* Decisions that run concurrently, signers that throw, replies that are lost,
\* stores that fail and restarts together do to the quota what a ledger may
\* (server.ts, runDecision): admit a charge that has room, then keep it for
\* good or refund it for good; no step does two of these, or undoes one.
LedgerImplemented == Ledger!LedgerSpec

-----------------------------------------------------------------------------

\* Every line is answered, unless the daemon dies first.
EveryLineAnswered ==
    \A q \in Requests : (req[q].stage \in Awaiting) ~> (req[q].stage \in {"done", "cut"})

\* No quota leaks: a reservation is settled by the decision that made it,
\* unless the daemon dies first.
ReservationsSettle ==
    \A q \in Requests :
        (fate[q] = "reserved") ~> (fate[q] \in {"committed", "released"} \/ req[q].stage = "cut")
=============================================================================
