---------------------------- MODULE QuotaJournal ----------------------------
(***************************************************************************)
(* The quota journal of the daemon (src/daemon/quotaJournal.ts): a SQLite  *)
(* table of charged actions.  The decision pipeline reserves the demands   *)
(* of a transaction before signing, then commits or releases them.         *)
(*                                                                         *)
(* reserve() is one SQLite transaction that prunes, then checks and        *)
(* inserts demand after demand; it is modelled statement by statement on a *)
(* working copy of the table, so that a refusal or a crash half way rolls  *)
(* back.  It runs without yielding to the event loop: nothing else of the  *)
(* daemon happens meanwhile, only time passes and the process may die.     *)
(*                                                                         *)
(* The instant a caller passes as nowMs was read earlier, before the       *)
(* awaits of its decision: it may lie up to MaxLag in the past, and calls  *)
(* may come in the opposite order of their instants.                       *)
(***************************************************************************)
EXTENDS QuotaLimits, Sequences

CONSTANTS
    Digests, NoDigest,
    Demands,        \* the demands the policy engine can raise
    MaxBatch,       \* most demands of one transaction
    RetentionMs,    \* rows older than this are pruned
    MaxLag,         \* how far in the past a caller's nowMs may lie
    MaxClock,       \* bound on time
    NoTx            \* no reserve() is running

ASSUME DemandAssumption ==
    /\ Demands \subseteq [rule : Rules, recipient : Recipients \cup {NoRecipient},
                          asset : Assets, units : Nat]
    /\ MaxBatch \in Nat
    /\ NoDigest \notin Digests

\* RETENTION_MS is two days; no decision takes anything like a day.
ASSUME RetentionAssumption ==
    /\ RetentionMs \in Nat /\ MaxLag \in Nat /\ MaxClock \in Nat
    /\ DayMs + MaxLag <= RetentionMs

Fates == {"none", "reserved", "committed", "released"}
Batches == UNION {[1 .. k -> Demands] : k \in 1 .. MaxBatch}

VARIABLES
    rows,       \* the table quota_events
    fate,       \* column state: every UPDATE sets it for a whole reservation
    digestOf,   \* column digest, likewise
    tx,         \* the SQLite transaction of a running reserve(), or NoTx
    holding,    \* reservations a live decision still has to settle
    pruned,     \* history: the rows deleted by pruning
    clock

vars == <<rows, fate, digestOf, tx, holding, pruned, clock>>

TxType == [rid : Reservations, agent : Agents, now : Nat, demands : Batches,
           next : 1 .. MaxBatch + 1, table : SUBSET Row]

ASSUME NoTxAssumption == NoTx \notin TxType

-----------------------------------------------------------------------------
(* Queries of the table, inside the transaction. *)

Live(S) == {r \in S : fate[r.rid] # "released"}

\* (mutant) a reservation counts only once it is committed
ValueFitsSettled(S, agent, d, now) ==
    \A w \in Windows :
        LET cap == ValueCap[agent][d.rule][w]
            spent == {r \in OfAsset(S, agent, d.rule, d.asset) :
                        fate[r.rid] \notin {"reserved", "released"}}
        IN cap # NoLimit =>
             /\ cap.asset = d.asset
             /\ UnitsIn(Since(spent, Span(w), now)) + d.units <= cap.units

\* consumed() plus the demand, against a cap in the demand's own asset
ValueFits(S, agent, d, now) ==
    \A w \in Windows :
        LET cap == ValueCap[agent][d.rule][w]
        IN cap # NoLimit =>
             /\ cap.asset = d.asset
             /\ UnitsIn(Since(OfAsset(Live(S), agent, d.rule, d.asset), Span(w), now)) + d.units
                    <= cap.units

CountFits(S, agent, d, now) ==
    \A w \in Windows :
        LET cap == CountCap[agent][d.rule][w]
        IN cap # NoLimit =>
             Cardinality(Since(OfRule(Live(S), agent, d.rule), Span(w), now)) < cap

CooldownOver(S, agent, d, now) ==
    LET span == Cooldown[agent][d.rule]
    IN span # NoLimit =>
         /\ d.recipient # NoRecipient
         /\ Since(ToRecipient(Live(S), agent, d.rule, d.recipient), span, now) = {}

RecipientFits(S, agent, d, now) ==
    LET cap == RecipientCap[agent][d.rule]
    IN cap # NoLimit =>
         /\ d.recipient # NoRecipient
         /\ Cardinality(Since(ToRecipient(Live(S), agent, d.rule, d.recipient), HourMs, now)) < cap

Admits(S, agent, d, now) ==
    /\ ValueFits(S, agent, d, now)
    /\ CooldownOver(S, agent, d, now)
    /\ CountFits(S, agent, d, now)
    /\ RecipientFits(S, agent, d, now)

NewRow(t) ==
    LET d == t.demands[t.next]
    IN [rid |-> t.rid, n |-> t.next, agent |-> t.agent, rule |-> d.rule,
        recipient |-> d.recipient, asset |-> d.asset, units |-> d.units, at |-> t.now]

-----------------------------------------------------------------------------
Init ==
    /\ rows = {} /\ pruned = {}
    /\ fate = [rid \in Reservations |-> "none"]
    /\ digestOf = [rid \in Reservations |-> NoDigest]
    /\ tx = NoTx
    /\ holding = {}
    /\ clock = 0

\* (mutant) rows are pruned when they leave the short window
BeginReserveForgetful(rid, agent, demands, now) ==
    /\ tx = NoTx
    /\ fate[rid] = "none"
    /\ now <= clock /\ clock <= now + MaxLag
    /\ tx' = [rid |-> rid, agent |-> agent, now |-> now, demands |-> demands, next |-> 1,
              table |-> {r \in rows : r.at + HourMs >= now}]
    /\ UNCHANGED <<rows, fate, digestOf, holding, pruned, clock>>

\* reserve(): a fresh reservation id, BEGIN, and the pruning DELETE
BeginReserve(rid, agent, demands, now) ==
    /\ tx = NoTx
    /\ fate[rid] = "none"
    /\ now <= clock /\ clock <= now + MaxLag
    /\ tx' = [rid |-> rid, agent |-> agent, now |-> now, demands |-> demands, next |-> 1,
              table |-> {r \in rows : r.at + RetentionMs >= now}]
    /\ UNCHANGED <<rows, fate, digestOf, holding, pruned, clock>>

\* one turn of the loop: the demand passes every check and its row is inserted
InsertDemand ==
    /\ tx # NoTx
    /\ tx.next <= Len(tx.demands)
    /\ Admits(tx.table, tx.agent, tx.demands[tx.next], tx.now)
    /\ tx' = [tx EXCEPT !.next = @ + 1, !.table = @ \cup {NewRow(tx)}]
    /\ UNCHANGED <<rows, fate, digestOf, holding, pruned, clock>>

\* (mutant) the refusal is returned instead of thrown: what was inserted stays
RefuseDemandKeepingRows ==
    /\ tx # NoTx
    /\ tx.next <= Len(tx.demands)
    /\ ~Admits(tx.table, tx.agent, tx.demands[tx.next], tx.now)
    /\ rows' = tx.table
    /\ fate' = [fate EXCEPT ![tx.rid] = "reserved"]
    /\ tx' = NoTx
    /\ UNCHANGED <<digestOf, holding, pruned, clock>>

\* ReserveRefusal is thrown out of the transaction: everything rolls back
RefuseDemand ==
    /\ tx # NoTx
    /\ tx.next <= Len(tx.demands)
    /\ ~Admits(tx.table, tx.agent, tx.demands[tx.next], tx.now)
    /\ tx' = NoTx
    /\ UNCHANGED <<rows, fate, digestOf, holding, pruned, clock>>

\* COMMIT: the working copy becomes the table, the caller gets the id
EndReserve ==
    /\ tx # NoTx
    /\ tx.next > Len(tx.demands)
    /\ rows' = tx.table
    /\ pruned' = pruned \cup (rows \ tx.table)
    /\ fate' = [fate EXCEPT ![tx.rid] = "reserved"]
    /\ holding' = holding \cup {tx.rid}
    /\ tx' = NoTx
    /\ UNCHANGED <<digestOf, clock>>

\* (mutant) a digest is never looked up
NeverCommitted(agent, digest) == FALSE

CommittedAlready(agent, digest) ==
    \E r \in rows : r.agent = agent /\ fate[r.rid] = "committed" /\ digestOf[r.rid] = digest

\* (mutant) a duplicate gets a state of its own, which the table's CHECK forbids
CommitMarkingDuplicates(rid, agent, digest) ==
    /\ tx = NoTx
    /\ rid \in holding
    /\ \A r \in rows : r.rid = rid => r.agent = agent
    /\ fate' = [fate EXCEPT ![rid] =
                  IF CommittedAlready(agent, digest) THEN "duplicate" ELSE "committed"]
    /\ digestOf' = [digestOf EXCEPT ![rid] = digest]
    /\ holding' = holding \ {rid}
    /\ UNCHANGED <<rows, tx, pruned, clock>>

\* commit(): attach the digest, or give back a duplicate of a committed one
Commit(rid, agent, digest) ==
    /\ tx = NoTx
    /\ rid \in holding
    /\ \A r \in rows : r.rid = rid => r.agent = agent
    /\ IF CommittedAlready(agent, digest)
       THEN /\ fate' = [fate EXCEPT ![rid] = "released"]
            /\ UNCHANGED digestOf
       ELSE /\ fate' = [fate EXCEPT ![rid] = "committed"]
            /\ digestOf' = [digestOf EXCEPT ![rid] = digest]
    /\ holding' = holding \ {rid}
    /\ UNCHANGED <<rows, tx, pruned, clock>>

\* (mutant) the decision goes on as if it still held the reservation
ReleaseAndGoOn(rid) ==
    /\ tx = NoTx
    /\ rid \in holding
    /\ fate' = [fate EXCEPT ![rid] = "released"]
    /\ UNCHANGED <<rows, digestOf, tx, holding, pruned, clock>>

Release(rid) ==
    /\ tx = NoTx
    /\ rid \in holding
    /\ fate' = [fate EXCEPT ![rid] = "released"]
    /\ holding' = holding \ {rid}
    /\ UNCHANGED <<rows, digestOf, tx, pruned, clock>>

\* The process dies: an open transaction is rolled back, and the decisions
\* that would have settled their reservations are gone.
Crash ==
    /\ tx' = NoTx
    /\ holding' = {}
    /\ UNCHANGED <<rows, fate, digestOf, pruned, clock>>

Tick ==
    /\ clock < MaxClock
    /\ clock' = clock + 1
    /\ UNCHANGED <<rows, fate, digestOf, tx, holding, pruned>>

Next ==
    \/ \E rid \in Reservations, agent \in Agents, demands \in Batches, lag \in 0 .. MaxLag :
          lag <= clock /\ BeginReserve(rid, agent, demands, clock - lag)
    \/ InsertDemand
    \/ RefuseDemand
    \/ EndReserve
    \/ \E rid \in Reservations, agent \in Agents, digest \in Digests : Commit(rid, agent, digest)
    \/ \E rid \in Reservations : Release(rid)
    \/ Crash
    \/ Tick

Spec == Init /\ [][Next]_vars

-----------------------------------------------------------------------------
(* The strengthening the proofs need. *)

Charged == rows \cup pruned

\* What pruning may drop is out of reach of every instant still to be passed.
PruningIsLate ==
    /\ \A r \in pruned : r.at + RetentionMs < clock
    /\ tx # NoTx =>
         /\ tx.now <= clock
         /\ \A r \in pruned : r.at + DayMs <= tx.now
         /\ \A r \in rows \ tx.table : r.at + RetentionMs < tx.now
         /\ \A r \in tx.table \ rows : r.rid = tx.rid /\ r.agent = tx.agent /\ r.at = tx.now

\* A reservation has rows only once it is made, and is owed a settlement only
\* while it is reserved.
FatesAgree ==
    /\ \A r \in Charged : fate[r.rid] # "none"
    /\ \A rid \in holding : fate[rid] = "reserved"
    /\ tx # NoTx => fate[tx.rid] = "none"

\* The limits hold over the rows of the running transaction as well.
Counted == Charged \cup (IF tx = NoTx THEN {} ELSE tx.table)

-----------------------------------------------------------------------------
\* Every variable keeps its type; the working copy of an open transaction
\* holds rows of the table and the rows inserted so far.
TypeOK ==
    /\ rows \subseteq Row /\ IsFiniteSet(rows)
    /\ pruned \subseteq Row /\ IsFiniteSet(pruned)
    /\ fate \in [Reservations -> Fates]
    /\ digestOf \in [Reservations -> Digests \cup {NoDigest}]
    /\ tx \in TxType \cup {NoTx}
    /\ tx # NoTx => IsFiniteSet(tx.table)
    /\ holding \subseteq Reservations
    /\ clock \in Nat

\* The guarantee of the journal (quotaJournal.ts, "two concurrent requests can
\* never both fit under the same cap"): over everything not released, pruned
\* rows included, no sliding window ever exceeds a cap of its rule, even though
\* the instants callers pass are stale and out of order.
LimitsHold == WithinLimits(Live(Charged))

\* The inductive form of LimitsHold.
IInv == TypeOK /\ PruningIsLate /\ FatesAgree /\ WithinLimits(Live(Counted))

\* Idempotence by digest: a signed transaction of an agent is charged by at
\* most one reservation, however often it is signed again.
OneChargePerDigest ==
    \A r, s \in rows :
        (/\ r.agent = s.agent
         /\ fate[r.rid] = "committed" /\ fate[s.rid] = "committed"
         /\ digestOf[r.rid] = digestOf[s.rid]) => r.rid = s.rid

\* A reservation that stays reserved is either still owed a commit or release
\* by a live decision, or was orphaned by a crash; a settled one never changes
\* again, so quota that followed a signature can not be given back later.
SettledForGood ==
    [][\A rid \in Reservations :
         fate[rid] \in {"committed", "released"} =>
            fate'[rid] = fate[rid] /\ digestOf'[rid] = digestOf[rid]]_vars

\* reserve() is all or nothing: the rows of a reservation appear in the table
\* together, one for each demand of the transaction, and never partly.
AllOrNothing ==
    [][\A r \in rows' \ rows :
         /\ tx # NoTx /\ r.rid = tx.rid
         /\ {s.n : s \in {q \in rows' : q.rid = r.rid}} = DOMAIN tx.demands]_vars

\* The journal implements the ledger: what it charges, keeps and refunds is
\* what a ledger without table, transaction or retention period could do.
Ledger == INSTANCE QuotaLedger WITH
    charges  <- Charged,
    kept     <- {rid \in Reservations : fate[rid] = "committed"},
    refunded <- {rid \in Reservations : fate[rid] = "released"}

LedgerImplemented == Ledger!LedgerSpec
=============================================================================
