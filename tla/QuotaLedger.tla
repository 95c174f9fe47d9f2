---------------------------- MODULE QuotaLedger ----------------------------
(***************************************************************************)
(* What the quota journal promises, without a table, a transaction or a    *)
(* retention period.  A transaction is charged whole or not at all, a      *)
(* charge is admitted only if every sliding window stays within its limits *)
(* afterwards, and a charge is settled at most once: kept for good, or     *)
(* refunded for good.                                                      *)
(***************************************************************************)
CONSTANTS
    Row,               \* a charged action: reservation id, agent, instant, ...
    Reservations,
    WithinLimits(_)    \* whether a set of rows respects every limit

VARIABLES
    charges,     \* every row ever admitted
    kept,        \* reservations settled as spent
    refunded     \* reservations settled as unused

ledgerVars == <<charges, kept, refunded>>

Standing(S, given) == {r \in S : r.rid \notin given}

LedgerInit == charges = {} /\ kept = {} /\ refunded = {}

Admit(batch) ==
    /\ batch # {} /\ batch \subseteq Row
    /\ \A r \in batch, s \in charges : s.rid # r.rid
    /\ \A r, s \in batch : r.rid = s.rid /\ r.agent = s.agent /\ r.at = s.at
    /\ charges' = charges \cup batch
    /\ WithinLimits(Standing(charges', refunded))
    /\ UNCHANGED <<kept, refunded>>

Keep(rid) ==
    /\ rid \notin refunded
    /\ kept' = kept \cup {rid}
    /\ UNCHANGED <<charges, refunded>>

Refund(rid) ==
    /\ rid \notin kept
    /\ refunded' = refunded \cup {rid}
    /\ UNCHANGED <<charges, kept>>

\* Rows enter the ledger only through Admit; the batch is what was added.
LedgerNext ==
    \/ Admit(charges' \ charges)
    \/ \E rid \in Reservations : Keep(rid) \/ Refund(rid)

LedgerSpec == LedgerInit /\ [][LedgerNext]_ledgerVars
=============================================================================
