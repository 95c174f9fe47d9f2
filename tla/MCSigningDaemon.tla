--------------------------- MODULE MCSigningDaemon ---------------------------
(***************************************************************************)
(* Small instances of the daemon.  Agent "seller" may sign and broadcast,  *)
(* agent "bot" only sign; "pay" is a transaction with limits that acts for *)
(* the account of "seller".                                                *)
(***************************************************************************)
EXTENDS SigningDaemon, TLC

CONSTANTS q1, q2, q3

MCTxs == {"pay"}

MCActor == [t \in MCTxs |-> "seller"]
MCCapabilities == [a \in Agents |-> IF a = "bot" THEN {"sign"} ELSE {"sign", "broadcast"}]

SignLine(op, a, n, from, until, tx) ==
    [op |-> op, agent |-> a, nonce |-> n, asked |-> from, expires |-> until,
     chainOk |-> TRUE, tx |-> tx]
PushLine(a, n, from, until, s) ==
    [op |-> "push", agent |-> a, nonce |-> n, asked |-> from, expires |-> until,
     chainOk |-> TRUE, signed |-> s]
QueryLine(a, from, until) ==
    [op |-> "query", agent |-> a, asked |-> from, expires |-> until, readOnly |-> TRUE]

\* One nonce in payments of two windows, a second nonce, in the push of a
\* payment, that needs its room, a payment asked for by another agent, and a
\* read.
MCReplays ==
    {SignLine("sign", "seller", "n1", 0, 2, "pay"),
     SignLine("submit", "seller", "n1", 1, 3, "pay"),
     PushLine("seller", "n2", 1, 3, <<"pay", "e1">>),
     SignLine("sign", "bot", "n1", 0, 2, "pay"),
     QueryLine("bot", 0, 1)}

Symmetry == Permutations(Requests)
=============================================================================
