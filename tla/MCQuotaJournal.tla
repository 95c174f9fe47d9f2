--------------------------- MODULE MCQuotaJournal ---------------------------
(***************************************************************************)
(* A small instance of the quota journal.  An hour is one instant, a day   *)
(* two.  Rule "pay" caps value in xpr and spaces out payments to one       *)
(* recipient; rule "vote" caps the count per day.                          *)
(***************************************************************************)
EXTENDS QuotaJournal, TLC

CONSTANTS agent, bob, eve, r1, r2, r3

MCRules == {"pay", "vote"}
MCAssets == {"xpr", "usd"}
Xpr(n) == [asset |-> "xpr", units |-> n]

MCValueCap ==
    [a \in Agents |-> [u \in Rules |-> [w \in Windows |->
        CASE u = "pay" /\ w = "hour" -> Xpr(2)
          [] u = "pay" /\ w = "day"  -> Xpr(3)
          [] OTHER -> NoLimit]]]
MCCountCap ==
    [a \in Agents |-> [u \in Rules |-> [w \in Windows |->
        IF u = "vote" /\ w = "day" THEN 1 ELSE NoLimit]]]
MCCooldown == [a \in Agents |-> [u \in Rules |-> IF u = "pay" THEN 1 ELSE NoLimit]]
MCRecipientCap == [a \in Agents |-> [u \in Rules |-> NoLimit]]

Demand(u, p, x, n) == [rule |-> u, recipient |-> p, asset |-> x, units |-> n]

MCDemands ==
    {Demand("pay", bob, "xpr", 1), Demand("pay", eve, "xpr", 2),
     Demand("vote", bob, "usd", 1)}

Symmetry == Permutations(Reservations)
=============================================================================
