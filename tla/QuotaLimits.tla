---------------------------- MODULE QuotaLimits ----------------------------
(***************************************************************************)
(* The stateful limits a policy rule can carry, and what it means for a    *)
(* set of charged actions to respect them.  A row is one matching action   *)
(* of a transaction (a line of the table quota_events); `at` is its        *)
(* created_at_ms.                                                          *)
(***************************************************************************)
EXTENDS Naturals, FiniteSets

CONSTANTS
    Agents, Rules, Assets,     \* an asset is a (symbol, precision) pair
    Recipients, NoRecipient,   \* NoRecipient: the action names no recipient
    Reservations,              \* the ids randomUUID() can return
    NoLimit,                   \* a limit the rule does not set
    HourMs, DayMs,             \* the two sliding windows
    ValueCap,                  \* maxPerHour / maxPerDay of each rule
    CountCap,                  \* maxCountPerHour / maxCountPerDay
    Cooldown,                  \* cooldownPerRecipientMs
    RecipientCap               \* maxCountPerRecipientPerHour

Windows == {"hour", "day"}
Span(w) == IF w = "hour" THEN HourMs ELSE DayMs

ASSUME WindowAssumption == HourMs \in Nat \ {0} /\ DayMs \in Nat /\ HourMs <= DayMs

\* The policy schema bounds a cooldown by one day and every count by zero.
ASSUME LimitAssumption ==
    /\ ValueCap \in [Agents -> [Rules -> [Windows -> [asset : Assets, units : Nat] \cup {NoLimit}]]]
    /\ CountCap \in [Agents -> [Rules -> [Windows -> Nat \cup {NoLimit}]]]
    /\ Cooldown \in [Agents -> [Rules -> Nat \cup {NoLimit}]]
    /\ RecipientCap \in [Agents -> [Rules -> Nat \cup {NoLimit}]]
    /\ NoLimit \notin Nat
    /\ NoLimit \notin [asset : Assets, units : Nat]
    /\ \A a \in Agents, u \in Rules : Cooldown[a][u] # NoLimit => Cooldown[a][u] <= DayMs

Row == [rid : Reservations, n : Nat, agent : Agents, rule : Rules,
        recipient : Recipients \cup {NoRecipient}, asset : Assets,
        units : Nat, at : Nat]

(***************************************************************************)
(* A sum of units is counted coin by coin: a row of u units is u coins.    *)
(***************************************************************************)
Coins(S) == UNION {{r} \X (1 .. r.units) : r \in S}
UnitsIn(S) == Cardinality(Coins(S))

OfRule(S, a, u) == {r \in S : r.agent = a /\ r.rule = u}
OfAsset(S, a, u, x) == {r \in OfRule(S, a, u) : r.asset = x}
ToRecipient(S, a, u, p) == {r \in OfRule(S, a, u) : r.recipient = p}

\* The rows of S charged later than `span` ago, seen at instant `now`.
Since(S, span, now) == {r \in S : r.at + span > now}
\* The rows of S in the window of length `span` that opens at `start`.
Window(S, span, start) == {r \in S : start <= r.at /\ r.at < start + span}

-----------------------------------------------------------------------------
(***************************************************************************)
(* The promise.  Whatever sliding window one lays over the charged rows,   *)
(* its sum, its count and its count per recipient stay within the caps of  *)
(* the rule.  A window with rows in it lies inside the one that opens at   *)
(* its own first row, so it is enough to look at windows opening at rows.  *)
(***************************************************************************)
ValueWithin(S) ==
    \A a \in Agents, u \in Rules, w \in Windows :
        LET cap == ValueCap[a][u][w]
        IN cap # NoLimit =>
             \A first \in OfRule(S, a, u) :
                UnitsIn(Window(OfAsset(S, a, u, cap.asset), Span(w), first.at)) <= cap.units

CountWithin(S) ==
    \A a \in Agents, u \in Rules, w \in Windows :
        CountCap[a][u][w] # NoLimit =>
            \A first \in OfRule(S, a, u) :
                Cardinality(Window(OfRule(S, a, u), Span(w), first.at)) <= CountCap[a][u][w]

RecipientsWithin(S) ==
    \A a \in Agents, u \in Rules : RecipientCap[a][u] # NoLimit =>
        \A first \in OfRule(S, a, u) :
            Cardinality(Window(ToRecipient(S, a, u, first.recipient), HourMs, first.at))
                <= RecipientCap[a][u]

\* Two charged actions of a rule to one recipient are a cooldown apart.
SpacedOut(S) ==
    \A e, f \in S :
        (e # f /\ e.agent = f.agent /\ e.rule = f.rule /\ e.recipient = f.recipient
               /\ Cooldown[e.agent][e.rule] # NoLimit /\ e.at <= f.at)
            => e.at + Cooldown[e.agent][e.rule] <= f.at

WithinLimits(S) ==
    /\ ValueWithin(S)
    /\ CountWithin(S)
    /\ RecipientsWithin(S)
    /\ SpacedOut(S)
=============================================================================
