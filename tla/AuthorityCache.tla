--------------------------- MODULE AuthorityCache ---------------------------
(***************************************************************************)
(* The cache of key authorizations (src/daemon/authorityCache.ts) for the  *)
(* one key a daemon holds.  Checks run concurrently: each looks at the     *)
(* cache, and when nothing fresh is there asks the chain, which takes a    *)
(* while and may fail.  What the chain answers is up to the composition.   *)
(***************************************************************************)
EXTENDS Naturals

CONSTANTS
    Checks,         \* slots for calls of check()
    FreshnessMs,    \* how long a positive result is trusted
    NegativeMs,     \* how long a negative one is
    MaxLatency,     \* (bound) the longest a lookup takes
    MaxClock        \* (bound)

\* A lookup that outlasts the freshness would answer with what is older.
ASSUME AuthorityCacheAssumption ==
    /\ FreshnessMs \in Nat /\ NegativeMs \in Nat /\ MaxLatency \in Nat /\ MaxClock \in Nat
    /\ MaxLatency < FreshnessMs

VARIABLES
    clock,
    entry,          \* [authorized, at], or NoEntry: the result and its verifiedAtMs
    check           \* per call: [stage, at, authorized]

cacheVars == <<clock, entry, check>>

NoEntry == [authorized |-> FALSE, at |-> MaxClock + 1]
NoCheck == [stage |-> "idle", at |-> 0, authorized |-> FALSE]

CacheInit == clock = 0 /\ entry = NoEntry /\ check = [c \in Checks |-> NoCheck]

Pending(c) == check[c].stage \in {"asked", "read"}
Fresh(e) == e # NoEntry /\ clock - e.at < (IF e.authorized THEN FreshnessMs ELSE NegativeMs)

\* A positive answer is remembered with its instant, a negative one ends the
\* decision.
Answer(c, authorized) ==
    check' = [check EXCEPT ![c] =
                 IF authorized THEN [stage |-> "answered", at |-> clock, authorized |-> TRUE]
                 ELSE NoCheck]

CheckHit(c) ==
    /\ ~Pending(c) /\ Fresh(entry)
    /\ Answer(c, entry.authorized)
    /\ UNCHANGED <<clock, entry>>

CheckMiss(c) ==
    /\ ~Pending(c) /\ ~Fresh(entry)
    /\ check' = [check EXCEPT ![c] = [stage |-> "asked", at |-> clock, authorized |-> FALSE]]
    /\ UNCHANGED <<clock, entry>>

\* The node reads its state; a failed lookup counts as not authorized.
Resolve(c, authorized) ==
    /\ check[c].stage = "asked"
    /\ check' = [check EXCEPT ![c].stage = "read", ![c].authorized = authorized]
    /\ UNCHANGED <<clock, entry>>

\* (mutant) the result is dated when it arrives
SettleDatedLate(c) ==
    /\ check[c].stage = "read"
    /\ entry' = [authorized |-> check[c].authorized, at |-> clock]
    /\ Answer(c, check[c].authorized)
    /\ UNCHANGED clock

\* The result is stored as of the instant before the lookup, whatever another
\* check stored meanwhile.
Settle(c) ==
    /\ check[c].stage = "read"
    /\ entry' = [authorized |-> check[c].authorized, at |-> check[c].at]
    /\ Answer(c, check[c].authorized)
    /\ UNCHANGED clock

Tick ==
    /\ clock < MaxClock
    /\ \A c \in Checks : Pending(c) => clock - check[c].at < MaxLatency
    /\ clock' = clock + 1
    /\ UNCHANGED <<entry, check>>

CacheTypeOK ==
    /\ clock \in 0..MaxClock
    /\ entry = NoEntry \/ entry.at <= clock
    /\ \A c \in Checks :
          /\ check[c].stage \in {"idle", "asked", "read", "answered"}
          /\ check[c].at <= clock /\ check[c].authorized \in BOOLEAN
=============================================================================
