----------------------------- MODULE NonceCache -----------------------------
(***************************************************************************)
(* The anti-replay cache of one agent (src/daemon/nonceCache.ts): a map    *)
(* from the nonces seen to the expiry of the request that carried them.    *)
(* A nonce that is not in the map expires at Never, which is before every  *)
(* instant.  Entries are dropped only when the map is full.                *)
(***************************************************************************)
EXTENDS Naturals, FiniteSets

CONSTANTS
    Nonces,
    MaxEntries      \* maxEntriesPerAgent

ASSUME NonceAssumption == IsFiniteSet(Nonces) /\ MaxEntries \in Nat

Never == 0
NoEntries == [n \in Nonces |-> Never]

Entries(cache) == {n \in Nonces : cache[n] # Never}

Purged(cache, now) == [n \in Nonces |-> IF cache[n] <= now THEN Never ELSE cache[n]]

\* (mutant) the bound checked one entry late
SaturatedLate(cache) == Cardinality(Entries(cache)) > MaxEntries

Saturated(cache) == Cardinality(Entries(cache)) >= MaxEntries

\* The map register() leaves room in: swept only if it is full.
Swept(cache, now) == IF Saturated(cache) THEN Purged(cache, now) ELSE cache

\* Whether register() answers "ok", neither "replayed" nor "full".
Fresh(cache, nonce, now) ==
    /\ cache[nonce] <= now
    /\ ~Saturated(Swept(cache, now))

Registered(cache, nonce, expires, now) == [Swept(cache, now) EXCEPT ![nonce] = expires]
=============================================================================
