----------------------------- MODULE PolicyCache -----------------------------
(***************************************************************************)
(* The daemon's cache of the on-chain policies (src/daemon/policyCache.ts) *)
(* over the contract's table (PolicyRegistry.tla).                         *)
(*                                                                         *)
(* refresh() awaits a read of the table; several refreshes of an agent may *)
(* be under way, from decisions and from the timer, and their answers come *)
(* in any order.  What follows the await - validation, anti-rollback and   *)
(* the write to SQLite and to memory - is one step.  get() answers from    *)
(* the cache when it is fresh and refreshes otherwise.                     *)
(***************************************************************************)
EXTENDS PolicyRegistry

CONSTANTS
    Valid,              \* documents that pass verifyStoredPolicy
    Financial,          \* those with an allow rule that carries limits
    FinancialMs, NonFinancialMs,    \* freshness of the two classes
    Strict, GraceMs,
    Calls,              \* slots for refreshes under way
    StaleNodes,         \* whether an endpoint may answer with an older row
    MaxLatency,         \* longest time a read takes
    MaxClock,           \* bound
    NoEntry, NoReply

ASSUME CacheAssumption ==
    /\ Valid \subseteq Policies /\ Financial \subseteq Valid
    /\ FinancialMs \in Nat /\ NonFinancialMs \in Nat /\ GraceMs \in Nat
    /\ Strict \in BOOLEAN /\ StaleNodes \in BOOLEAN
    /\ MaxLatency \in Nat /\ MaxClock \in Nat

\* rev: which revision of the table an entry was read from (history)
Entry == [row : PolicyRow, rev : Nat, verifiedAt : Nat]

ASSUME NoEntryAssumption == NoEntry \notin Entry

VARIABLES
    stored,     \* the table policy_cache
    watermark,  \* its column highest_seen_version, 0 without a row
    memory,     \* the map of the running daemon
    call,       \* refreshes: [by, agent, held, since, reply]
    served      \* history: what get() answered last, and when

cacheVars == <<stored, watermark, memory, call, served>>
vars == <<revisions, clock, cacheVars>>

Idle == [by |-> "nobody"]

Init ==
    /\ RegistryInit
    /\ clock = 0
    /\ stored = [a \in Agents |-> NoEntry]
    /\ watermark = [a \in Agents |-> 0]
    /\ memory = [a \in Agents |-> NoEntry]
    /\ call = [c \in Calls |-> Idle]
    /\ served = [a \in Agents |-> NoEntry]

-----------------------------------------------------------------------------
Start(c, by, a, held) ==
    call' = [call EXCEPT ![c] =
               [by |-> by, agent |-> a, held |-> held, since |-> clock, reply |-> NoReply]]

Freshness(entry) == IF entry.row.policy \in Financial THEN FinancialMs ELSE NonFinancialMs

\* (mutant) financial policies are given the longer freshness as well
IsFreshForAll(entry) == entry # NoEntry /\ clock <= entry.verifiedAt + NonFinancialMs

IsFresh(entry) == entry # NoEntry /\ clock <= entry.verifiedAt + Freshness(entry)

\* hydrate(): after a start the first look-up loads the row from SQLite
LookUp(a) == IF memory[a] = NoEntry THEN stored[a] ELSE memory[a]

Serve(a, entry, confirmed) ==
    served' = [served EXCEPT ![a] = [entry |-> entry, at |-> clock, confirmed |-> confirmed]]

\* The timer, and the warm-up of a start: refresh whatever the age.
RefreshInBackground(c, a) ==
    /\ call[c] = Idle
    /\ Start(c, "timer", a, NoEntry)
    /\ UNCHANGED <<revisions, clock, stored, watermark, memory, served>>

GetFresh(a) ==
    /\ IsFresh(LookUp(a))
    /\ memory' = [memory EXCEPT ![a] = LookUp(a)]
    /\ Serve(a, LookUp(a), TRUE)
    /\ UNCHANGED <<revisions, clock, stored, watermark, call>>

GetStale(c, a) ==
    /\ call[c] = Idle
    /\ ~IsFresh(LookUp(a))
    /\ memory' = [memory EXCEPT ![a] = LookUp(a)]
    /\ Start(c, "get", a, LookUp(a))
    /\ UNCHANGED <<revisions, clock, stored, watermark, served>>

\* The endpoint reads the table: the current row, none, or an older one if
\* its node is behind or lies.
EndpointReads(c, rev) ==
    /\ call[c] # Idle /\ call[c].reply = NoReply
    /\ rev \in IF StaleNodes THEN 0 .. Len(revisions[call[c].agent])
                             ELSE {Len(revisions[call[c].agent])}
    /\ call' = [call EXCEPT ![c].reply = rev]
    /\ UNCHANGED <<revisions, clock, stored, watermark, memory, served>>

-----------------------------------------------------------------------------
RowRead(c) == revisions[call[c].agent][call[c].reply].row

\* (mutant) no anti-rollback
AcceptsAnyVersion(c) ==
    /\ call[c].reply \notin {NoReply, 0}
    /\ RowRead(c).policy \in Valid

\* (mutant) compared with the memory of this run, not with the stored watermark
AcceptsAboveMemory(c) ==
    /\ call[c].reply \notin {NoReply, 0}
    /\ RowRead(c).policy \in Valid
    /\ LET known == memory[call[c].agent]
       IN known # NoEntry => RowRead(c).version >= known.row.version

\* (mutant) a row of the version already seen is not news
AcceptsNewer(c) ==
    /\ call[c].reply \notin {NoReply, 0}
    /\ RowRead(c).policy \in Valid
    /\ RowRead(c).version > watermark[call[c].agent]

Accepts(c) ==
    /\ call[c].reply \notin {NoReply, 0}        \* unreachable, not_registered
    /\ RowRead(c).policy \in Valid                  \* hash, canonical form, schema
    /\ RowRead(c).version >= watermark[call[c].agent]   \* rollback

\* refresh() goes through; the get() that awaited it answers from memory.
RefreshSucceeds(c) ==
    /\ call[c] # Idle
    /\ Accepts(c)
    /\ LET a == call[c].agent
           entry == [row |-> RowRead(c), rev |-> call[c].reply, verifiedAt |-> clock]
       IN /\ stored' = [stored EXCEPT ![a] = entry]
          /\ memory' = [memory EXCEPT ![a] = entry]
          /\ watermark' = [watermark EXCEPT ![a] =
                             IF entry.row.version > @ THEN entry.row.version ELSE @]
          /\ IF call[c].by = "get" THEN Serve(a, entry, TRUE) ELSE UNCHANGED served
    /\ call' = [call EXCEPT ![c] = Idle]
    /\ UNCHANGED <<revisions, clock>>

\* The age is that of the call of get(), not of its end.
InGrace(entry, since) == entry # NoEntry /\ ~Strict /\ since <= entry.verifiedAt + GraceMs

\* The read failed (no reply came) or what it gave is refused.  Outside
\* strict mode get() falls back to what it held before the await.
RefreshFails(c) ==
    /\ call[c] # Idle
    /\ ~Accepts(c)
    /\ IF call[c].by = "get" /\ InGrace(call[c].held, call[c].since)
       THEN Serve(call[c].agent, call[c].held, FALSE)
       ELSE UNCHANGED served
    /\ call' = [call EXCEPT ![c] = Idle]
    /\ UNCHANGED <<revisions, clock, stored, watermark, memory>>

Restart ==
    /\ memory' = [a \in Agents |-> NoEntry]
    /\ call' = [c \in Calls |-> Idle]
    /\ UNCHANGED <<revisions, clock, stored, watermark, served>>

ContractStep == RegistryNext /\ UNCHANGED <<clock, cacheVars>>

Tick ==
    /\ clock < MaxClock
    /\ \A c \in Calls : call[c] # Idle => clock < call[c].since + MaxLatency
    /\ clock' = clock + 1
    /\ UNCHANGED <<revisions, cacheVars>>

Next ==
    \/ \E a \in Agents : GetFresh(a)
    \/ \E c \in Calls, a \in Agents : RefreshInBackground(c, a) \/ GetStale(c, a)
    \/ \E c \in Calls, rev \in 0 .. MaxRevisions : EndpointReads(c, rev)
    \/ \E c \in Calls : RefreshSucceeds(c) \/ RefreshFails(c)
    \/ Restart
    \/ ContractStep
    \/ Tick

Spec == Init /\ [][Next]_vars

\* The timer fires again and again, a read that came back is processed, and
\* the endpoint is reached infinitely often.
FairSpec ==
    /\ Spec
    /\ \A a \in Agents : SF_vars(\E c \in Calls : RefreshInBackground(c, a))
    /\ \A c \in Calls :
         /\ SF_vars(\E rev \in 0 .. MaxRevisions : EndpointReads(c, rev))
         /\ SF_vars(RefreshSucceeds(c))
         /\ WF_vars(RefreshFails(c))

-----------------------------------------------------------------------------
CallType ==
    [by : {"timer", "get"}, agent : Agents, held : Entry \cup {NoEntry}, since : Nat,
     reply : Nat \cup {NoReply}]

TypeOK ==
    /\ \A a \in Agents : \A i \in DOMAIN revisions[a] :
          revisions[a][i].row \in PolicyRow /\ revisions[a][i].at \in Nat
    /\ clock \in Nat
    /\ stored \in [Agents -> Entry \cup {NoEntry}]
    /\ memory \in [Agents -> Entry \cup {NoEntry}]
    /\ watermark \in [Agents -> Nat]
    /\ call \in [Calls -> CallType \cup {Idle}]
    /\ served \in [Agents -> [entry : Entry, at : Nat, confirmed : BOOLEAN] \cup {NoEntry}]
    \* the column never lags behind the row it is in, the row is the last accepted
    /\ \A a \in Agents : stored[a] # NoEntry => stored[a].row.version = watermark[a]

\* Anti-rollback: whatever answers the endpoint gives, in whichever order they
\* arrive, and across restarts, no decision is given a row below the highest
\* version ever accepted, which earlier decisions may have seen.  Exempt is the
\* grace of the non-strict mode: it answers with what it held before the await.
ServedNeverRollsBack ==
    [][\A a \in Agents :
         (served'[a] # served[a] /\ served'[a].confirmed)
            => served'[a].entry.row.version >= watermark[a]]_vars

\* Freshness: a row handed to a decision was still the row of the table at
\* most its class's freshness, and the time of one read, ago.  A change on
\* the chain - a disable, a tightened policy - bites after that time.
ServedIsRecent ==
    \A a \in Agents : (served[a] # NoEntry /\ served[a].confirmed) =>
        LET s == served[a]
        IN \/ s.entry.rev = Len(revisions[a])
           \/ revisions[a][s.entry.rev + 1].at + Freshness(s.entry) + MaxLatency >= s.at

\* policyCache.ts: "a lying RPC or a restored cache can never silently
\* downgrade to a more permissive policy".  A cached row that says the agent
\* is disabled is replaced by one that says enabled only if the chain enabled
\* the agent again.
DisableIsNotUndone ==
    [][\A a \in Agents :
         (stored[a] # NoEntry /\ ~stored[a].row.enabled /\ stored'[a].row.enabled)
            => stored'[a].rev > stored[a].rev]_vars

\* When the chain has stopped changing, the cache ends up with its row.
CacheConverges ==
    \A a \in Agents :
        <>[](HasRow(a) /\ RowOf(a).policy \in Valid =>
               stored[a] # NoEntry /\ stored[a].row = RowOf(a))
=============================================================================
