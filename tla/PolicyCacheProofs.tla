-------------------------- MODULE PolicyCacheProofs --------------------------
(***************************************************************************)
(* Proofs about the contract's table and the daemon's cache of it, for     *)
(* every set of accounts, agents, policies and concurrent refreshes, every *)
(* freshness, grace and latency, and every bound.                          *)
(***************************************************************************)
EXTENDS PolicyCache, SequenceTheorems, TLAPS

Revision == [row : PolicyRow, at : Nat]

RegistryType == revisions \in [Agents -> Seq(Revision)] /\ clock \in Nat

\* What a row needs to follow the row of the table.
Follows(agent, row) ==
    HasRow(agent) => /\ RowOf(agent).version <= row.version
                     /\ RowOf(agent).version = row.version => RowOf(agent).policy = row.policy

\* The revision rev was the row of the table, or will have been, up to d before t.
CurrentUntil(a, rev, d, t) ==
    rev = Len(revisions[a]) \/ revisions[a][rev + 1].at + d >= t

\* What the cache holds in memory is what is in SQLite.
MemoryIsStored == \A a \in Agents : memory[a] # NoEntry => memory[a] = stored[a]

\* Refreshes under way have started, and name revisions that exist.
CallsAreTimely ==
    \A c \in Calls : call[c] # Idle =>
        /\ call[c].since <= clock /\ clock <= call[c].since + MaxLatency
        /\ call[c].reply # NoReply => call[c].reply \in 0 .. Len(revisions[call[c].agent])

CacheInv == RegistryType /\ VersionNamesPolicy /\ TypeOK /\ MemoryIsStored /\ CallsAreTimely

\* What holds as well when no endpoint is behind.
RepliesAreRecent ==
    \A c \in Calls : (call[c] # Idle /\ call[c].reply # NoReply) =>
        CurrentUntil(call[c].agent, call[c].reply, 0, call[c].since)

EntryIsRecent(a, entry) ==
    /\ entry.rev \in 1 .. Len(revisions[a])
    /\ entry.verifiedAt <= clock
    /\ CurrentUntil(a, entry.rev, MaxLatency, entry.verifiedAt)

StoredIsRecent == \A a \in Agents : stored[a] # NoEntry => EntryIsRecent(a, stored[a])

AnswersAreRecent ==
    \A a \in Agents : (served[a] # NoEntry /\ served[a].confirmed) =>
        /\ served[a].entry.rev \in 1 .. Len(revisions[a])
        /\ served[a].at <= clock
        /\ CurrentUntil(a, served[a].entry.rev, Freshness(served[a].entry) + MaxLatency,
                        served[a].at)

RecentInv == CacheInv /\ RepliesAreRecent /\ StoredIsRecent /\ AnswersAreRecent

-----------------------------------------------------------------------------
\* Every action of the contract writes one row, which follows the one before.
LEMMA ContractWrites ==
    ASSUME RegistryType, RegistryNext
    PROVE  \E agent \in Agents, row \in PolicyRow : Write(agent, row) /\ Follows(agent, row)
<1>1. PICK agent \in Agents, signers \in SUBSET Accounts :
        \/ \E version \in 1 .. MaxVersion, policy \in Policies, hashOk \in BOOLEAN :
              \/ \E authority \in Accounts, agentperm \in Permissions :
                    createpolicy(agent, authority, agentperm, version, policy, hashOk, signers)
              \/ setpolicy(agent, version, policy, hashOk, signers)
        \/ disable(agent, signers)
        \/ enable(agent, signers)
        \/ \E agentperm \in Permissions : setperm(agent, agentperm, signers)
        \/ \E newauthority \in Accounts : setauthority(agent, newauthority, signers)
  BY DEF RegistryNext
<1>2. ASSUME HasRow(agent)
      PROVE  /\ RowOf(agent) \in PolicyRow /\ RowOf(agent).version \in Nat
  <2>1. revisions[agent] \in Seq(Revision) /\ revisions[agent] # <<>>
    BY <1>2 DEF RegistryType, HasRow
  <2>2. Len(revisions[agent]) \in 1 .. Len(revisions[agent])
    BY <2>1, EmptySeq, LenProperties
  <2>3. Last(revisions[agent]) \in Revision
    BY <2>1, <2>2, ElementOfSeq DEF Last
  <2>4. QED
    BY <2>3 DEF RowOf, Revision, PolicyRow
<1>3. ASSUME NEW version \in 1 .. MaxVersion, NEW policy \in Policies, NEW hashOk \in BOOLEAN,
             NEW authority \in Accounts, NEW agentperm \in Permissions,
             createpolicy(agent, authority, agentperm, version, policy, hashOk, signers)
      PROVE  \E row \in PolicyRow : Write(agent, row) /\ Follows(agent, row)
  <2> DEFINE new == [authority |-> authority, agentperm |-> agentperm, version |-> version,
                     policy |-> policy, enabled |-> TRUE]
  <2>1. new \in PolicyRow
    BY RegistryAssumption DEF PolicyRow
  <2>2. Write(agent, new) /\ ~HasRow(agent)
    BY <1>3 DEF createpolicy
  <2>3. QED
    BY <2>1, <2>2 DEF Follows
<1>4. ASSUME NEW version \in 1 .. MaxVersion, NEW policy \in Policies, NEW hashOk \in BOOLEAN,
             setpolicy(agent, version, policy, hashOk, signers)
      PROVE  \E row \in PolicyRow : Write(agent, row) /\ Follows(agent, row)
  <2> DEFINE new == [RowOf(agent) EXCEPT !.version = version, !.policy = policy]
  <2>1. HasRow(agent) /\ version > RowOf(agent).version /\ Write(agent, new)
    BY <1>4 DEF setpolicy
  <2>2. new \in PolicyRow /\ new.version = version
    <3>1. version \in Nat /\ RowOf(agent) \in PolicyRow
      BY <2>1, <1>2, RegistryAssumption
    <3>2. \A r \in PolicyRow : [r EXCEPT !.version = version, !.policy = policy] \in PolicyRow
                              /\ [r EXCEPT !.version = version, !.policy = policy].version = version
      BY <3>1 DEF PolicyRow
    <3>3. QED
      BY <3>1, <3>2
  <2>3. Follows(agent, new)
    BY <2>1, <2>2, <1>2, RegistryAssumption DEF Follows
  <2>4. QED
    BY <2>1, <2>2, <2>3
<1>5. ASSUME NEW new \in PolicyRow, HasRow(agent), Write(agent, new),
             new.version = RowOf(agent).version, new.policy = RowOf(agent).policy
      PROVE  \E row \in PolicyRow : Write(agent, row) /\ Follows(agent, row)
  BY <1>5, <1>2 DEF Follows
<1>6. CASE disable(agent, signers)
  <2> DEFINE new == [RowOf(agent) EXCEPT !.enabled = FALSE]
  <2>1. HasRow(agent) /\ Write(agent, new)
    BY <1>6 DEF disable
  <2>2. /\ new \in PolicyRow
        /\ new.version = RowOf(agent).version /\ new.policy = RowOf(agent).policy
    BY <2>1, <1>2 DEF PolicyRow
  <2>3. QED
    BY <2>1, <2>2, <1>5
<1>7. CASE enable(agent, signers)
  <2> DEFINE new == [RowOf(agent) EXCEPT !.enabled = TRUE]
  <2>1. HasRow(agent) /\ Write(agent, new)
    BY <1>7 DEF enable
  <2>2. /\ new \in PolicyRow
        /\ new.version = RowOf(agent).version /\ new.policy = RowOf(agent).policy
    BY <2>1, <1>2 DEF PolicyRow
  <2>3. QED
    BY <2>1, <2>2, <1>5
<1>8. ASSUME NEW agentperm \in Permissions, setperm(agent, agentperm, signers)
      PROVE  \E row \in PolicyRow : Write(agent, row) /\ Follows(agent, row)
  <2> DEFINE new == [RowOf(agent) EXCEPT !.agentperm = agentperm]
  <2>1. HasRow(agent) /\ Write(agent, new)
    BY <1>8 DEF setperm
  <2>2. /\ new \in PolicyRow
        /\ new.version = RowOf(agent).version /\ new.policy = RowOf(agent).policy
    BY <2>1, <1>2 DEF PolicyRow
  <2>3. QED
    BY <2>1, <2>2, <1>5
<1>9. ASSUME NEW newauthority \in Accounts, setauthority(agent, newauthority, signers)
      PROVE  \E row \in PolicyRow : Write(agent, row) /\ Follows(agent, row)
  <2> DEFINE new == [RowOf(agent) EXCEPT !.authority = newauthority]
  <2>1. HasRow(agent) /\ Write(agent, new)
    BY <1>9 DEF setauthority
  <2>2. /\ new \in PolicyRow
        /\ new.version = RowOf(agent).version /\ new.policy = RowOf(agent).policy
    BY <2>1, <1>2 DEF PolicyRow
  <2>3. QED
    BY <2>1, <2>2, <1>5
<1>10. QED
  BY <1>1, <1>3, <1>4, <1>6, <1>7, <1>8, <1>9

\* What a write does to the histories: one grows by a row, the others stay.
LEMMA WriteGrows ==
    ASSUME RegistryType, NEW agent \in Agents, NEW row \in PolicyRow, Write(agent, row)
    PROVE  /\ revisions' \in [Agents -> Seq(Revision)]
           /\ \A a \in Agents : a # agent => revisions'[a] = revisions[a]
           /\ Len(revisions[agent]) \in Nat
           /\ Len(revisions'[agent]) = Len(revisions[agent]) + 1
           /\ \A i \in 1 .. Len(revisions[agent]) : revisions'[agent][i] = revisions[agent][i]
           /\ revisions'[agent][Len(revisions[agent]) + 1] = [row |-> row, at |-> clock]
<1> DEFINE new == [row |-> row, at |-> clock]
<1>1. revisions[agent] \in Seq(Revision) /\ new \in Revision
  BY DEF RegistryType, Revision
<1>2. revisions' = [revisions EXCEPT ![agent] = Append(@, new)]
  BY DEF Write
<1>3. revisions'[agent] = Append(revisions[agent], new)
  BY <1>2 DEF RegistryType
<1>4. Append(revisions[agent], new) \in Seq(Revision)
  BY <1>1, AppendProperties
<1>5. QED
  BY <1>1, <1>2, <1>3, <1>4, AppendProperties, LenProperties DEF RegistryType

\* Versions stay ordered, and each goes on naming one document.
LEMMA VersionsStep ==
    ASSUME RegistryType, VersionNamesPolicy,
           NEW agent \in Agents, NEW row \in PolicyRow, Write(agent, row), Follows(agent, row)
    PROVE  VersionNamesPolicy'
<1>0. /\ revisions' \in [Agents -> Seq(Revision)]
      /\ \A b \in Agents : b # agent => revisions'[b] = revisions[b]
      /\ Len(revisions[agent]) \in Nat
      /\ Len(revisions'[agent]) = Len(revisions[agent]) + 1
      /\ \A k \in 1 .. Len(revisions[agent]) : revisions'[agent][k] = revisions[agent][k]
      /\ revisions'[agent][Len(revisions[agent]) + 1] = [row |-> row, at |-> clock]
  BY WriteGrows
<1> SUFFICES ASSUME NEW a \in Agents,
                    NEW i \in DOMAIN revisions'[a], NEW j \in DOMAIN revisions'[a], i < j
             PROVE  /\ revisions'[a][i].row.version <= revisions'[a][j].row.version
                    /\ revisions'[a][i].row.version = revisions'[a][j].row.version
                         => revisions'[a][i].row.policy = revisions'[a][j].row.policy
  BY DEF VersionNamesPolicy
<1> DEFINE n == Len(revisions[agent])
<1>1. CASE a # agent
  BY <1>1, <1>0 DEF VersionNamesPolicy
<1>2. CASE a = agent
  <2>1. /\ n \in Nat /\ revisions[a] \in Seq(Revision) /\ revisions'[a] \in Seq(Revision)
        /\ DOMAIN revisions[a] = 1 .. n /\ DOMAIN revisions'[a] = 1 .. (n + 1)
    BY <1>2, <1>0, LenProperties DEF RegistryType
  <2>2. i \in 1 .. n /\ revisions'[a][i] = revisions[a][i]
    BY <1>2, <2>1, <1>0
  <2>3. CASE j \in 1 .. n
    <3>1. revisions'[a][j] = revisions[a][j]
      BY <1>2, <2>3, <1>0
    <3>2. QED
      BY <2>1, <2>2, <2>3, <3>1 DEF VersionNamesPolicy
  <2>4. CASE j = n + 1
    <3>1. revisions'[a][j].row = row
      BY <1>2, <2>4, <1>0
    <3>2. n \in 1 .. n /\ revisions[a] # <<>> /\ RowOf(a) = revisions[a][n].row
      <4>1. n \in 1 .. n /\ n # 0
        BY <2>1, <2>2
      <4>2. revisions[a] # <<>>
        BY <1>2, <4>1, EmptySeq
      <4>3. QED
        BY <1>2, <4>1, <4>2 DEF RowOf, Last
    <3>3. /\ revisions[a][i].row.version <= RowOf(a).version
          /\ revisions[a][i].row.version = RowOf(a).version
                => revisions[a][i].row.policy = RowOf(a).policy
      <4>1. CASE i = n
        <5>1. revisions[a][n] \in Revision
          BY <2>1, <3>2, ElementOfSeq
        <5>2. QED
          BY <4>1, <3>2, <5>1 DEF Revision, PolicyRow
      <4>2. CASE i < n
        BY <4>2, <2>1, <2>2, <3>2 DEF VersionNamesPolicy
      <4>3. QED
        BY <2>1, <2>2, <4>1, <4>2
    <3>4. /\ RowOf(a).version <= row.version
          /\ RowOf(a).version = row.version => RowOf(a).policy = row.policy
      BY <1>2, <3>2 DEF Follows, HasRow
    <3>5. revisions[a][i].row.version \in Nat /\ RowOf(a).version \in Nat /\ row.version \in Nat
      <4>1. revisions[a][i] \in Revision /\ revisions[a][n] \in Revision
        BY <2>1, <2>2, <3>2, ElementOfSeq
      <4>2. QED
        BY <4>1, <3>2 DEF Revision, PolicyRow
    <3>6. QED
      BY <2>2, <3>1, <3>3, <3>4, <3>5
  <2>5. QED
    BY <2>1, <2>3, <2>4
<1>3. QED
  BY <1>1, <1>2

\* A revision that was current until then stays so: what follows it is written now.
LEMMA WriteKeepsCurrent ==
    ASSUME RegistryType, NEW agent \in Agents, NEW row \in PolicyRow, Write(agent, row),
           NEW a \in Agents, NEW rev \in 0 .. Len(revisions[a]), NEW d \in Nat, NEW t \in Nat,
           t <= clock, CurrentUntil(a, rev, d, t)
    PROVE  CurrentUntil(a, rev, d, t)' /\ rev \in 0 .. Len(revisions'[a])
<1>0. /\ revisions' \in [Agents -> Seq(Revision)]
      /\ \A b \in Agents : b # agent => revisions'[b] = revisions[b]
      /\ Len(revisions[agent]) \in Nat
      /\ Len(revisions'[agent]) = Len(revisions[agent]) + 1
      /\ \A k \in 1 .. Len(revisions[agent]) : revisions'[agent][k] = revisions[agent][k]
      /\ revisions'[agent][Len(revisions[agent]) + 1] = [row |-> row, at |-> clock]
  BY WriteGrows
<1>1. CASE a # agent
  BY <1>1, <1>0 DEF CurrentUntil
<1>2. CASE a = agent
  <2>1. /\ Len(revisions[a]) \in Nat /\ Len(revisions'[a]) = Len(revisions[a]) + 1
        /\ revisions'[a][Len(revisions[a]) + 1] = [row |-> row, at |-> clock]
        /\ clock \in Nat
    BY <1>2, <1>0 DEF RegistryType
  <2>2. CASE rev = Len(revisions[a])
    BY <2>1, <2>2 DEF CurrentUntil
  <2>3. CASE rev # Len(revisions[a])
    <3>1. rev + 1 \in 1 .. Len(revisions[a])
      BY <2>1, <2>3
    <3>2. revisions'[a][rev + 1] = revisions[a][rev + 1]
      BY <1>2, <3>1, <1>0
    <3>3. QED
      BY <2>1, <2>3, <3>2 DEF CurrentUntil
  <2>4. QED
    BY <2>2, <2>3
<1>3. QED
  BY <1>1, <1>2

-----------------------------------------------------------------------------
\* What get() finds is the row in SQLite.
LEMMA LookUpIsStored ==
    ASSUME TypeOK, MemoryIsStored, NEW a \in Agents
    PROVE  /\ LookUp(a) \in Entry \cup {NoEntry}
           /\ LookUp(a) # NoEntry => LookUp(a) = stored[a]
  BY DEF TypeOK, MemoryIsStored, LookUp

\* A refresh that is accepted has read a row of the table, none below the watermark.
LEMMA AcceptedRow ==
    ASSUME CacheInv, NEW c \in Calls, call[c] # Idle, Accepts(c)
    PROVE  /\ call[c] \in CallType /\ call[c].agent \in Agents
           /\ call[c].reply \in 1 .. Len(revisions[call[c].agent])
           /\ call[c].reply \in Nat
           /\ RowRead(c) \in PolicyRow /\ RowRead(c).version \in Nat
           /\ RowRead(c).version >= watermark[call[c].agent]
<1>1. call[c] \in CallType /\ call[c].agent \in Agents
  BY DEF CacheInv, TypeOK, CallType
<1>2. /\ call[c].reply # NoReply /\ call[c].reply # 0
      /\ RowRead(c).version >= watermark[call[c].agent]
  BY DEF Accepts
<1>3. /\ revisions[call[c].agent] \in Seq(Revision)
      /\ Len(revisions[call[c].agent]) \in Nat
  BY <1>1, LenProperties DEF CacheInv, RegistryType
<1>4. call[c].reply \in 0 .. Len(revisions[call[c].agent])
  BY <1>2 DEF CacheInv, CallsAreTimely
<1>5. call[c].reply \in 1 .. Len(revisions[call[c].agent]) /\ call[c].reply \in Nat
  BY <1>2, <1>3, <1>4
<1>6. revisions[call[c].agent][call[c].reply] \in Revision
  BY <1>3, <1>5, ElementOfSeq
<1>7. RowRead(c) \in PolicyRow /\ RowRead(c).version \in Nat
  BY <1>6 DEF RowRead, Revision, PolicyRow
<1>8. QED
  BY <1>1, <1>2, <1>5, <1>7

\* The first start has nothing cached and an empty table.
LEMMA CacheStart == Init => CacheInv
<1> SUFFICES ASSUME Init PROVE CacheInv
  OBVIOUS
<1> USE DEF Init, RegistryInit
<1>1. RegistryType
  <2>1. <<>> \in Seq(Revision)
    BY EmptySeq
  <2>2. QED
    BY <2>1 DEF RegistryType
<1>2. \A a \in Agents : DOMAIN revisions[a] = {}
  BY EmptySeq
<1>3. VersionNamesPolicy
  BY <1>2 DEF VersionNamesPolicy
<1>4. TypeOK
  BY <1>2 DEF TypeOK
<1>5. MemoryIsStored /\ CallsAreTimely
  BY DEF MemoryIsStored, CallsAreTimely
<1>6. QED
  BY <1>1, <1>3, <1>4, <1>5 DEF CacheInv

\* A row written to the table disturbs no refresh under way.
LEMMA ContractKeepsCache == CacheInv /\ ContractStep => CacheInv'
<1> SUFFICES ASSUME CacheInv, ContractStep PROVE CacheInv'
  OBVIOUS
<1>1. /\ RegistryType /\ VersionNamesPolicy /\ RegistryNext
      /\ UNCHANGED <<clock, stored, watermark, memory, call, served>>
  BY DEF CacheInv, ContractStep, cacheVars
<1>2. PICK agent \in Agents, row \in PolicyRow : Write(agent, row) /\ Follows(agent, row)
  BY <1>1, ContractWrites
<1>3. RegistryType'
  BY <1>1, <1>2, WriteGrows DEF RegistryType
<1>4. VersionNamesPolicy'
  BY <1>1, <1>2, VersionsStep
<1>5. TypeOK'
  <2>1. \A a \in Agents : \A i \in DOMAIN revisions'[a] :
           revisions'[a][i].row \in PolicyRow /\ revisions'[a][i].at \in Nat
    <3>1. SUFFICES ASSUME NEW a \in Agents, NEW i \in DOMAIN revisions'[a]
                   PROVE  revisions'[a][i] \in Revision
      BY DEF Revision
    <3>2. revisions'[a] \in Seq(Revision)
      BY <1>3 DEF RegistryType
    <3>3. QED
      BY <3>2, LenProperties, ElementOfSeq
  <2>2. QED
    BY <1>1, <2>1 DEF CacheInv, TypeOK
<1>6. MemoryIsStored'
  BY <1>1 DEF CacheInv, MemoryIsStored
<1>7. CallsAreTimely'
  <2>1. \A a \in Agents : /\ Len(revisions[a]) \in Nat /\ Len(revisions'[a]) \in Nat
                          /\ Len(revisions'[a]) >= Len(revisions[a])
    <3>1. SUFFICES ASSUME NEW a \in Agents
                   PROVE  /\ Len(revisions[a]) \in Nat /\ Len(revisions'[a]) \in Nat
                          /\ Len(revisions'[a]) >= Len(revisions[a])
      OBVIOUS
    <3>2. Len(revisions[a]) \in Nat
      BY <1>1, LenProperties DEF RegistryType
    <3>3. /\ a # agent => revisions'[a] = revisions[a]
          /\ a = agent => Len(revisions'[a]) = Len(revisions[a]) + 1
      BY <1>1, <1>2, WriteGrows
    <3>4. QED
      BY <3>2, <3>3
  <2>2. \A c \in Calls : call[c] # Idle => call[c].agent \in Agents
    BY DEF CacheInv, TypeOK, CallType
  <2>3. QED
    BY <1>1, <2>1, <2>2 DEF CacheInv, CallsAreTimely
<1>8. QED
  BY <1>3, <1>4, <1>5, <1>6, <1>7 DEF CacheInv

\* A step of the cache alone leaves the table as it is.
LEMMA TableStands ==
    ASSUME CacheInv, UNCHANGED revisions, clock' \in Nat
    PROVE  /\ RegistryType' /\ VersionNamesPolicy'
           /\ (\A a \in Agents : \A i \in DOMAIN revisions[a] :
                 revisions[a][i].row \in PolicyRow /\ revisions[a][i].at \in Nat)'
  BY DEF CacheInv, RegistryType, VersionNamesPolicy, TypeOK

\* A new refresh starts now, and has no reply yet.
LEMMA StartKeeps ==
    ASSUME CacheInv, NEW c \in Calls, NEW by \in {"timer", "get"}, NEW a \in Agents,
           NEW held \in Entry \cup {NoEntry}, Start(c, by, a, held), UNCHANGED <<revisions, clock>>
    PROVE  call' \in [Calls -> CallType \cup {Idle}] /\ CallsAreTimely'
<1> DEFINE new == [by |-> by, agent |-> a, held |-> held, since |-> clock, reply |-> NoReply]
<1>1. clock \in Nat /\ clock <= clock + MaxLatency /\ clock <= clock
  BY CacheAssumption DEF CacheInv, RegistryType
<1>2. new \in CallType
  BY <1>1 DEF CallType
<1>3. call' = [call EXCEPT ![c] = new] /\ call \in [Calls -> CallType \cup {Idle}]
  BY DEF Start, CacheInv, TypeOK
<1>4. CallsAreTimely'
  <2>1. SUFFICES ASSUME NEW d \in Calls, call'[d] # Idle
                 PROVE  /\ call'[d].since <= clock /\ clock <= call'[d].since + MaxLatency
                        /\ call'[d].reply # NoReply
                             => call'[d].reply \in 0 .. Len(revisions[call'[d].agent])
    BY DEF CallsAreTimely
  <2>2. CASE d = c
    BY <1>1, <1>3, <2>2
  <2>3. CASE d # c
    BY <1>3, <2>1, <2>3 DEF CacheInv, CallsAreTimely
  <2>4. QED
    BY <2>2, <2>3
<1>5. QED
  BY <1>2, <1>3, <1>4

\* A refresh that ends leaves the others as they are.
LEMMA EndKeeps ==
    ASSUME CacheInv, NEW c \in Calls, call' = [call EXCEPT ![c] = Idle],
           UNCHANGED <<revisions, clock>>
    PROVE  call' \in [Calls -> CallType \cup {Idle}] /\ CallsAreTimely'
<1>1. call \in [Calls -> CallType \cup {Idle}]
  BY DEF CacheInv, TypeOK
<1>2. call' \in [Calls -> CallType \cup {Idle}]
  BY <1>1
<1>3. \A d \in Calls : call'[d] # Idle => call'[d] = call[d]
  BY <1>1
<1>4. QED
  BY <1>2, <1>3 DEF CacheInv, CallsAreTimely

-----------------------------------------------------------------------------
\* get() on a fresh row answers with the row in SQLite.
LEMMA GetFreshKeeps ==
    ASSUME CacheInv, NEW a \in Agents, GetFresh(a)
    PROVE  CacheInv' /\ LookUp(a) \in Entry /\ LookUp(a) = stored[a]
<1>1. /\ UNCHANGED <<revisions, clock, stored, watermark, call>>
      /\ memory' = [memory EXCEPT ![a] = LookUp(a)]
      /\ served' = [served EXCEPT ![a] = [entry |-> LookUp(a), at |-> clock, confirmed |-> TRUE]]
      /\ LookUp(a) # NoEntry
  BY DEF GetFresh, Serve, IsFresh
<1>2. LookUp(a) \in Entry /\ LookUp(a) = stored[a]
  BY <1>1, LookUpIsStored DEF CacheInv
<1>3. clock \in Nat /\ clock' \in Nat
  BY <1>1 DEF CacheInv, RegistryType
<1>4. TypeOK'
  BY <1>1, <1>2, <1>3, TableStands DEF CacheInv, TypeOK
<1>5. MemoryIsStored'
  BY <1>1, <1>2 DEF CacheInv, TypeOK, MemoryIsStored
<1>6. CallsAreTimely'
  BY <1>1 DEF CacheInv, CallsAreTimely
<1>7. QED
  BY <1>1, <1>2, <1>3, <1>4, <1>5, <1>6, TableStands DEF CacheInv

\* The timer, and a get() on a stale row, start a refresh.
LEMMA StartsKeep ==
    ASSUME CacheInv, NEW c \in Calls, NEW a \in Agents,
           RefreshInBackground(c, a) \/ GetStale(c, a)
    PROVE  CacheInv'
<1>1. CASE RefreshInBackground(c, a)
  <2>1. /\ Start(c, "timer", a, NoEntry)
        /\ UNCHANGED <<revisions, clock, stored, watermark, memory, served>>
    BY <1>1 DEF RefreshInBackground
  <2>2. call' \in [Calls -> CallType \cup {Idle}] /\ CallsAreTimely'
    BY <2>1, StartKeeps
  <2>3. clock' \in Nat
    BY <2>1 DEF CacheInv, RegistryType
  <2>4. TypeOK' /\ MemoryIsStored'
    BY <2>1, <2>2, <2>3, TableStands DEF CacheInv, TypeOK, MemoryIsStored
  <2>5. QED
    BY <2>1, <2>2, <2>3, <2>4, TableStands DEF CacheInv
<1>2. CASE GetStale(c, a)
  <2>1. /\ Start(c, "get", a, LookUp(a))
        /\ memory' = [memory EXCEPT ![a] = LookUp(a)]
        /\ UNCHANGED <<revisions, clock, stored, watermark, served>>
    BY <1>2 DEF GetStale
  <2>2. /\ LookUp(a) \in Entry \cup {NoEntry}
        /\ LookUp(a) # NoEntry => LookUp(a) = stored[a]
    BY LookUpIsStored DEF CacheInv
  <2>3. call' \in [Calls -> CallType \cup {Idle}] /\ CallsAreTimely'
    BY <2>1, <2>2, StartKeeps
  <2>4. clock' \in Nat
    BY <2>1 DEF CacheInv, RegistryType
  <2>5. TypeOK'
    BY <2>1, <2>2, <2>3, <2>4, TableStands DEF CacheInv, TypeOK
  <2>6. MemoryIsStored'
    BY <2>1, <2>2 DEF CacheInv, TypeOK, MemoryIsStored
  <2>7. QED
    BY <2>1, <2>3, <2>4, <2>5, <2>6, TableStands DEF CacheInv
<1>3. QED
  BY <1>1, <1>2

\* An endpoint answers with a revision of the table, or with no row.
LEMMA ReadKeeps ==
    ASSUME CacheInv, NEW c \in Calls, NEW rev \in 0 .. MaxRevisions, EndpointReads(c, rev)
    PROVE  CacheInv'
<1>1. /\ call[c] # Idle /\ call' = [call EXCEPT ![c].reply = rev]
      /\ UNCHANGED <<revisions, clock, stored, watermark, memory, served>>
      /\ rev \in IF StaleNodes THEN 0 .. Len(revisions[call[c].agent])
                               ELSE {Len(revisions[call[c].agent])}
  BY DEF EndpointReads
<1>2. /\ call \in [Calls -> CallType \cup {Idle}] /\ call[c] \in CallType
      /\ Len(revisions[call[c].agent]) \in Nat
  <2>1. call \in [Calls -> CallType \cup {Idle}] /\ call[c] \in CallType
    BY <1>1 DEF CacheInv, TypeOK
  <2>2. call[c].agent \in Agents
    BY <2>1 DEF CallType
  <2>3. QED
    BY <2>1, <2>2, LenProperties DEF CacheInv, RegistryType
<1>3. rev \in 0 .. Len(revisions[call[c].agent]) /\ rev \in Nat
  BY <1>1, <1>2
<1>4. /\ [call[c] EXCEPT !.reply = rev] \in CallType
      /\ [call[c] EXCEPT !.reply = rev].agent = call[c].agent
      /\ [call[c] EXCEPT !.reply = rev].since = call[c].since
      /\ [call[c] EXCEPT !.reply = rev].reply = rev
  <2>1. \A k \in CallType : /\ [k EXCEPT !.reply = rev] \in CallType
                            /\ [k EXCEPT !.reply = rev].agent = k.agent
                            /\ [k EXCEPT !.reply = rev].since = k.since
                            /\ [k EXCEPT !.reply = rev].reply = rev
    BY <1>3 DEF CallType
  <2>2. QED
    BY <1>2, <2>1
<1>5. /\ call' \in [Calls -> CallType \cup {Idle}]
      /\ call'[c] = [call[c] EXCEPT !.reply = rev]
      /\ \A d \in Calls : d # c => call'[d] = call[d]
  BY <1>1, <1>2, <1>4
<1>6. clock' \in Nat
  BY <1>1 DEF CacheInv, RegistryType
<1>7. TypeOK' /\ MemoryIsStored'
  BY <1>1, <1>5, <1>6, TableStands DEF CacheInv, TypeOK, MemoryIsStored
<1>8. CallsAreTimely'
  <2>1. SUFFICES ASSUME NEW d \in Calls, call'[d] # Idle
                 PROVE  /\ call'[d].since <= clock /\ clock <= call'[d].since + MaxLatency
                        /\ call'[d].reply # NoReply
                             => call'[d].reply \in 0 .. Len(revisions[call'[d].agent])
    BY <1>1 DEF CallsAreTimely
  <2>2. CASE d = c
    <3>1. call[c].since <= clock /\ clock <= call[c].since + MaxLatency
      BY <1>1 DEF CacheInv, CallsAreTimely
    <3>2. /\ call'[d].agent = call[c].agent /\ call'[d].since = call[c].since
          /\ call'[d].reply = rev
      BY <1>4, <1>5, <2>2
    <3>3. QED
      BY <1>3, <3>1, <3>2
  <2>3. CASE d # c
    BY <1>5, <2>1, <2>3 DEF CacheInv, CallsAreTimely
  <2>4. QED
    BY <2>2, <2>3
<1>9. QED
  BY <1>1, <1>6, <1>7, <1>8, TableStands DEF CacheInv

\* An accepted row becomes the cached one, in SQLite and in memory at once, and
\* its version the watermark.
LEMMA SuccessKeeps ==
    ASSUME CacheInv, NEW c \in Calls, RefreshSucceeds(c)
    PROVE  CacheInv'
<1> DEFINE a == call[c].agent
           entry == [row |-> RowRead(c), rev |-> call[c].reply, verifiedAt |-> clock]
<1>1. /\ call[c] # Idle /\ Accepts(c)
      /\ stored' = [stored EXCEPT ![a] = entry]
      /\ memory' = [memory EXCEPT ![a] = entry]
      /\ watermark' = [watermark EXCEPT ![a] =
                         IF entry.row.version > @ THEN entry.row.version ELSE @]
      /\ call' = [call EXCEPT ![c] = Idle]
      /\ UNCHANGED <<revisions, clock>>
      /\ \/ served' = [served EXCEPT ![a] = [entry |-> entry, at |-> clock, confirmed |-> TRUE]]
         \/ served' = served
  BY DEF RefreshSucceeds, Serve
<1>2. /\ a \in Agents /\ RowRead(c) \in PolicyRow /\ call[c].reply \in Nat
      /\ RowRead(c).version \in Nat /\ RowRead(c).version >= watermark[a]
  BY <1>1, AcceptedRow
<1>3. clock \in Nat /\ clock' \in Nat
  BY <1>1 DEF CacheInv, RegistryType
<1>4. entry \in Entry /\ entry.row = RowRead(c)
  BY <1>2, <1>3 DEF Entry
<1>5. call' \in [Calls -> CallType \cup {Idle}] /\ CallsAreTimely'
  BY <1>1, EndKeeps
<1>6. /\ stored \in [Agents -> Entry \cup {NoEntry}]
      /\ memory \in [Agents -> Entry \cup {NoEntry}]
      /\ watermark \in [Agents -> Nat]
      /\ served \in [Agents -> [entry : Entry, at : Nat, confirmed : BOOLEAN] \cup {NoEntry}]
      /\ \A b \in Agents : stored[b] # NoEntry => stored[b].row.version = watermark[b]
  BY DEF CacheInv, TypeOK
<1> HIDE DEF a, entry
<1>7. watermark' = [watermark EXCEPT ![a] = RowRead(c).version]
  <2>1. (IF RowRead(c).version > watermark[a] THEN RowRead(c).version ELSE watermark[a])
           = RowRead(c).version
    <3>1. \A v, w \in Nat : v >= w => (IF v > w THEN v ELSE w) = v
      OBVIOUS
    <3>2. watermark[a] \in Nat
      BY <1>2, <1>6
    <3>3. QED
      BY <1>2, <3>1, <3>2
  <2>2. watermark' = [watermark EXCEPT ![a] = IF RowRead(c).version > watermark[a]
                                              THEN RowRead(c).version ELSE watermark[a]]
    BY <1>1, <1>4
  <2>3. QED
    BY <2>1, <2>2
<1>8. /\ stored' \in [Agents -> Entry \cup {NoEntry}]
      /\ memory' \in [Agents -> Entry \cup {NoEntry}]
      /\ watermark' \in [Agents -> Nat]
  BY <1>1, <1>2, <1>4, <1>6, <1>7
<1>9. served' \in [Agents -> [entry : Entry, at : Nat, confirmed : BOOLEAN] \cup {NoEntry}]
  <2>1. [entry |-> entry, at |-> clock, confirmed |-> TRUE]
          \in [entry : Entry, at : Nat, confirmed : BOOLEAN]
    BY <1>3, <1>4
  <2>2. QED
    BY <1>1, <1>2, <1>6, <2>1
<1>10. \A b \in Agents : stored'[b] # NoEntry => stored'[b].row.version = watermark'[b]
  BY <1>1, <1>2, <1>4, <1>6, <1>7
<1>11. TypeOK'
  BY <1>1, <1>3, <1>5, <1>8, <1>9, <1>10, TableStands DEF TypeOK
<1>12. MemoryIsStored'
  BY <1>1, <1>2, <1>6 DEF CacheInv, MemoryIsStored
<1>13. QED
  BY <1>1, <1>3, <1>5, <1>11, <1>12, TableStands DEF CacheInv

\* A refresh that fails changes no cached row.
LEMMA FailureKeeps ==
    ASSUME CacheInv, NEW c \in Calls, RefreshFails(c)
    PROVE  CacheInv'
<1>1. /\ call[c] # Idle /\ call' = [call EXCEPT ![c] = Idle]
      /\ UNCHANGED <<revisions, clock, stored, watermark, memory>>
      /\ \/ /\ call[c].held # NoEntry
            /\ served' = [served EXCEPT ![call[c].agent] =
                            [entry |-> call[c].held, at |-> clock, confirmed |-> FALSE]]
         \/ served' = served
  BY DEF RefreshFails, Serve, InGrace
<1>2. /\ call[c] \in CallType
      /\ served \in [Agents -> [entry : Entry, at : Nat, confirmed : BOOLEAN] \cup {NoEntry}]
  BY <1>1 DEF CacheInv, TypeOK
<1>3. call[c].agent \in Agents /\ call[c].held \in Entry \cup {NoEntry}
  BY <1>2 DEF CallType
<1>4. clock \in Nat /\ clock' \in Nat
  BY <1>1 DEF CacheInv, RegistryType
<1>5. served' \in [Agents -> [entry : Entry, at : Nat, confirmed : BOOLEAN] \cup {NoEntry}]
  <2>1. call[c].held # NoEntry =>
          [entry |-> call[c].held, at |-> clock, confirmed |-> FALSE]
            \in [entry : Entry, at : Nat, confirmed : BOOLEAN]
    BY <1>3, <1>4
  <2>2. QED
    BY <1>1, <1>2, <1>3, <2>1
<1>6. call' \in [Calls -> CallType \cup {Idle}] /\ CallsAreTimely'
  BY <1>1, EndKeeps
<1>7. TypeOK' /\ MemoryIsStored'
  BY <1>1, <1>4, <1>5, <1>6, TableStands DEF CacheInv, TypeOK, MemoryIsStored
<1>8. QED
  BY <1>1, <1>4, <1>6, <1>7, TableStands DEF CacheInv

\* A restart empties the memory and drops the refreshes under way.
LEMMA RestartKeeps == CacheInv /\ Restart => CacheInv'
<1> SUFFICES ASSUME CacheInv, Restart PROVE CacheInv'
  OBVIOUS
<1>1. /\ memory' = [a \in Agents |-> NoEntry] /\ call' = [c \in Calls |-> Idle]
      /\ UNCHANGED <<revisions, clock, stored, watermark, served>>
  BY DEF Restart
<1>2. clock' \in Nat
  BY <1>1 DEF CacheInv, RegistryType
<1>3. TypeOK' /\ MemoryIsStored' /\ CallsAreTimely'
  BY <1>1, <1>2, TableStands DEF CacheInv, TypeOK, MemoryIsStored, CallsAreTimely
<1>4. QED
  BY <1>1, <1>2, <1>3, TableStands DEF CacheInv

\* Time goes on only while no refresh is older than the time a read takes.
LEMMA TickKeeps == CacheInv /\ Tick => CacheInv'
<1> SUFFICES ASSUME CacheInv, Tick PROVE CacheInv'
  OBVIOUS
<1>1. /\ clock' = clock + 1 /\ UNCHANGED <<revisions, stored, watermark, memory, call, served>>
      /\ \A c \in Calls : call[c] # Idle => clock < call[c].since + MaxLatency
  BY DEF Tick, cacheVars
<1>2. clock \in Nat /\ clock' \in Nat
  BY <1>1 DEF CacheInv, RegistryType
<1>3. TypeOK' /\ MemoryIsStored'
  BY <1>1, <1>2, TableStands DEF CacheInv, TypeOK, MemoryIsStored
<1>4. \A c \in Calls : call[c] # Idle => call[c].since \in Nat
  BY DEF CacheInv, TypeOK, CallType
<1>5. CallsAreTimely'
  BY <1>1, <1>2, <1>4, CacheAssumption DEF CacheInv, CallsAreTimely
<1>6. QED
  BY <1>1, <1>2, <1>3, <1>5, TableStands DEF CacheInv

LEMMA CacheStep == CacheInv /\ [Next]_vars => CacheInv'
<1> SUFFICES ASSUME CacheInv, [Next]_vars PROVE CacheInv'
  OBVIOUS
<1>1. CASE UNCHANGED vars
  <2>1. UNCHANGED <<revisions, clock, stored, watermark, memory, call, served>>
    BY <1>1 DEF vars, cacheVars
  <2>2. QED
    BY <2>1 DEF CacheInv, RegistryType, VersionNamesPolicy, TypeOK, MemoryIsStored,
                CallsAreTimely
<1>2. CASE \E a \in Agents : GetFresh(a)
  BY <1>2, GetFreshKeeps
<1>3. CASE \E c \in Calls, a \in Agents : RefreshInBackground(c, a) \/ GetStale(c, a)
  BY <1>3, StartsKeep
<1>4. CASE \E c \in Calls, rev \in 0 .. MaxRevisions : EndpointReads(c, rev)
  BY <1>4, ReadKeeps
<1>5. CASE \E c \in Calls : RefreshSucceeds(c) \/ RefreshFails(c)
  BY <1>5, SuccessKeeps, FailureKeeps
<1>6. CASE Restart
  BY <1>6, RestartKeeps
<1>7. CASE ContractStep
  BY <1>7, ContractKeepsCache
<1>8. CASE Tick
  BY <1>8, TickKeeps
<1>9. QED
  BY <1>1, <1>2, <1>3, <1>4, <1>5, <1>6, <1>7, <1>8 DEF Next

LEMMA CacheInductive == Spec => []CacheInv
  BY CacheStart, CacheStep, PTL DEF Spec

-----------------------------------------------------------------------------
\* Every state is well-typed, and the row in SQLite has the version of its
\* watermark column (policyCache.ts, the write after an accepted refresh).
THEOREM CacheTypes == Spec => []TypeOK
<1>1. CacheInv => TypeOK
  BY DEF CacheInv
<1>2. QED
  BY <1>1, CacheInductive, PTL

\* The contract's versions never go down, and a version names one document
\* (signbox.contract.ts, setpolicy's check of the version).
THEOREM VersionsNamePolicies == Spec => []VersionNamesPolicy
<1>1. CacheInv => VersionNamesPolicy
  BY DEF CacheInv
<1>2. QED
  BY <1>1, CacheInductive, PTL

\* No decision gets a confirmed row below the watermark (policyCache.ts, the
\* anti-rollback check), whatever endpoints answer and across restarts.
THEOREM NeverRollsBack == Spec => ServedNeverRollsBack
<1> DEFINE Forward == \A a \in Agents :
                        (served'[a] # served[a] /\ served'[a].confirmed)
                           => served'[a].entry.row.version >= watermark[a]
<1>1. CacheInv /\ [Next]_vars => Forward \/ UNCHANGED vars
  <2> SUFFICES ASSUME CacheInv, Next PROVE Forward
    BY DEF Forward
  <2>1. ASSUME UNCHANGED served PROVE Forward
    BY <2>1 DEF Forward
  <2>2. /\ served \in [Agents -> [entry : Entry, at : Nat, confirmed : BOOLEAN] \cup {NoEntry}]
        /\ watermark \in [Agents -> Nat]
        /\ \A b \in Agents : stored[b] # NoEntry => stored[b].row.version = watermark[b]
    BY DEF CacheInv, TypeOK
  <2>3. ASSUME NEW a \in Agents, GetFresh(a) PROVE Forward
    <3>1. LookUp(a) \in Entry /\ LookUp(a) = stored[a]
      BY <2>3, GetFreshKeeps
    <3>2. stored[a].row.version = watermark[a]
      BY <2>2, <3>1, NoEntryAssumption
    <3>3. served' = [served EXCEPT ![a] =
                       [entry |-> stored[a], at |-> clock, confirmed |-> TRUE]]
      BY <2>3, <3>1 DEF GetFresh, Serve
    <3>4. QED
      BY <2>2, <3>2, <3>3 DEF Forward
  <2>4. ASSUME NEW c \in Calls, RefreshSucceeds(c) PROVE Forward
    <3> DEFINE a == call[c].agent
               entry == [row |-> RowRead(c), rev |-> call[c].reply, verifiedAt |-> clock]
    <3>1. /\ call[c] # Idle /\ Accepts(c)
          /\ \/ served' = [served EXCEPT ![a] =
                             [entry |-> entry, at |-> clock, confirmed |-> TRUE]]
             \/ served' = served
      BY <2>4 DEF RefreshSucceeds, Serve
    <3>2. a \in Agents /\ entry.row.version >= watermark[a]
      BY <3>1, AcceptedRow
    <3> HIDE DEF a, entry
    <3>3. QED
      BY <2>1, <2>2, <3>1, <3>2 DEF Forward
  <2>5. ASSUME NEW c \in Calls, RefreshFails(c) PROVE Forward
    <3>1. \/ served' = [served EXCEPT ![call[c].agent] =
                          [entry |-> call[c].held, at |-> clock, confirmed |-> FALSE]]
          \/ served' = served
      BY <2>5 DEF RefreshFails, Serve
    <3>2. QED
      BY <2>1, <2>2, <3>1 DEF Forward
  <2>6. ASSUME NEW c \in Calls, NEW a \in Agents, RefreshInBackground(c, a) \/ GetStale(c, a)
        PROVE  Forward
    BY <2>1, <2>6 DEF RefreshInBackground, GetStale
  <2>7. ASSUME NEW c \in Calls, NEW rev \in 0 .. MaxRevisions, EndpointReads(c, rev)
        PROVE  Forward
    BY <2>1, <2>7 DEF EndpointReads
  <2>8. CASE Restart \/ ContractStep \/ Tick
    BY <2>1, <2>8 DEF Restart, ContractStep, Tick, cacheVars
  <2>9. QED
    BY <2>3, <2>4, <2>5, <2>6, <2>7, <2>8 DEF Next
<1>2. QED
  BY <1>1, CacheInductive, PTL DEF Spec, ServedNeverRollsBack

-----------------------------------------------------------------------------
\* Arithmetic of the times of revisions.
LEMMA RevisionTimes ==
    ASSUME RegistryType, NEW a \in Agents, NEW rev \in 0 .. Len(revisions[a])
    PROVE  rev = Len(revisions[a]) \/ revisions[a][rev + 1].at \in Nat
<1>1. revisions[a] \in Seq(Revision) /\ Len(revisions[a]) \in Nat
  BY LenProperties DEF RegistryType
<1>2. ASSUME rev # Len(revisions[a]) PROVE revisions[a][rev + 1].at \in Nat
  <2>1. rev + 1 \in 1 .. Len(revisions[a])
    BY <1>1, <1>2
  <2>2. revisions[a][rev + 1] \in Revision
    BY <1>1, <2>1, ElementOfSeq
  <2>3. QED
    BY <2>2 DEF Revision
<1>3. QED
  BY <1>2

\* A later instant may be allowed for by a longer delay.
LEMMA LaterIsCurrent ==
    ASSUME RegistryType, NEW a \in Agents, NEW rev \in 0 .. Len(revisions[a]),
           NEW d \in Nat, NEW t \in Nat, NEW e \in Nat, NEW u \in Nat,
           u <= t + e, CurrentUntil(a, rev, d, t)
    PROVE  CurrentUntil(a, rev, e + d, u)
<1>1. rev = Len(revisions[a]) \/ revisions[a][rev + 1].at \in Nat
  BY RevisionTimes
<1>2. QED
  BY <1>1 DEF CurrentUntil

LEMMA FreshnessType == \A entry : Freshness(entry) \in Nat
  BY CacheAssumption DEF Freshness

\* While the table stands, what was recent stays so.
LEMMA RecentStands ==
    ASSUME RecentInv, UNCHANGED revisions, clock' \in Nat, clock <= clock'
    PROVE  /\ UNCHANGED stored => StoredIsRecent'
           /\ UNCHANGED served => AnswersAreRecent'
           /\ (\A c \in Calls : (call'[c] # Idle /\ call'[c].reply # NoReply)
                                   => call'[c] = call[c])
                => RepliesAreRecent'
<1>1. clock \in Nat
  BY DEF RecentInv, CacheInv, RegistryType
<1>2. \A a \in Agents : stored[a] # NoEntry => stored[a].verifiedAt \in Nat
  BY DEF RecentInv, CacheInv, TypeOK, Entry
<1>3. UNCHANGED stored => StoredIsRecent'
  BY <1>1, <1>2 DEF RecentInv, StoredIsRecent, EntryIsRecent, CurrentUntil
<1>4. ASSUME UNCHANGED served PROVE AnswersAreRecent'
  <2>1. \A a \in Agents : served[a] # NoEntry => served[a].at \in Nat
    BY DEF RecentInv, CacheInv, TypeOK
  <2>2. QED
    BY <1>1, <1>4, <2>1 DEF RecentInv, AnswersAreRecent, CurrentUntil, Freshness
<1>5. ASSUME \A c \in Calls : (call'[c] # Idle /\ call'[c].reply # NoReply)
                                 => call'[c] = call[c]
      PROVE  RepliesAreRecent'
  BY <1>5 DEF RecentInv, RepliesAreRecent, CurrentUntil
<1>6. QED
  BY <1>3, <1>4, <1>5

\* The answer to a decision is recent if its row was current until then.
LEMMA AnswerIsRecent ==
    ASSUME RecentInv, NEW a \in Agents, NEW entry \in Entry,
           entry.rev \in 1 .. Len(revisions[a]),
           CurrentUntil(a, entry.rev, Freshness(entry) + MaxLatency, clock),
           served' = [served EXCEPT ![a] = [entry |-> entry, at |-> clock, confirmed |-> TRUE]],
           UNCHANGED <<revisions, clock>>
    PROVE  AnswersAreRecent'
<1>1. served \in [Agents -> [entry : Entry, at : Nat, confirmed : BOOLEAN] \cup {NoEntry}]
  BY DEF RecentInv, CacheInv, TypeOK
<1>2. clock \in Nat /\ clock <= clock
  BY DEF RecentInv, CacheInv, RegistryType
<1>3. SUFFICES ASSUME NEW b \in Agents, served'[b] # NoEntry, served'[b].confirmed
               PROVE  /\ served'[b].entry.rev \in 1 .. Len(revisions[b])
                      /\ served'[b].at <= clock
                      /\ CurrentUntil(b, served'[b].entry.rev,
                                      Freshness(served'[b].entry) + MaxLatency, served'[b].at)
  BY DEF AnswersAreRecent, CurrentUntil, Freshness
<1>4. CASE b = a
  <2>1. served'[b] = [entry |-> entry, at |-> clock, confirmed |-> TRUE]
    BY <1>1, <1>4
  <2>2. served'[b].entry = entry /\ served'[b].at = clock
    BY <2>1
  <2>3. QED
    BY <1>2, <1>4, <2>2
<1>5. CASE b # a
  <2>1. served'[b] = served[b]
    BY <1>1, <1>5
  <2>2. QED
    BY <1>3, <2>1 DEF RecentInv, AnswersAreRecent
<1>6. QED
  BY <1>4, <1>5

LEMMA GetFreshIsRecent ==
    ASSUME RecentInv, NEW a \in Agents, GetFresh(a)
    PROVE  RecentInv'
<1>1. /\ CacheInv' /\ LookUp(a) \in Entry /\ LookUp(a) = stored[a]
  BY GetFreshKeeps DEF RecentInv
<1>2. /\ UNCHANGED <<revisions, clock, stored, call>>
      /\ served' = [served EXCEPT ![a] = [entry |-> stored[a], at |-> clock, confirmed |-> TRUE]]
      /\ clock <= stored[a].verifiedAt + Freshness(stored[a])
  BY <1>1 DEF GetFresh, Serve, IsFresh
<1>3. RegistryType /\ clock \in Nat /\ clock' \in Nat /\ clock <= clock'
  BY <1>2 DEF RecentInv, CacheInv, RegistryType
<1>4. EntryIsRecent(a, stored[a]) /\ stored[a] # NoEntry
  BY <1>1, NoEntryAssumption DEF RecentInv, StoredIsRecent
<1>5. /\ stored[a].verifiedAt \in Nat /\ Freshness(stored[a]) \in Nat /\ MaxLatency \in Nat
  BY <1>1, FreshnessType, CacheAssumption DEF Entry
<1>6. /\ stored[a].rev \in 1 .. Len(revisions[a]) /\ stored[a].rev \in 0 .. Len(revisions[a])
      /\ CurrentUntil(a, stored[a].rev, MaxLatency, stored[a].verifiedAt)
  BY <1>4 DEF EntryIsRecent
<1>7. CurrentUntil(a, stored[a].rev, Freshness(stored[a]) + MaxLatency, clock)
  BY <1>2, <1>3, <1>5, <1>6, LaterIsCurrent
<1>8. AnswersAreRecent'
  <2>1. stored[a] \in Entry
    BY <1>1
  <2>2. QED
    BY <1>2, <1>6, <1>7, <2>1, AnswerIsRecent
<1>9. StoredIsRecent' /\ RepliesAreRecent'
  BY <1>2, <1>3, RecentStands
<1>10. QED
  BY <1>1, <1>8, <1>9 DEF RecentInv

LEMMA StartIsRecent ==
    ASSUME RecentInv, NEW c \in Calls, NEW a \in Agents,
           RefreshInBackground(c, a) \/ GetStale(c, a)
    PROVE  RecentInv'
<1>1. CacheInv'
  BY StartsKeep DEF RecentInv
<1>2. UNCHANGED <<revisions, clock, stored, served>> /\ \E by, held : Start(c, by, a, held)
  BY DEF RefreshInBackground, GetStale
<1>3. clock \in Nat /\ clock' \in Nat /\ clock <= clock'
  BY <1>2 DEF RecentInv, CacheInv, RegistryType
<1>4. \A d \in Calls : call'[d].reply # NoReply => call'[d] = call[d]
  BY <1>2 DEF RecentInv, CacheInv, TypeOK, Start
<1>5. StoredIsRecent' /\ AnswersAreRecent' /\ RepliesAreRecent'
  BY <1>2, <1>3, <1>4, RecentStands
<1>6. QED
  BY <1>1, <1>5 DEF RecentInv

\* An endpoint that is not behind answers with the row of the table.
LEMMA ReadIsRecent ==
    ASSUME RecentInv, ~StaleNodes,
           NEW c \in Calls, NEW rev \in 0 .. MaxRevisions, EndpointReads(c, rev)
    PROVE  RecentInv'
<1>1. CacheInv'
  BY ReadKeeps DEF RecentInv
<1>2. /\ UNCHANGED <<revisions, clock, stored, served>> /\ call[c] # Idle
      /\ rev = Len(revisions[call[c].agent]) /\ call' = [call EXCEPT ![c].reply = rev]
  BY DEF EndpointReads
<1>3. clock \in Nat /\ clock' \in Nat /\ clock <= clock'
  BY <1>2 DEF RecentInv, CacheInv, RegistryType
<1>4. StoredIsRecent' /\ AnswersAreRecent'
  BY <1>2, <1>3, RecentStands
<1>5. call \in [Calls -> CallType \cup {Idle}] /\ call[c] \in CallType
  BY <1>2 DEF RecentInv, CacheInv, TypeOK
<1>6. /\ call'[c] = [call[c] EXCEPT !.reply = rev]
      /\ \A d \in Calls : d # c => call'[d] = call[d]
  BY <1>2, <1>5
<1>7. call'[c].agent = call[c].agent /\ call'[c].reply = rev
  <2>1. \A k \in CallType : /\ [k EXCEPT !.reply = rev].agent = k.agent
                            /\ [k EXCEPT !.reply = rev].reply = rev
    BY DEF CallType
  <2>2. QED
    BY <1>5, <1>6, <2>1
<1>8. RepliesAreRecent'
  <2>1. SUFFICES ASSUME NEW d \in Calls, call'[d] # Idle, call'[d].reply # NoReply
                 PROVE  CurrentUntil(call'[d].agent, call'[d].reply, 0, call'[d].since)
    BY <1>2 DEF RepliesAreRecent, CurrentUntil
  <2>2. CASE d = c
    BY <1>2, <1>7, <2>2 DEF CurrentUntil
  <2>3. CASE d # c
    BY <1>6, <2>1, <2>3 DEF RecentInv, RepliesAreRecent
  <2>4. QED
    BY <2>2, <2>3
<1>9. QED
  BY <1>1, <1>4, <1>8 DEF RecentInv

\* A row that is accepted was the row of the table when the refresh started.
LEMMA SuccessIsRecent ==
    ASSUME RecentInv, NEW c \in Calls, RefreshSucceeds(c)
    PROVE  RecentInv'
<1> DEFINE a == call[c].agent
           rev == call[c].reply
           entry == [row |-> RowRead(c), rev |-> rev, verifiedAt |-> clock]
<1>1. /\ call[c] # Idle /\ Accepts(c)
      /\ stored' = [stored EXCEPT ![a] = entry]
      /\ call' = [call EXCEPT ![c] = Idle]
      /\ UNCHANGED <<revisions, clock>>
      /\ \/ served' = [served EXCEPT ![a] = [entry |-> entry, at |-> clock, confirmed |-> TRUE]]
         \/ served' = served
  BY DEF RefreshSucceeds, Serve
<1>2. CacheInv /\ CacheInv'
  BY SuccessKeeps DEF RecentInv
<1>3. /\ call[c] \in CallType /\ a \in Agents
      /\ rev \in 1 .. Len(revisions[a]) /\ rev \in Nat /\ RowRead(c) \in PolicyRow
  BY <1>1, <1>2, AcceptedRow
<1>4. RegistryType /\ clock \in Nat /\ clock' \in Nat /\ clock <= clock'
  BY <1>1, <1>2 DEF CacheInv, RegistryType
<1>5. entry \in Entry /\ entry.rev = rev /\ entry.verifiedAt = clock
  BY <1>3, <1>4 DEF Entry
<1>6. /\ call[c].since \in Nat /\ clock <= call[c].since + MaxLatency /\ rev # NoReply
      /\ MaxLatency \in Nat
  BY <1>1, <1>2, <1>3, CacheAssumption DEF CallType, CacheInv, CallsAreTimely, Accepts
<1>7. CurrentUntil(a, rev, 0, call[c].since)
  BY <1>1, <1>6 DEF RecentInv, RepliesAreRecent
<1>8. rev \in 0 .. Len(revisions[a])
  BY <1>3
<1> HIDE DEF a, rev, entry
<1>9. CurrentUntil(a, rev, MaxLatency, clock)
  <2>1. CurrentUntil(a, rev, MaxLatency + 0, clock)
    BY <1>3, <1>4, <1>6, <1>7, <1>8, LaterIsCurrent
  <2>2. QED
    BY <1>6, <2>1
<1>10. /\ Freshness(entry) \in Nat
       /\ CurrentUntil(a, rev, Freshness(entry) + MaxLatency, clock)
  <2>1. Freshness(entry) \in Nat /\ clock <= clock + Freshness(entry)
    BY <1>4, FreshnessType
  <2>2. QED
    BY <1>3, <1>4, <1>6, <1>8, <1>9, <2>1, LaterIsCurrent
<1>11. StoredIsRecent'
  <2>1. SUFFICES ASSUME NEW b \in Agents, stored'[b] # NoEntry
                 PROVE  EntryIsRecent(b, stored'[b])
    BY <1>1 DEF StoredIsRecent, EntryIsRecent, CurrentUntil
  <2>2. stored \in [Agents -> Entry \cup {NoEntry}]
    BY <1>2 DEF CacheInv, TypeOK
  <2>3. CASE b = a
    <3>1. stored'[b] = entry
      BY <1>1, <1>3, <2>2, <2>3
    <3>2. QED
      BY <1>3, <1>4, <1>5, <1>9, <2>3, <3>1 DEF EntryIsRecent
  <2>4. CASE b # a
    BY <1>1, <2>1, <2>2, <2>4 DEF RecentInv, StoredIsRecent
  <2>5. QED
    BY <2>3, <2>4
<1>12. AnswersAreRecent'
  <2>1. CASE served' = served
    BY <1>1, <1>4, <2>1, RecentStands
  <2>2. CASE served' = [served EXCEPT ![a] = [entry |-> entry, at |-> clock, confirmed |-> TRUE]]
    BY <1>1, <1>3, <1>5, <1>10, <2>2, AnswerIsRecent
  <2>3. QED
    BY <1>1, <2>1, <2>2
<1>13. RepliesAreRecent'
  <2>1. \A d \in Calls : call'[d] # Idle => call'[d] = call[d]
    BY <1>1, <1>2 DEF CacheInv, TypeOK
  <2>2. QED
    BY <1>1, <1>4, <2>1, RecentStands
<1>14. QED
  BY <1>2, <1>11, <1>12, <1>13 DEF RecentInv

\* A failed refresh hands out nothing that counts as confirmed.
LEMMA FailureIsRecent ==
    ASSUME RecentInv, NEW c \in Calls, RefreshFails(c)
    PROVE  RecentInv'
<1>1. CacheInv /\ CacheInv'
  BY FailureKeeps DEF RecentInv
<1>2. /\ call' = [call EXCEPT ![c] = Idle] /\ UNCHANGED <<revisions, clock, stored>>
      /\ \/ served' = [served EXCEPT ![call[c].agent] =
                         [entry |-> call[c].held, at |-> clock, confirmed |-> FALSE]]
         \/ served' = served
  BY DEF RefreshFails, Serve
<1>3. clock \in Nat /\ clock' \in Nat /\ clock <= clock'
  BY <1>1, <1>2 DEF CacheInv, RegistryType
<1>4. \A d \in Calls : call'[d] # Idle => call'[d] = call[d]
  BY <1>1, <1>2 DEF CacheInv, TypeOK
<1>5. StoredIsRecent' /\ RepliesAreRecent'
  BY <1>2, <1>3, <1>4, RecentStands
<1>6. \A b \in Agents : (served'[b] # NoEntry /\ served'[b].confirmed) => served'[b] = served[b]
  <2>1. served \in [Agents -> [entry : Entry, at : Nat, confirmed : BOOLEAN] \cup {NoEntry}]
    BY <1>1 DEF CacheInv, TypeOK
  <2>2. QED
    BY <1>2, <2>1
<1>7. AnswersAreRecent'
  BY <1>2, <1>6 DEF RecentInv, AnswersAreRecent, CurrentUntil, Freshness
<1>8. QED
  BY <1>1, <1>5, <1>7 DEF RecentInv

\* A row the contract writes now overtakes an entry now at the earliest.
LEMMA ContractIsRecent == RecentInv /\ ContractStep => RecentInv'
<1> SUFFICES ASSUME RecentInv, ContractStep PROVE RecentInv'
  OBVIOUS
<1>1. CacheInv /\ CacheInv'
  BY ContractKeepsCache DEF RecentInv
<1>2. RegistryNext /\ UNCHANGED <<clock, stored, watermark, memory, call, served>>
  BY DEF ContractStep, cacheVars
<1>3. RegistryType /\ clock \in Nat /\ MaxLatency \in Nat
  BY <1>1, CacheAssumption DEF CacheInv, RegistryType
<1>4. PICK agent \in Agents, row \in PolicyRow : Write(agent, row) /\ Follows(agent, row)
  BY <1>2, <1>3, ContractWrites
<1>5. ASSUME NEW a \in Agents, NEW rev \in 0 .. Len(revisions[a]), NEW d \in Nat, NEW t \in Nat,
             t <= clock, CurrentUntil(a, rev, d, t)
      PROVE  /\ rev = Len(revisions'[a]) \/ revisions'[a][rev + 1].at + d >= t
             /\ rev \in 0 .. Len(revisions'[a])
  BY <1>3, <1>4, <1>5, WriteKeepsCurrent DEF CurrentUntil
<1>6. StoredIsRecent'
  <2>1. SUFFICES ASSUME NEW a \in Agents, stored[a] # NoEntry
                 PROVE  EntryIsRecent(a, stored[a])'
    BY <1>2 DEF StoredIsRecent, EntryIsRecent, CurrentUntil
  <2>2. EntryIsRecent(a, stored[a]) /\ stored[a].verifiedAt \in Nat /\ stored[a].rev \in Nat
    BY <1>1, <2>1 DEF RecentInv, StoredIsRecent, CacheInv, TypeOK, Entry
  <2>3. /\ stored[a].rev \in 1 .. Len(revisions[a]) /\ stored[a].rev \in 0 .. Len(revisions[a])
        /\ stored[a].verifiedAt <= clock
        /\ CurrentUntil(a, stored[a].rev, MaxLatency, stored[a].verifiedAt)
    BY <2>2 DEF EntryIsRecent
  <2>4. /\ stored[a].rev = Len(revisions'[a])
           \/ revisions'[a][stored[a].rev + 1].at + MaxLatency >= stored[a].verifiedAt
        /\ stored[a].rev \in 0 .. Len(revisions'[a])
    BY <1>3, <1>5, <2>2, <2>3
  <2>5. QED
    BY <1>2, <2>2, <2>3, <2>4 DEF EntryIsRecent, CurrentUntil
<1>7. AnswersAreRecent'
  <2>1. SUFFICES ASSUME NEW a \in Agents, served[a] # NoEntry, served[a].confirmed
                 PROVE  /\ served[a].entry.rev \in 1 .. Len(revisions'[a])
                        /\ served[a].at <= clock
                        /\ \/ served[a].entry.rev = Len(revisions'[a])
                           \/ revisions'[a][served[a].entry.rev + 1].at
                                + (Freshness(served[a].entry) + MaxLatency) >= served[a].at
    BY <1>2 DEF AnswersAreRecent, CurrentUntil, Freshness
  <2>2. /\ served[a].at \in Nat /\ served[a].entry.rev \in Nat
        /\ Freshness(served[a].entry) + MaxLatency \in Nat
    <3>1. served[a] \in [entry : Entry, at : Nat, confirmed : BOOLEAN]
      BY <1>1, <2>1 DEF CacheInv, TypeOK
    <3>2. Freshness(served[a].entry) \in Nat
      BY FreshnessType
    <3>3. QED
      BY <1>3, <3>1, <3>2 DEF Entry
  <2>3. /\ served[a].entry.rev \in 1 .. Len(revisions[a])
        /\ served[a].entry.rev \in 0 .. Len(revisions[a])
        /\ served[a].at <= clock
        /\ CurrentUntil(a, served[a].entry.rev, Freshness(served[a].entry) + MaxLatency,
                        served[a].at)
    BY <2>1 DEF RecentInv, AnswersAreRecent
  <2>4. QED
    BY <1>5, <2>2, <2>3
<1>8. RepliesAreRecent'
  <2>1. SUFFICES ASSUME NEW c \in Calls, call[c] # Idle, call[c].reply # NoReply
                 PROVE  CurrentUntil(call[c].agent, call[c].reply, 0, call[c].since)'
    BY <1>2 DEF RepliesAreRecent, CurrentUntil
  <2>2. /\ call[c].agent \in Agents /\ call[c].since \in Nat /\ call[c].since <= clock
        /\ call[c].reply \in 0 .. Len(revisions[call[c].agent])
        /\ CurrentUntil(call[c].agent, call[c].reply, 0, call[c].since)
    BY <1>1, <2>1 DEF RecentInv, RepliesAreRecent, CacheInv, CallsAreTimely, TypeOK, CallType
  <2>3. QED
    BY <1>2, <1>5, <2>2 DEF CurrentUntil
<1>9. QED
  BY <1>1, <1>6, <1>7, <1>8 DEF RecentInv

LEMMA RecentStep == ~StaleNodes /\ RecentInv /\ [Next]_vars => RecentInv'
<1> SUFFICES ASSUME ~StaleNodes, RecentInv, [Next]_vars PROVE RecentInv'
  OBVIOUS
<1>1. clock \in Nat /\ CacheInv'
  BY CacheStep DEF RecentInv, CacheInv, RegistryType
<1>2. clock' \in Nat
  BY <1>1 DEF CacheInv, RegistryType
<1>3. CASE Restart \/ Tick \/ UNCHANGED vars
  <2>1. UNCHANGED <<revisions, stored, served>> /\ clock <= clock'
    BY <1>1, <1>3 DEF Restart, Tick, cacheVars, vars
  <2>2. \A c \in Calls : call'[c] # Idle => call'[c] = call[c]
    BY <1>3 DEF Restart, Tick, cacheVars, vars
  <2>3. StoredIsRecent' /\ AnswersAreRecent' /\ RepliesAreRecent'
    BY <1>2, <2>1, <2>2, RecentStands
  <2>4. QED
    BY <1>1, <2>3 DEF RecentInv
<1>4. CASE \E a \in Agents : GetFresh(a)
  BY <1>4, GetFreshIsRecent
<1>5. CASE \E c \in Calls, a \in Agents : RefreshInBackground(c, a) \/ GetStale(c, a)
  BY <1>5, StartIsRecent
<1>6. CASE \E c \in Calls, rev \in 0 .. MaxRevisions : EndpointReads(c, rev)
  BY <1>6, ReadIsRecent
<1>7. CASE \E c \in Calls : RefreshSucceeds(c) \/ RefreshFails(c)
  BY <1>7, SuccessIsRecent, FailureIsRecent
<1>8. CASE ContractStep
  BY <1>8, ContractIsRecent
<1>9. QED
  BY <1>3, <1>4, <1>5, <1>6, <1>7, <1>8 DEF Next

\* A confirmed row given to a decision was the row of the table at most its
\* freshness and the time of one read ago (policyCache.ts, isFresh), when the
\* endpoints answer with the current table.
THEOREM AnswersAreFresh ==
    ASSUME ~StaleNodes
    PROVE  Spec => []ServedIsRecent
<1>1. Init => RecentInv
  BY CacheStart
     DEF Init, RecentInv, RepliesAreRecent, StoredIsRecent, AnswersAreRecent
<1>2. RecentInv /\ [Next]_vars => RecentInv'
  BY RecentStep
<1>3. RecentInv => ServedIsRecent
  <2> SUFFICES ASSUME RecentInv, NEW a \in Agents, served[a] # NoEntry, served[a].confirmed
               PROVE  \/ served[a].entry.rev = Len(revisions[a])
                      \/ revisions[a][served[a].entry.rev + 1].at
                           + Freshness(served[a].entry) + MaxLatency >= served[a].at
    BY DEF ServedIsRecent
  <2>1. /\ served[a].entry.rev \in 1 .. Len(revisions[a])
        /\ CurrentUntil(a, served[a].entry.rev, Freshness(served[a].entry) + MaxLatency,
                        served[a].at)
    BY DEF RecentInv, AnswersAreRecent
  <2>2. RegistryType /\ served[a].entry.rev \in 0 .. Len(revisions[a])
    BY <2>1 DEF RecentInv, CacheInv
  <2>3. \/ served[a].entry.rev = Len(revisions[a])
        \/ revisions[a][served[a].entry.rev + 1].at \in Nat
    BY <2>2, RevisionTimes
  <2>4. Freshness(served[a].entry) \in Nat /\ MaxLatency \in Nat
    BY FreshnessType, CacheAssumption
  <2>5. QED
    BY <2>1, <2>3, <2>4 DEF CurrentUntil
<1>4. QED
  BY <1>1, <1>2, <1>3, PTL DEF Spec
=============================================================================
