------------------------------ MODULE AgentKey ------------------------------
(***************************************************************************)
(* The life of an agent's key: onboarding leaves it in a container, the    *)
(* daemon unlocks what it finds at the container's path                    *)
(* (src/cli/daemonRunner.ts, src/keystore/encryptedFileBackend.ts) and     *)
(* signs with it only while the chain says that the agent's permission is  *)
(* that key's alone (src/daemon/authorityCache.ts).                        *)
(***************************************************************************)
EXTENDS Onboarding, AuthorityCache

CONSTANTS
    MaxAttempts,    \* MAX_PASSPHRASE_ATTEMPTS
    HeadLag         \* how old the state of a node may be (maxHeadLagMs)

ASSUME AgentKeyAssumption == MaxAttempts \in Nat \ {0} /\ HeadLag \in Nat

VARIABLES
    daemon,         \* [stage, attempt, key]: "off", "unlocking" or "up"
    replacedAt      \* when the agent's active permission was given another
                    \* authority, or Never

Never == MaxClock + 1
Off == [stage |-> "off", attempt |-> 0, key |-> Nobody]

keyVars == <<vars, cacheVars, daemon, replacedAt>>

KeyInit == Init /\ CacheInit /\ daemon = Off /\ replacedAt = Never

-----------------------------------------------------------------------------
(* Starting and stopping.  The temporary container has another suffix and  *)
(* is not discovered.                                                      *)

\* (bound) The daemon is started when no session is at work and at most one
\* kind of fault was met.
Start ==
    /\ daemon = Off /\ final # Nobody /\ Cardinality(faults) <= 1
    /\ \A s \in Sessions : stage[s] \in {"done", "failed", "dead"}
    /\ daemon' = [Off EXCEPT !.stage = "unlocking", !.attempt = 1]
    /\ UNCHANGED <<vars, cacheVars, replacedAt>>

WrongPassphrase ==
    /\ daemon.stage = "unlocking"
    /\ daemon' = IF daemon.attempt < MaxAttempts
                 THEN [daemon EXCEPT !.attempt = @ + 1]
                 ELSE Off
    /\ UNCHANGED <<vars, cacheVars, replacedAt>>

Unlock ==
    /\ daemon.stage = "unlocking"
    /\ daemon' = [stage |-> "up", attempt |-> 0, key |-> final]
    /\ UNCHANGED <<vars, cacheVars, replacedAt>>

\* Another chain's container, a key that is not the one declared, a duplicate
\* or a failing file ends the start and wipes what was unlocked.
StartFails ==
    /\ daemon.stage = "unlocking"
    /\ daemon' = Off
    /\ UNCHANGED <<vars, cacheVars, replacedAt>>

\* The secrets are wiped; the cache is the process's, a later start finds it
\* empty.
Stop ==
    /\ daemon.stage = "up"
    /\ daemon' = Off
    /\ entry' = NoEntry /\ check' = [c \in Checks |-> NoCheck]
    /\ UNCHANGED <<vars, clock, replacedAt>>

-----------------------------------------------------------------------------
(* The chain's authority over the agent, and the checks of it.             *)

\* The authority, as the owner, gives active to another key.
KeyReplaced ==
    /\ AccountExists /\ replacedAt = Never
    /\ account' = [account EXCEPT !.active = Alone("foreign")]
    /\ replacedAt' = clock
    /\ Fault("replace")
    /\ UNCHANGED <<stage, temp, final, presented, authorityKey, page, row, cacheVars, daemon>>

\* resolveXprKeyAuthority()
Authorizes(authority) ==
    /\ row.permission = "active"
    /\ AuthorizesExclusively(authority, daemon.key)

\* The lookup of check c first asks the node for its head, at the earliest
\* when the check began, and refuses one older than HeadLag.  A node does not
\* go back in time; the fail-over to another one between the two requests
\* (docs/endpoint-trust.md) is left out.
Resolutions(c) ==
    {Authorizes(account.active), FALSE}
      \cup (IF replacedAt # Never /\ check[c].at - replacedAt <= HeadLag
            THEN {Authorizes(account.request.active)} ELSE {})

\* A decision gets to the check when it has the agent's policy row.
Check(c) == daemon.stage = "up" /\ RowExists /\ (CheckHit(c) \/ CheckMiss(c))
ChainAnswers(c) == check[c].stage = "asked" /\ \E authorized \in Resolutions(c) : Resolve(c, authorized)

KeyNext ==
    \/ Next /\ UNCHANGED <<cacheVars, daemon, replacedAt>>
    \/ Start \/ WrongPassphrase \/ Unlock \/ StartFails \/ Stop
    \/ KeyReplaced
    \/ /\ \/ \E c \in Checks : Check(c) \/ ChainAnswers(c) \/ Settle(c)
          \/ daemon.stage = "up" /\ Tick
       /\ UNCHANGED <<vars, daemon, replacedAt>>

KeySpec == KeyInit /\ [][KeyNext]_keyVars

-----------------------------------------------------------------------------
KeyTypeOK ==
    /\ TypeOK /\ CacheTypeOK
    /\ daemon.stage \in {"off", "unlocking", "up"}
    /\ daemon.attempt \in 0..MaxAttempts
    /\ daemon.stage = "up" => daemon.key = final
    /\ replacedAt \in 0..Never

\* The daemon is told that it may sign only with a key which the agent's
\* account was created with, for it alone, and less than FreshnessMs plus
\* the age of a node's state after the key was replaced (authorityCache.ts:
\* "that TTL is the rotation-detection bound"): whatever key is in the
\* container, however checks overlap and in whatever order they settle.
AuthorizedIsRecent ==
    \A c \in Checks :
        check[c].stage = "answered" /\ check[c].authorized =>
            /\ account.request.active = Alone(daemon.key)
            /\ replacedAt = Never \/ check[c].at < replacedAt + FreshnessMs + HeadLag
=============================================================================
