# SignBox: specification and proofs

SignBox is a daemon that keeps the signing keys of software agents. An agent
asks it, over a Unix socket, to sign (and perhaps submit) a blockchain
transaction; the daemon signs only what the agent's on-chain policy allows,
within quotas it keeps itself. This directory holds TLA+ models of the parts
of SignBox whose correctness depends on order, failure and time, of the clients
that talk to it and of the editor its policies are written with, the
configurations that model-check them with TLC, and theorems about the quota
journal, the daemon, its audit log and its clients, its policy cache and its
policy engine, an agent's key from its onboarding to its use, and the editor
with its push dialog, proved with TLAPS.

All paths below are relative to the root of the repository.

## 1. Inventory

| Component | State it keeps | Operations | Hard behaviour | What makes it correct |
|---|---|---|---|---|
| Quota journal, `src/daemon/quotaJournal.ts` | SQLite table `quota_events` | `reserve`, `commit`, `release` | stale and out-of-order instants, partial refusal, crash inside and between calls, pruning | no sliding window exceeds a limit; all demands of a transaction or none; a settlement is final; a digest is charged once |
| Nonce cache, `src/daemon/nonceCache.ts` | nonces and expiries per agent, in memory | `register` | the cache at its bound, expiry boundary, restart | no line passes the gate twice |
| Signing pipeline, `src/daemon/server.ts` | agents' runtime (token, kill-switch), running decisions | `handleRequest`, standalone broadcast, admin commands | four to five awaits per decision, any number of decisions at once, lost replies, restarts | whatever can land is charged; every line answered; no quota leaks |
| Broadcaster, `src/chains/xpr/broadcaster.ts` | none | `broadcast` | lost replies, duplicates | the outcome never says "rejected" of a transaction that landed |
| Policy cache, `src/daemon/policyCache.ts` | SQLite row per agent with a watermark, map in memory | `refresh`, `get`, timer | overlapping reads answered out of order, restart, old answers | versions never go down; freshness bounds staleness; it converges |
| Authority cache, `src/daemon/authorityCache.ts` | last verdict per (account, permission, key) | `check` | overlapping look-ups, rotation | a rotated key is refused within the lifetime of a verdict |
| Audit log, `src/daemon/auditLog.ts` | SQLite table, hash-chained | `append`, `verify` | edits of the file between runs | `verify` finds every insertion, deletion or edit |
| Policy contract, `contract/assembly/signbox.contract.ts` | one row per agent | `createpolicy`, `setpolicy`, `disable`, `enable`, `setperm`, `setauthority` | authorization, monotone versions | a version names one document, forever |
| Onboarding, `src/onboarding/*.ts`, `web/src/views/OnboardingView.tsx` | a temporary key container, then a final one | `runOnboarding` | the authority signs late, changed or never; kills; disk errors; two sessions at one path | the active key is the one on the chain; the key is not lost |
| Policy engine, `src/core/policy/engine.ts` | none | `evaluatePolicy`, `collectProviderQueries` | priorities of rules, totals over a transaction | deny by default, deny wins, totals within caps |
| Policy schema and canonical form, `src/core/policy/*.ts`, `src/core/canonical/*.ts` | none | parsing, JCS, hashing | | one document, one hash |
| Keystore, `src/keystore/*.ts` | encrypted files; unlocked keys in locked memory | `unlock`, `signDigest`, `wipe`, create, promote, destroy | retries, failure half way | no key without its passphrase, none left after a failed start |
| Chain adapter, `src/chains/xpr/{adapter,decode,dialect,signatureProvider}.ts` | per-key API objects | decode, sign | | what is signed is what was validated |
| Verified RPC, `src/chains/xpr/rpc.ts` | none | reads behind `get_info` | wrong chain, stalled node | no read of another or a stopped chain is trusted |
| Read path, `src/chains/xpr/relay.ts`, `src/daemon/protocol.ts` | none | `whoami`, `query` | | never touches quota, nonce or signer |
| Daemon runner, `src/cli/daemonRunner.ts` | the assembly of all the above | start, shutdown | failure half way through a start | a failed start leaves no key |
| Socket client, command line, MCP server, `src/cli/{client,index}.ts`, `src/mcp/server.ts` | an open connection with a timer | `signViaDaemon`, `broadcastViaDaemon`, `readViaDaemon` | the answer that comes too late, the daemon that dies, the token of an earlier life | a client is told nothing false of its transaction |
| Example agent, `examples/telegram-agent/src/*.ts` | the rounds of a turn | `respond`, `runTool`, `submit` | a model that calls tools without end, time-outs in three layers | every turn ends; the model is told what happened |
| Policy editor, `web/src/editor/*.ts*` | the graph | the edits of the reducer, `buildScaffold`, `compilePolicy`, `decompilePolicy`, `evaluateGraph`, `queryFor` | two translations that must be inverse, two interpreters that must agree | a graph stays well wired; nothing is lost on reopening; the daemon accepts what is pushed; what a test refuses is refused |
| Editor session and push dialog, `web/src/views/EditorView.tsx`, `web/src/editor/PushModal.tsx` | the unsaved mark, the dialog, a push under way | open, edit, leave, commit, push, close | wallet answers that come late or never, other devices | a push replaces no row its dialog did not show; leaving unasked loses nothing |
| Wallet session, other pages of the companion | the SDK's session | presentation | | |

How they interact. A line on the socket starts a decision in the signing
pipeline. The decision registers its nonce, asks the policy cache (which may
read the contract through an RPC endpoint), the authority cache (likewise)
and the evidence providers, evaluates the policy, reserves quota, calls the
signer, perhaps pushes through the broadcaster, settles the quota, answers,
and appends to the audit log. Everything in the daemon runs in one event loop: code between
two awaits is atomic, anything may happen during an await. The quota journal,
the policy cache and the audit log share a SQLite file and survive a restart;
nonces, tokens, the kill-switch and the authority cache do not. Onboarding
runs in a process of its own before a daemon ever serves the agent, and shares
with it only the key container.

Clients reach the daemon over the socket alone: an agent through the command
line (the example agent runs it as a child process for every tool call) or
through the MCP server. A call is one line on one connection, with a timer. The
editor never talks to the daemon. It reads and writes the contract's table, and
its document reaches the daemon by way of the policy cache.

## 2. Modules

| Module | Models | Extends or instantiates |
|---|---|---|
| `QuotaLimits` | the limits of a rule, and what it means for charged actions to respect them in every window | |
| `QuotaLedger` | abstract specification: admit, keep, refund | |
| `QuotaJournal` | `quotaJournal.ts`, statement by statement | `QuotaLimits`; implements `QuotaLedger` |
| `QuotaJournalProofs` | lemmas about windows and sums, theorems about the journal | `QuotaJournal`, TLAPS |
| `NonceCache` | `nonceCache.ts` as operators on one agent's map | |
| `SigningDaemon` | `server.ts`: decisions, admin commands, restarts; the chain and clients around it | `NonceCache`; implements `QuotaLedger` |
| `PolicyRegistry` | the contract, with the history of its table | |
| `PolicyCache` | `policyCache.ts` over the contract | `PolicyRegistry` |
| `PolicyCacheProofs` | theorems about the contract and the cache | `PolicyCache`, TLAPS |
| `PolicyEngine` | `core/policy/engine.ts` and what it takes from `chains/xpr/dialect.ts`, as operators | |
| `PolicySchema` | which documents `core/policy/schema.ts` and `onchain.ts` accept | `PolicyEngine` |
| `PolicyDecision` | the middle of `runDecision`: collect the queries, read, evaluate | `PolicySchema` |
| `ListFacts` | lemmas: least elements, induction over naturals, lists; the loops of the engine, the rule that governs, what an "ALLOW" comes to | `PolicyEngine`, TLAPS |
| `PolicyDecisionProofs` | lemmas about the engine's operators, theorems about a decision | `PolicyDecision`, `ListFacts` |
| `OnboardingRequest` | the request: how it is built (`onboardingActions.ts`), judged by the companion (`validate.ts`) and judged after landing (`verifyLanded`) | |
| `Onboarding` | `flow.ts`, the chain reads of `chains/xpr/onboarding.ts`, the file operations of `encryptedFile.ts`, the companion's `OnboardingView.tsx`, the authority's wallet | `OnboardingRequest` |
| `AuthorityCache` | `check()` of `authorityCache.ts`, whatever the chain answers | |
| `AgentKey` | the daemon's start, unlocking and stop around both; the chain's answers | `Onboarding`, `AuthorityCache` |
| `AgentKeyProofs` | lemmas: what the steps of onboarding keep; theorems about an agent's key | `AgentKey`, TLAPS |
| `SigningDaemonProofs` | theorems about the daemon | `SigningDaemon`, TLAPS |
| `AuditLog` | `auditLog.ts` as operators on the sequence of rows, and changes to the file | |
| `AgentTurns` | socket client, MCP server and example agent around the daemon; the log its decisions go to | `SigningDaemon`, `AuditLog` |
| `AgentTurnsProofs` | theorems about the clients and the log | `AgentTurns`, `SigningDaemonProofs` |
| `PolicyGraph` | `editor/store.tsx`, `nodeSpecs.ts`, `scaffold.ts`: the graph and its edits | |
| `PolicyCompile` | `compile.ts`, `decompile.ts` | `PolicySchema`, `PolicyGraph` |
| `PolicySimulator` | `eval.ts`, `lookups.ts`, `testTx.ts`; a document as the daemon reads it | `PolicyCompile` |
| `PolicyAuthoring` | a graph under edits, against document, simulator and engine | `PolicySimulator` |
| `PolicyEditing` | `EditorView.tsx`, `PushModal.tsx`, `chain/rpc.ts`, other devices, over the contract | `PolicyAuthoring`, `PolicyRegistry` |
| `PolicyEditingProofs` | theorems about graphs, what is compiled, looked up and tested, the session and the dialog | `PolicyEditing`, `ListFacts` |

Each component has an `MC` module with the constants of its small instances.
Definitions marked `(mutant)` are deliberate errors: substituting one for the
definition after it must break the property it is listed with in
`PROJECT.json`.

### Quota journal

`rows` is the table. `fate` and `digestOf` are its columns `state` and
`digest`, kept per reservation because every UPDATE names a `reservation_id`.
`tx` is the SQLite transaction of a running `reserve()`: the working copy of
the table, the next demand, the instant passed in. `holding` are reservations
some live decision still has to settle. `pruned` is a history variable.

`reserve()` is `BeginReserve` (id, BEGIN, pruning), `InsertDemand` per demand
that passes all checks, `RefuseDemand` (the thrown `ReserveRefusal` rolls
back), `EndReserve` (COMMIT). Although the event loop cannot interleave
anything with it, the process can die inside it, and the statement-level model
makes atomicity a property (`AllOrNothing`) instead of an assumption.
`Commit` and `Release` are the two settlements; `Crash` forgets `tx` and
`holding`.

`nowMs` is the instant the decision read on arrival (`server.ts:662`) and
passes on after its awaits (`server.ts:785`), so it lies up to `MaxLag` in the
past and instants do not come in order. This is why pruning is subtle: a late
instant may prune rows that an earlier instant, passed afterwards, would still
have to count. `RetentionAssumption` (`DayMs + MaxLag <= RetentionMs`) is the
condition that makes it harmless; the code keeps two days, so it holds as long
as no decision takes more than a day.

`LimitsHold` says what the limits are for, independent of the queries: over all
charges not released, pruned ones included, every sliding window keeps within
the caps of its rule. Sums are counted in coins (`UnitsIn`), so that they are
cardinalities and can be reasoned about without recursion.

### Signing daemon

A request slot `q` holds one line from arrival to answer; its `stage` names
the await the decision is in. Each action is the code between two awaits:
`StartDecision` everything up to the policy look-up, `Decide` evaluation,
reservation and the call of the signer, `SignedForClient`, `SignedForSubmit`
and `BroadcastReturns` what follows. The quota journal appears by its
effects: `HasRoom`, `Commit`, `Release` restate what `QuotaJournal` guarantees,
with one window and a cap in transactions. `LandedWithinCap` counts what landed
by the account it moves, not by the line that asked for it: it needs the
identity gate, since an agent's line may name any transaction. Lines carry a token by the life of
the daemon it belongs to; clients may repeat any line any number of times.
The node may apply or refuse what is pushed at any later time, replies may be
lost, clients may push what they were handed. Reads (`whoami`, `query`)
pass a shorter gate, take no nonce and leave no audit entry. `Actor[tx]` is the
account whose authorization a transaction carries, and `checkLocalIdentity`
compares it with the agent whose line it is. `Restart` is a
kill or a stop at any point. With `"journal"` in `Faults`, a settlement may throw.

### Policy contract and policy cache

`revisions[a]` is the history of an agent's row; the last element is in the
table. `signers` is the set of accounts that authorized a transaction.
`call[c]` is a refresh under way; `EndpointReads` fixes what it will
return (an older revision if `StaleNodes`), `RefreshSucceeds` and
`RefreshFails` are the code after the await. `held` is what `get()` had in its
local variable when it started to wait. `served` records what `get()` last
answered and whether that was confirmed or came from the grace of the
non-strict mode.

One step of the model is two turns of the microtask queue in the code: after
`refresh()` returns, `get()` reads the map again, and another refresh may have
written it in between. That one was accepted as well, so its version is no
lower.

### Policy engine

The engine is pure, so it is a module of operators under the names of the
code. Every test returns a verdict: `"yes"`, `"no"`, or one of the two
exceptions the engine turns into refusals. `FirstOther` is the loop that
goes on until a test decides; nesting it gives the deny pass, action by action
and rule by rule, and so which of several possible refusals is the answer.
Field values are texts, strings of digits (units and decimals), integers,
structures or absent. What matters is kept: `notIn` fails on a field that is no
string, ordered comparison refuses other precisions, an embedded variable is
refused only if the list is read that far, `String()` of an array of one
element is that element. `Windows` are the limits the quota journal keeps: any of
them makes a demand for each action, and those of `PerRecipient` (the cooldown and
the count per recipient) need a recipient besides.

`PolicyDecision` adds what is not pure: the queries are collected in a pass of
their own, the reads come back one by one with a row, without one or not at
all, and the engine is called when all are back. A value that cannot be
compared ends the collection with an exception that only the decision's own
`catch` takes (`CollectFails`).

The policy is that of a row `verifyStoredPolicy` accepts. `PolicySchema` holds
every number of the JSON schema: the default must be "deny", lists have their
lengths, limits their minima and maxima, and of a string it asks how many
characters it has (`Chars`). What was to be an asset or a number and is none, a cap
of more than 64 characters included, is `Malformed`. `CapIsForTheSum` rests on it: caps and quotas are kept under the id of a rule, and with two rules of one
id a transaction can exceed the cap of one of them.

The properties compare the verdict with the verdicts on other inputs: with a
failed read succeeding, with one action of the batch alone, with the deny
rules moved to the front. That says what the engine may not depend on, and no
table of expected outcomes has to be trusted.

### Onboarding

A session is one run of `signbox agent init`; it stands for the key it
generates. All sessions use the same two paths, `temp` and `final`.
A request is what its actions would put on the chain (`OnboardingRequest`):
authority structures, the policy row, the list of actions, the network and
contract it names. `presented` are the requests shown. They are out of the
session's hands and can be signed at any time, by a wallet directly, changed in
one of their fields (`Changed`), or through the companion, which looks at the
request and the authority's key (`CompanionAsks`) and later has the
wallet sign what it looked at (`CompanionSigns`; `page` is what it holds
in between).

`faults` is the history of what went wrong: failing reads (which the code
takes for absence), failing disk, kills, requests that land after their session
gave up, a final path that is already taken, a `--permission` other than
`active`, an authority that rotates its key, edits the policy at once, or gives
the agent's permission to another key. At most `MaxFaults` kinds occur in one
history. Properties that hold only without some of them say so by this variable.

### The key in the daemon

`AgentKey` puts the daemon next to onboarding: `Start` finds the container,
`WrongPassphrase`, `Unlock` and `StartFails` are the outcomes of
`openKeystoreFile` and of the checks of a start, `Stop` wipes. While it is up,
checks of `AuthorityCache` overlap: `CheckHit`, `CheckMiss` (the instant is
taken before the look-up), `Resolve` (the node reads its state), `Settle` (the
result is stored, over whatever another check stored meanwhile). `Resolutions`
is what a node may answer: the present authority, none (a failed look-up), or
the replaced one, if its head was no older than `HeadLag` when it was asked
for it.

### Clients and the audit log

`AgentTurns` puts the clients around `SigningDaemon`. `calls[q]` is the client's
side of request slot `q`: who made it, the line, the answer the daemon wrote
(`reply`), and what its caller was told (`result`). `MakeCall` reads the token
file and draws nonce and window; `Connects` and `Resumes` are the daemon's steps
with the answer and the audit entry that go with them; `Collect` is the first
line of the answer in time, `GiveUp` everything that ends a call without it.
A daemon that dies leaves the call to its timer, a client that gives up leaves
the daemon at work. `ResultOf` is the chain of translations from the JSON to
the exit code and to what the tool tells the model.

A turn goes from a message (`Hear`) through rounds of a completion and its tool
calls (`CallTool`, `ToolReturns`, `NextRound`) to its reply. What the model says
is a free choice; what the code does with it is not.

`ToolResultIsTrue` relates the far ends: what a caller was told, and what the
node did. "error" is the answer that says nothing, and the only one a time-out
may give. It takes a journal that can be written: with a failing `commit()` a
landed transaction is reported as denied (section 5).

`AuditLog` keeps the digest of a row as the tuple of what is hashed, which is
what an injective hash does. `TamperEvident` tries every edit (with the row's
own digest made to fit), removal and insertion on every log the daemon writes.

### Policy editor

A graph is `nodes`, a function from ids to type, fields and height, and `wires`.
Each action of `PolicyGraph` is one action of the reducer; `Defaults`,
`Palette`, `Settings` and `Routes` are what the controls of the page can send.
Geometry is left out except the height, because `compilePolicy` orders rules by
it. `AddScaffold` builds the nodes and wires of a route from a test transaction.

`PolicyCompile` translates in both directions. A condition is a path, an operator
and its arguments, a rule what the document holds of it; `compilesQuietly` and
`decompilesQuietly` say whether warnings are shown. The walk over wires stops
after as many steps as there are nodes, the code at a node it is in: they differ
in graphs with cycles only. Limits are written as typed: a count is `None` when
nothing was typed, and a 0 or a word becomes 1 (`CountOf`); a cooldown is rounded to
milliseconds (`CooldownOf`); the default is copied, whatever it is. `slug` is any
function of effect, contract and action, since it turns every run of
other characters into a dash and cuts at 40: two routes may share an id. The number of
actions of a transaction is what `parseInt` makes of the field, or 1, on both
sides; a list is its items that are not blank, and no item has a comma.

`PolicySimulator` is the editor's interpreter. It stands next to `PolicyEngine`
and takes the same transactions and evidence, so that the two can be compared:
`Published` is the document as the engine's module writes it, conditions in the
order of the canonical form, and every value of the document with it. The editor
adds amounts up as doubles, the engine as integers: `Rounded` is the set of sums
that doubles order otherwise than numbers, any set at all, and `Over` answers for
these the opposite of `Exceeds`. A single amount is compared as it was typed: up to
`MaxUnits`, of some fifteen digits, a number is a double of its own.

`PolicyAuthoring` opens one of `Documents`, edits, and asks after every edit: does
it compile to something that reopens as itself (`RoundTrip`), that the daemon
accepts (`DaemonAccepts`), that refuses at least what the editor's test says is
refused (`TestedIsEnforced`), and does the editor look up the rows the daemon
will ask for (`LooksUpWhatIsAsked`)? Each property names the documents it is
about (`Shows`; `Typed`; `Plain`, `Readable`, `NoneIsZero`, `RoundedUp`). What lies
outside is in section 5: the conditions are the exact list of what the editor loses.
`Typed` says of each kind of node what the schema will hold against it, in terms of
what was typed; that nothing else the compiler does can be refused is the property.

`PolicyEditing` is the session: `page`, the row that was `loaded`, the `baseline`
the page compares with, the mark `dirty` as the last render showed it, the
dialog `modal` and the transaction `push`. `push.here` says that the editor it
was sent from is still on the page, `push.seen` its dialog. The mark is not
recomputed when a push is answered, as in the code: the new baseline is in a
reference and shows with the next render.

## 3. Runs

| Run | Shows | Instance |
|---|---|---|
| `Quota` | `LimitsHold`, `OneChargePerDigest`, `SettledForGood`, `AllOrNothing`, and that the journal implements the ledger | 3 reservations of up to 2 demands, a value rule with cooldown and a count rule, an hour of one instant and a day of two, lag 1, five instants: pruning happens, and a stale call can follow it |
| `DaemonCharges` | `LandableIsCharged`, `LandedWithinCap`, `NoReplay`, `LedgerImplemented` | 3 arrivals out of 5 lines (a payment signed, submitted under the same nonce, pushed under another, asked for by another agent; a read), a nonce cache of one entry, cap 1, two envelopes so that two signatures may or may not share a digest, a failing journal, four instants, one restart |
| `AgentTurns` | `ToolResultIsTrue`, `LogTellsTheSameStory`, `TamperEvident`, `EveryTurnEnds`, `EveryLineAnswered`, `ReservationsSettle` | 2 calls, by a turn of two tool calls at most and an MCP client, that sign, submit, push (also for another chain) and read, cap 1, failing audit writes, one restart, every time-out |
| `CacheRollback` | `VersionNamesPolicy`, `ServedNeverRollsBack` | 2 overlapping refreshes, endpoints that answer with any older row, restarts, two accounts, a document the daemon refuses, non-strict mode |
| `CacheFreshness` | `ServedIsRecent`, `CacheConverges` | 2 refreshes, financial and other policies, three instants, strict mode |
| `AgentKey` | `ActiveKeyIsOnChain`, `KeyKept`, `CompanionAgreesWithCli`, `AuthorizedIsRecent` | 2 sessions at one path, 12 changes of a request, every pair of nine faults, 2 overlapping checks, verdicts good for two instants, a lag of one, four instants |
| `PolicyDecide` | `FailedReadsOnlyRefuse`, `BatchIsItsParts`, `CapIsForTheSum`, `DenyWinsAnywhere`, `NothingLeftUnasked` | every policy of up to three of ten rules (each operator, effect, kind of limit and provider), rows that are refused, 17 transactions of up to three actions, every outcome of every read |
| `PolicyAuthoring` | `GraphOK`, `RoundTrip`, `DaemonAccepts`, `TestedIsEnforced`, `LooksUpWhatIsAsked` | 6 documents, two edits of any kind with five types of new nodes, a count of 0, a cooldown of two days, a default that allows and a blank value among what is typed, two contracts of one slug, 11 test transactions (0.1 + 0.2 against a cap of 0.3), 3 outcomes of a look-up; `MaxUnits` 1000 |
| `PolicyEditing` | `PushReplacesWhatWasRead`, `QuietLeaveLosesNothing` | 2 rows of one author, one edit, two writes to the table by this or another device, an heir a row may be handed to, every way out at every moment |
| `CacheDisable` | a violation, see section 5 | |
| `OnboardLate` | a violation | |
| `ProvidersNarrow` | a violation | |

Each component's type invariant is checked in the first of its runs. The
`TypeOK` of `SigningDaemon` includes the bound of the nonce cache, that of
`PolicyCache` the agreement of the stored row and the watermark, that of
`Onboarding` the exclusive use of the temporary container; `KeyTypeOK` is both
and that the daemon holds what is at the path. `GraphOK` is the type invariant of
the editor, and that every wire joins an output and an input, of nodes that
exist, whose types fit, one wire to an input that takes one.

Why the bounds suffice. Limits are broken by two concurrent reservations or by
one that misses pruned rows of another: that takes three reservations, of
which the pruning one may be the middle. A replay takes the original, a
filler that presses on the cache, and the copy. An out-of-order answer takes two
calls and two or three revisions. An onboarding key is endangered by another
session's clean-up or landing, or by two faults in a row. The daemon is started
when no session is at work and at most one kind of fault was met, since its
answers depend on the container and the account alone. An old verdict takes two
overlapping look-ups, the replacement of the key between them, and two instants
to run out. Rules interact in pairs (a deny rule with an allow rule, a
rule that fails with the one that takes over), and a third stands between
them. A call that is given up while the daemon goes on, and one whose outcome depends
on it, are two calls. An edit that breaks what an earlier one made takes two
edits: deleting a node that a wire was drawn to, setting a field of a rule just
added. A lost update takes one push and one other write. Clocks run as far as
the longest window, freshness or expiry plus one; in `AgentTurns` the clock
stands still, since windows are the business of `DaemonCharges`. Symmetry is used for reservations, request slots, calls,
checks and sessions, in runs of safety properties only.

Deadlock is checked except in the runs of onboarding, of the policy engine, of
the clients and of the editor, where sessions, the one decision, turns and
bounded edits end.

### Fairness

`AgentTurns!AllSpec` asks weak fairness of `Resumes(q)`: an await that
settled is resumed by the event loop of the daemon. That the awaits settle at
all is an assumption about the RPC client: evidence providers have their own timeout
(`providerResolver.ts`), the policy read, the authority read, the signer's
reads and the push have none of their own and rely on the connection to
answer or fail. It also asks weak fairness of `TurnGoesOn(t)`: the agent's
process continues a turn it began, the completion request answers or fails, and
the wait for a tool ends by the timer of the socket or of the child process
(`GiveUp`). `EveryTurnEnds` therefore needs nothing of the daemon. Nothing is
assumed of the chain, of the calls that are made or of restarts.

`PolicyCache!FairSpec` asks that the timer fires again and again
(`setInterval`), that a failed read is processed, and strong fairness of reads
and of their success: the endpoint is reachable infinitely often. Without the
latter the cache rightly refuses to serve.

## 4. Proofs

These are the theorems, each for all values of the constants that satisfy the
named assumptions:

| Module | Theorem | States |
|---|---|---|
| `QuotaJournalProofs` | `JournalTypeOK` | `Spec => []TypeOK` |
| | `JournalLimitsHold` | `Spec => []LimitsHold` |
| | `JournalSettlesForGood` | `Spec => SettledForGood` |
| | `JournalOneChargePerDigest` | `Spec => []OneChargePerDigest` |
| | `JournalReservesWhole` | `Spec => AllOrNothing` |
| | `JournalImplementsLedger` | `Spec => LedgerImplemented` |
| `SigningDaemonProofs` | `DaemonTypes` | `Spec => []TypeOK` |
| | `LandableCharged` | `Spec => []LandableIsCharged` |
| | `NothingReplayed` | `Spec => []NoReplay` |
| | `CapHoldsOnChain` | `Spec => []LandedWithinCap` |
| | `DaemonImplementsLedger` | `Spec => LedgerImplemented` |
| `AgentTurnsProofs` | `LogIsTamperEvident` | `AllSpec => []TamperEvident` |
| | `TurnsTypes` | `AllSpec => []TurnsTypeOK` |
| | `ResultsAreTrue` | `AllSpec => []ToolResultIsTrue`, assuming `"journal" \notin Faults` |
| | `LogAgreesWithClients` | `AllSpec => []LogTellsTheSameStory` |
| `PolicyDecisionProofs` | `DecisionTypeOK` | `Spec => []TypeOK` |
| | `DecisionFailsClosed` | `Spec => []FailedReadsOnlyRefuse` |
| | `DecisionIsPiecewise` | `Spec => []BatchIsItsParts` |
| | `DecisionKeepsCaps` | `Spec => []CapIsForTheSum` |
| | `DecisionIgnoresTheOrder` | `Spec => []DenyWinsAnywhere` |
| | `DecisionAsksForAll` | `Spec => []NothingLeftUnasked` |
| `PolicyCacheProofs` | `CacheTypes` | `Spec => []TypeOK` |
| | `VersionsNamePolicies` | `Spec => []VersionNamesPolicy` |
| | `NeverRollsBack` | `Spec => ServedNeverRollsBack` |
| | `AnswersAreFresh` | `Spec => []ServedIsRecent`, assuming `~StaleNodes` |
| `AgentKeyProofs` | `KeyTypes` | `KeySpec => []KeyTypeOK` |
| | `ActiveKeysAreOnChain` | `KeySpec => []ActiveKeyIsOnChain` |
| | `KeysAreKept` | `KeySpec => []KeyKept` |
| | `CompanionAndCliAgree` | `KeySpec => []CompanionAgreesWithCli` |
| | `AuthorizationsAreRecent` | `KeySpec => []AuthorizedIsRecent` |
| `PolicyEditingProofs` | `GraphStaysInOrder` | `AuthoringSpec => []GraphOK` |
| | `WrittenIsAccepted` | `AuthoringSpec => []DaemonAccepts` |
| | `AskedIsLookedUp` | `AuthoringSpec => []LooksUpWhatIsAsked` |
| | `TestsAreEnforced` | `AuthoringSpec => []TestedIsEnforced` |
| | `NothingIsOverwritten` | `Spec => PushReplacesWhatWasRead` |
| | `QuietLeavesLoseNothing` | `Spec => QuietLeaveLosesNothing` |

`AgentKeyProofs` begins with one lemma per step of a session, of the chain, of
the wallets and of the companion.

### The journal

The assumptions are the named ones of `QuotaLimits` and `QuotaJournal`: an
hour is positive and no longer than a day, a cooldown is at most a day (the
schema bounds it), the retention covers a day plus the lag.

`LimitsHold` is not inductive: a refusal, a pruning or a crash happens in the
middle of a `reserve()`. `IInv` adds three things. The limits hold over
`Counted`, the rows of the running transaction included, so that every
`InsertDemand` is a step of the induction. `PruningIsLate` says pruned rows are
out of reach of every instant that can still be passed, which is where
`RetentionAssumption` is used. `FatesAgree` says rows appear only with a
reservation that was made and that settlements are owed only for reserved
ones.

The heart is the lemma that one admitted row keeps the limits although its
instant may lie before that of rows already there. The queries count
everything after `now - window`, with no upper end, so they count at least every
window the new row can fall into: a window that contains both the new row
and later rows lies inside what the query counted. Windows that open before
the new row's instant contain only rows the query counted, or not the new row
at all. Releasing only removes rows, and a subset of rows within the limits is
within the limits.

The refinement maps `charges` to all rows ever committed to the table, `kept`
and `refunded` to the committed and released reservations. `EndReserve` is
`Admit`, `Commit` is `Keep` or (for a duplicate digest) `Refund`, `Release` is
`Refund`, everything else stutters.

`JournalReservesWhole` is about a step: from one state to the next the table
gains all demands of a reservation or none. Its invariant says which rows the
running transaction has inserted so far.

Limits per recipient, and demands that cannot be compared with a cap, are in
the model and the proofs; the instance of `Quota` leaves them out to stay small.

### The daemon

The assumptions are `LinesAssumption` and `DaemonAssumption` (what a line
carries, every transaction names an actor, windows and caps are naturals),
`RequestsAssumption` (any number of requests, but not infinitely many: charges
are counted), and the one of `NonceCache`. `TypeOK`
holds the bound of each nonce cache, so its proof is about cardinalities: a
nonce is added only where an entry was swept or a place was free.

`LandableIsCharged` is not inductive: nothing in it says why bytes that are
with the node belong to a charged request. `Orderly` adds what each stage owes
(a decision between its reservation and its settlement holds a reservation),
`Covered` where the charge of a signature is: what clients hold is charged by a
commit, which is never undone; what was pushed is, or its decision still has its
reservation; what landed was pushed or held by a client. The case that needs
care is `commit()` for a digest that is committed already: it gives the second
reservation back, and the first one then covers both.

`NoReplay` rests on `Remembered`: a request of the present life that passed the
gate and whose window is still open has its nonce in the cache. The sweep drops
expired nonces only, a full cache refuses, and a line of an earlier life does
not pass because its token differs.

`CapHoldsOnChain` adds to these that a request in hand was bound by the gate
(`Bound`: what was signed for it moves the account of its agent) and that an agent's
standing reservations are within its cap (`WithinCap`). Every signature that may land is charged by
a request of the account it moves, and two signatures are charged by two requests,
since a request signs once; so there are at most as many landed
transactions as standing reservations. Without the gate the theorem is false: a
line of another agent that names the payment would be charged to that agent.

`DaemonImplementsLedger` closes the gap between the two levels at which quotas are
modelled. `QuotaLedger` is implemented twice: by the journal, statement by
statement, and by the daemon, which knows a reservation only by its fate. Under
the mapping every decision that was ever charged is one row, `Decide` admits it
(the rows that stand are then within the cap, by `WithinCap` in the next state),
the settlement after a signature or a push keeps or refunds it, and every other
step, a restart included, leaves the ledger as it is.

### The clients and the log

`AgentTurnsProofs` builds on the invariant of the daemon, for the daemon's steps
are steps of the composition. `AllInv` adds `CallsInv`, what a client knows of its
slot: the line it wrote is the one the daemon handles, an answer is there only when
the decision is over and is the answer of that decision, a result is what
`ResultOf` makes of it or the error that says nothing; `RowsInv`, that every row of
the log belongs to a decision that ended so; and `TurnsInv`, the rounds of a turn. A
call that was given up keeps its slot, so that an answer that comes late is
never taken for that of another call. `ResultsAreTrue` assumes a journal that can be
written; without it the theorem is false (section 5). `ClientsAssumption` says
that the lines the tools write are among those of `Lines`.

### The engine

The theorems hold for every document `verifyStoredPolicy` accepts and every
transaction; `DocumentAssumption`, `TransactionAssumption` and `NoneAssumption`
say that lists are lists, caps and amounts counted in naturals, and that no
answer is the value that stands for none.

All follow from what the engine's loops do. `FirstOther` returns its pass value
exactly if every test has it, and the first other verdict else. Three facts about
evidence carry the rest. A test that is not unavailable has the
same verdict if a failed read is replaced by any row (`DecisionFailsClosed`): a read that
failed and was consulted makes the verdict unavailable, and one that was not
consulted does not matter. The governing rule of an action depends on that
action alone (`DecisionIsPiecewise`). And what `ruleMatches` consults was asked for by
`QueriesOf` (`DecisionAsksForAll`): it comes to the requirements of a rule only
if its static match passed.

`DecisionKeepsCaps` needs that rules of one id are one rule, which the schema
demands, and facts about sums. `DecisionIgnoresTheOrder` takes every reordering
that keeps the allow rules among themselves: the deny pass asks whether some rule
denies, which has no order, except that the exceptions do, and those
refuse in any case.

Sums and flattened sequences are recursive functions on an initial segment of the naturals.
That the function exists, and the facts about it, are proved by well-founded
induction on a set of naturals: the one form of induction the provers take, since
that set is a value and no operator is passed.

### The policy cache

`CacheInv` adds to the type invariant that what is in memory is what is in
SQLite (`MemoryIsStored`), that a refresh under way is no older than the latency
of a read and that its reply names a revision that exists (`CallsAreTimely`).
`VersionNamesPolicy` needs only the contract: every action writes one row that
follows the one before (`ContractWrites`), so versions never go down along the
revisions and two rows of one version have one policy. `NeverRollsBack` then
follows from the order inside `refresh()`: a reply below the watermark is
refused, and what is confirmed is what memory holds, whose version is the
watermark. Nothing is assumed of the endpoints or the order of replies.

`AnswersAreFresh` is about endpoints that answer with the row they have when they
are asked (`~StaleNodes`). `RecentInv` says that a reply was the row when its
refresh began or later, that a stored entry was the row at most a latency before it was
verified, and that an answer was within the freshness window on top. An endpoint
that is behind breaks it, which is what the watermark is for.

### The agent's key

`KeyInv` has five parts. `OnboardingInv` holds the type invariant with the exclusive
use of the temporary container; `Orderly`, what the stage of a session says about
what it has shown and where its key is; `AsRequested`, that account and row are
what the request that made them says, up to the faults met, and that what the
companion took passed its checks; `ActiveKeyIsOnChain`; and `NoneGaveUp`: with
kills as the only faults, a session whose request landed does not fail. `KeysAreKept`
needs the last: an account's key is in the container of a session that has not
failed, or at the path. `CompanionAndCliAgree` follows from `AsRequested`: every check
of `verifyLanded` is one the companion made, or is undone by a fault the property names.

The rest of `KeyInv` is the daemon: it holds the key at the path while it is up, and
its cache and its checks are empty otherwise (`DaemonInv`); the account is what the request
says until it is replaced, and never again after (`Replacement`); and a positive result, whether
cached, on its way or given, was true at the instant it carries or
within the node's lag (`RightAt`). The instant of a result is that of the
question, so that a result that overwrites a newer one runs out no later for it.
The one inequality used is that a look-up is shorter than the lifetime of
a verdict (`AuthorityCacheAssumption`). `NamesAssumption` says that the values that stand for
nobody and for the authority's keys are not sessions.

### The log, the graph and the push dialog

`LogIsTamperEvident`: the rows are a chain in every state (`LogInv`), since
`append` adds to the last digest. A change of row `i < Len` that keeps the row's
own digest right changes that digest, and row `i + 1` carries the old one; a
removal or an insertion shifts the numbers.

`GraphStaysInOrder` is about every policy that is opened and every sequence of edits.
`AuthoringInv` adds to `GraphOK` that identifiers of nodes and wires lie below
the next ones, so that what is added is new (`GraphInv`), and that every node has a
height in the integers (`Heighted`). There is one lemma per edit; the scaffold
adds several nodes and wires at once, and a second wire to an input that takes one
replaces the first. `decompilePolicy` draws node after node, so its lemmas follow it: each helper of
`decompile.ts` leaves a graph in order with the nodes it was given still there and of their
types (`Framed`), and the folds over conditions, requirements and rules by
induction.

`WrittenIsAccepted` takes the compiler apart: the conditions a decision comes to
are those of its tests and its route (`MatchIs`), `Sorted` lists each of them once
(`MatchIsListed`), what they hold is as long as `Typed` says (`ConditionsFit`), and
so is what a requirement holds, which comes from a Contains and a Lookup
(`ProvidersListed`, `RequirementsFit`); limits are written only if they say something,
and within the schema's maxima (`LimitsHaveShape`: a 0 and a word are written as 1, and half
a millisecond is rounded); the rules are those of the decisions (`CompileIs`). Its
preconditions are what the property names, and stand for what an author can do that the daemon
refuses: choose
a default that allows, type a number of actions outside 1 to 64, a cap that is no
asset, a count below zero or above a million, a cooldown of more than a day, leave a
value, a list or a table blank, or draw decisions of one effect and route, or of
routes with one slug, which get one identifier. Three say that a document is
not too large: 256 rules, 32 conditions and 8 requirements of a rule.

`AskedIsLookedUp` follows a requirement of a compiled rule back to the look-up node it was
made from (`ProvidersListed`), shows that the simulator substitutes the same key for the
same argument (`SameArgument`: this is where the sender has to be the agent and a
variable `$agent`), and that the daemon asks only for requirements of rules of the policy. A
look-up node anywhere on the canvas is asked about by the editor, so nothing
about the wiring is used but what `upstream` collects.

`TestsAreEnforced` compares two programs: the simulator, which evaluates the
graph, and the engine, which evaluates the document made of it. The argument goes
from a single node up to the whole transaction.

1. *What counts for a decision.* `upstream` is the least set with the decision
   in it that is closed under the wires (`UpstreamCloses`), an invariant of its
   search being that every wire into what it has found starts at what it has
   found or will look at (`FollowCloses`). What it finds for a decision of a
   plain graph is one Route If, values, tests and conjunctions of them (`RuleTypes`).
2. *When a decision fires.* `holds` and `through` are tables over the depth of the
   walk. A test has its value at every depth; a Bool And has it once the depth is
   at least the number of nodes before it, since what is before each of its sources is less
   (`FewerUpstream`: this is where there must be no circle). So a plain
   decision fires exactly if its route lets the action through and each of its
   tests holds (`FiresIs`).
3. *One test.* A condition that was compiled, against the test it was compiled
   from: where the engine says yes the test holds, and where the test holds the
   engine does not say no (`SameCompare`, `SameList`, `SameRoute`, `SameRow`). No more
   than that is true: of two amounts of different precision the engine says
   nothing and refuses, and the editor compares them.
4. *One rule.* The match is the set of these conditions, none of which replaces
   another (`PlainMatch`), read in the order of canonical JSON (`MatchListed`); hence the same
   two implications for rules (`SameRule`).
5. *What governs.* An "ALLOW" means that no deny rule matches or is in doubt, and that the
   first allow rule that does not fail matches (`CodeAllows`). By the two implications no
   deny fires, that allow rule does, and none before it; and the order of heights
   is that of the nodes (`PlainOrder`), so that it is the first in the editor too (`SameGoverning`).
6. *Limits.* The limits written are those typed (`LimitsWritten`). The engine has seen
   that every amount is of the asset of the cap, so that as numbers both add up the
   same units (`SameTotal`), and as doubles too, unless the sum is one that
   `RoundedUp` names; a limit in time lets only one action through
   unless the journal is asked, and one action is no more than one to its
   recipient, which is within any count but 0 (`SameLimits`: this is where `NoneIsZero`
   is needed).

`Rounded` is arbitrary in all of this: the theorem holds whatever sums doubles get
wrong. `SamplesAssumption` says that a test has its actions listed and that the
numbers in it are written in digits, up to `MaxUnits`. `MalformedAssumption` says
that neither `None` nor `Malformed` is a number.

`upstream`, `tested`, `wired` and `opened` are recursive functions. That such a function is
what its equation says has to be proved before anything can be said of it: by
induction over the depth, which bounds the walk, or over the length of the list, on
a set of naturals as in the engine's proofs (`Induct` in `ListFacts`). `Sorted` chooses; that the
choice exists rests on the order being total, by heights and then identifiers (`SortedIs`).

`EditsAssumption` says that heights are integers, `PathsAssumption` that the order of
paths lists every path a condition can be on, `DocumentsAssumption` that a
policy opened is a parsed JSON text, whose lists are lists.

`EditingInv` has a part for the table (`TableOK`), for the canvas (`CanvasOK`: the
baseline is a policy that a row holds or held, and so is what is on the canvas when the
mark is off), for the dialog (`DialogOK`: the versions it shows are no higher than
those of the rows) and for the push (`PushOK`: it carries the version after the one it
read, and no row's version has gone back since). `NothingIsOverwritten` then rests on
the contract: `setpolicy` takes higher versions only, and a row whose version is
still below that of the push is the row that was read. `QuietLeavesLoseNothing` is `CanvasOK`:
a push makes a policy the baseline only once it is on the chain, and every render computes
the mark anew. `EditingAssumption` says that the rows other devices write to are
rows of agents. How the compiler works is not used: the two theorems hold whatever
`compilePolicy` and `decompilePolicy` return.

### Model-checked only

All liveness (`CacheConverges`, `EveryTurnEnds`, `ReservationsSettle`,
`EveryLineAnswered`): liveness and ENABLED are out of the prover's reach. Of the
safety properties `RoundTrip`: that `decompile.ts` draws a graph whose walks find again
what they found before needs an account of every wire it draws, node by node,
where the proof that the graph is in order needs only their types.

## 5. Where code and documentation disagree

Three disagreements have a run that violates what the documentation says:

- `CacheDisable`. The watermark compares versions only, and `disable` does not
  change the version. Two refreshes answered out of order put the enabled row
  back over the disabled one, until the next refresh; `policyCache.ts:14`
  promises never to "silently downgrade to a more permissive policy".
- `OnboardLate` (`KeyNotLost`). After a timeout the key is destroyed (`flow.ts:213`), but the
  request can still be signed; the account then carries a key nobody has.
  `flow.ts:12` says "never orphaned and never lost".
- `ProvidersNarrow`. `schema.ts:27` says a provider can "never widen the rights
  the policy already grants". An allow rule whose provider condition is false does
  not match (`engine.ts:306`), so the action falls through to a later allow
  rule: with a first rule limited to 1 and conditional on a list, and a
  second without limits, a payment of 2 to somebody who is not on the list is
  allowed, and refused once the condition is struck out. On a deny rule a
  condition widens by what the rule denies no more.

Seen while modelling, without a run of their own.

In the daemon and its clients: `runtime.enabled` is read once (`server.ts:640`), so
that a decision past that line is signed after `disableAgent()`, called "local,
immediate" in `server.ts:20` and "refuse all signing for this agent
immediately" in `cli/index.ts:759` (`Disable` in `SigningDaemon`); on a rejected
submission the reservation is released and the answer contains the signature
(`server.ts:842`), while the comment at `server.ts:829` rests the release on "bytes
discarded here"; the example agent's prompt says of "rejected/ambiguous" that
the chain did not accept the transaction (`llm.ts:39`), which is not known of an
ambiguous one; a log whose end was cut off verifies, while `auditLog.ts`
promises that any deletion is detectable.

In the editor. `decompile.ts:1-6` promises that what a graph cannot show is
"reported as a warning and left out, never silently approximated"; without a warning
a rule without contract or action is shown as `transfer` of `eosio.token`
(`decompile.ts:90`), of several operators on a path the first alone is kept
(`decompile.ts:179-185`), and a rule with nothing but a rate limit gets the default cap
(`decompile.ts:212`); several providers of a rule come back in reverse order. Two
conditions on one path overwrite each other (`compile.ts:77-92`). A Global cap is
simulated but never compiled. A decision without a route, a chain of Route Ifs,
a Get Field fed by a Get Field, or a list without an input compile to
something else than the test shows. An empty `deny` match is dropped as a
"narrowing" (`compile.ts:166`), which for a deny rule it is not. Two rules of one
effect and route get one id, and so do two of routes that differ in punctuation or
after 40 characters (`compile.ts:43-50`); the policy node offers "allow" as a default
(`nodeBodies.tsx:169`, written by `compile.ts:181`), which `schema.ts:143` never takes; a
cooldown of 48 hours is written as it is (`compile.ts:137`) where `schema.ts:179` stops
at a day; a count above a million (`schema.ts:180-182`), more than 64 actions, an empty
value of a Compare or a Contains, a blank table or key and a value or list too long are
written too: in each case the daemon refuses the whole policy. The simulator tries allow
rules in the order they were made, the compiler writes them by height; it takes
an absent recipient, sender or quantity for the empty string, the engine for
a condition that fails; it knows no integers, compares amounts of any
precision, and reads a value that names a path or a variable other than `$agent`
as it stands. Wires may form a circle, in which a Bool node fails for the
simulator while the compiler writes what feeds it. These are the preconditions
`Shows`, `Typed`, `Plain`, `Readable`, `NoneIsZero`, `RoundedUp`, `Own` and `Has`.

The tour of the editor says that the trace of a test "shows live exactly how your
rules route and decide it — allow or refuse" (`EditorTour.tsx:103-104`). Two cases
tell against it. `eval.ts:391-399` (and 440-448, for a Global cap) adds amounts up with
`parseFloat`: 0.1 and 0.2 are more than a cap of 0.3, and refused, while the engine
adds exact units and allows them. A count of 0 is written as 1 (`compile.ts:140`): the
test refuses every action under one for each recipient (`eval.ts:407-413`), the engine
allows one. TLC finds both in the instance of `PolicyAuthoring` if `RoundedUp` or
`NoneIsZero` is left out of `TestedIsEnforced`.

In the push dialog. The version is that of the row the dialog read
(`PushModal.tsx:93`), not of the row the graph was loaded from: what another
device pushed in between is replaced. If the agent is not among the rows of the
author the dialog takes the first (`PushModal.tsx:60`). After an error the rows are not read again. The browser's
back button leaves without a question (`router.tsx:56`, `BrowserBack`).

Elsewhere: a failing promotion destroys the key
as well (`flow.ts:200`, fault `"disk"` or `"reuse"`), and so do a rotation of the
authority's key, an edit of the policy or another `--permission` between the
request and its verification (`onboarding.ts:219`, `236`, `255`), while the
account exists; the companion compares the permission in a request with the
summary of the same request only (`validate.ts:190`); outside strict mode the
grace answers with what was held before the await, possibly below a version
served since (`policyCache.ts:245`); a `commit()` that throws after the node
accepted makes the answer and the audit entry a denial (`server.ts:826`,
`863`), while the charge stays; any `limits` on a rule, a mere count included,
refuse an action without `data.quantity` (`engine.ts:313`); an incomparable
value in a rule with providers refuses with `INTERNAL_ERROR` during the
collection (`engine.ts:198`), even if an earlier rule allows the action.

## 6. Not modelled

Cryptography, parsing and canonicalization; serialization and signing (the signer
returns bytes for the validated transaction, under an envelope of its choice, or
throws); the framing of lines and the socket files of a start. Of the command
line: argument parsing, prompts, configuration files. Of the example agent: texts,
the trimming of the history, the list of chats. Of the companion: the wallet's
session and its restoring, the change of network, the tour, drawing, hovering and
keyboard shortcuts, the landing pages. The fail-over of an RPC client between
the verification of an endpoint and the read (`docs/endpoint-trust.md`) is left
out of `AgentKey`; the policy cache has endpoints that answer with any older row
instead. In `SigningDaemon` a decision is free to allow or deny; how it comes to
its verdict is `PolicyDecision`'s part. Quotas appear in `SigningDaemon` as a cap
on transactions, without windows: the windows are `QuotaJournal`'s part.
In `AgentTurns` one turn runs next to the MCP client; two turns share nothing
that these two do not share. Graphs with cycles of logic nodes, which the canvas
does not rule out, are walked to a bounded depth.

Four simplifications inside what is modelled, none of which a property turns on.
`CompanionAccepts` names the creator of a request among what the companion checks; in
`OnboardingView.tsx` it is the wallet's session that is the creator. A standalone
broadcast that cannot be parsed is denied without an audit row
(`server.ts:480-487`); `TurnAway` would record it, but no line of the instances is of
that kind. An abort of a session empties the temporary path (`VerifyOrLinkFails`):
a `destroy` that fails itself is not modelled. After a push the baseline is the policy
that was pushed (`Answer`); `EditorView.tsx:367-370` compiles the graph of the click once
more, which is the same as long as the open dialog keeps the canvas from being edited.

## 7. What is left

1. A proof of `RoundTrip` for every policy the editor can show.
2. A start with several containers; the verified RPC with its fail-over.
