----------------------------- MODULE AgentTurns -----------------------------
(***************************************************************************)
(* The clients of the daemon, composed with it: the socket client of the   *)
(* command line and the MCP server (src/cli/client.ts, src/cli/index.ts,   *)
(* src/mcp/server.ts), the chat agent that spends through the command line *)
(* (examples/telegram-agent), and the audit log the daemon's decisions go  *)
(* to.                                                                     *)
(*                                                                         *)
(* A tool call is one line on one connection: its slot is the daemon's     *)
(* request slot.  The client reads the token file, draws a nonce and a     *)
(* window, connects, writes, and waits for the first line of the answer    *)
(* with a timer of its own; what comes later is lost.  A turn of the chat  *)
(* agent is one message addressed to it, answered by the model with tool   *)
(* calls in at most MaxToolRounds rounds.  Turns overlap.                  *)
(***************************************************************************)
EXTENDS SigningDaemon, AuditLog, TLC

CONSTANTS
    Turns,              \* messages addressed to the chat agent
    ChatTools,          \* what the model may ask for in a turn: a line, but for
    McpTools,           \* its nonce and window; the same through the MCP server
    Ttl,                \* validity window a client gives its lines
    MaxToolRounds       \* MAX_TOOL_ROUNDS

VARIABLES
    calls,      \* per slot: [by, line, token, reply, result]
    turns,      \* per turn: [stage, round]
    rows        \* the audit log

allVars == <<vars, calls, turns, rows>>

Callers == Turns \cup {"mcp"}
Replies == Answers \cup {"accepted", "rejected", "ambiguous"}
Results == {"none", "ok", "rejected", "ambiguous", "denied", "error"}

NoCall == [by |-> "nobody", line |-> NoLine, token |-> 0, reply |-> "none", result |-> "none"]

-----------------------------------------------------------------------------
(* A tool call, from the token file to its result. *)

Made(q) == calls[q].by # "nobody"
Open(q) == Made(q) /\ calls[q].result = "none"

\* Bytes that an earlier call was given.
Held ==
    {req[q].signed : q \in {p \in Requests : calls[p].result = "ok" /\ calls[p].line.op = "sign"}}

\* A line has a window that begins now.  One to sign or to push has a random
\* nonce, its slot's own; one to push has bytes that were signed before.
LinesAt(tool, q, now, bytes) ==
    LET window == [asked |-> now, expires |-> now + Ttl] IN
    CASE tool.op \in Reads -> {tool @@ window}
      [] tool.op = "push"  -> {tool @@ window @@ [nonce |-> q, signed |-> s] : s \in bytes}
      [] OTHER             -> {tool @@ window @@ [nonce |-> q]}

LinesOf(tool, q) == LinesAt(tool, q, clock, Held)

ASSUME ClientsAssumption ==
    /\ MaxToolRounds \in Nat
    /\ \A tool \in ChatTools \cup McpTools, q \in Requests, now \in 0 .. MaxClock :
          LinesAt(tool, q, now, Signed) \subseteq Lines

\* The token is read from its file when the call is made, before connecting.
\* Slots are alike: the next one is any that is free.
MakeCall(caller, q, tool) ==
    /\ ~Made(q) /\ q = CHOOSE p \in Requests : ~Made(p)
    /\ \E l \in LinesOf(tool, q) :
          calls' = [calls EXCEPT ![q] = [NoCall EXCEPT !.by = caller, !.line = l,
                                                       !.token = TokenOf(boot)]]

\* (mutant) any answer of a daemon that signed is good news
ResultOfSigned(reply) ==
    IF reply \in {"denied", "turned_away"} THEN "denied" ELSE "ok"

\* What submit() of the chat agent makes of the JSON the command printed, and
\* what the exit code of the command tells a script.
ResultOf(reply) ==
    CASE reply \in {"signed", "accepted", "read"} -> "ok"
      [] reply \in {"rejected", "ambiguous"}      -> reply
      [] OTHER                                    -> "denied"

\* The first line of the answer reaches the client in time.
Collect(q) ==
    /\ Open(q) /\ calls[q].reply # "none"
    /\ calls' = [calls EXCEPT ![q].result = ResultOf(calls[q].reply)]

\* (mutant) no timer: only a connection that fails is an error
GiveUpConnecting(q) ==
    /\ Open(q) /\ req[q].stage = "idle"
    /\ calls' = [calls EXCEPT ![q].result = "error"]

\* No daemon to connect to, or no answer within the timer of the socket or of
\* the child process.  Whatever the daemon still does, nobody hears of it.
GiveUp(q) ==
    /\ Open(q)
    /\ calls' = [calls EXCEPT ![q].result = "error"]

-----------------------------------------------------------------------------
(* The daemon: one of its steps, the answer it writes, the row it records. *)

\* (mutant) the outcome of a broadcast is not recorded as it was reported
EntryOfDecision(q, outcome) ==
    [request |-> q, decision |-> log'[q], broadcast |-> IF outcome = "none" THEN "none" ELSE "accepted"]

EntryOf(q, outcome) == [request |-> q, decision |-> log'[q], broadcast |-> outcome]

\* Outcome is what became of a broadcast the answer reports, or "none".
Answered(q, outcome) ==
    /\ calls' = [calls EXCEPT ![q].reply = IF outcome = "none" THEN req'[q].answer ELSE outcome]
    /\ rows' = IF log' = log THEN rows ELSE append(rows, EntryOf(q, outcome))

\* A line is handled even if its client has given up in the meantime.
Connects(q) ==
    /\ Made(q)
    /\ Handle(q, calls[q].line, calls[q].token)
    /\ Answered(q, "none")
    /\ UNCHANGED turns

Resumes(q) ==
    /\ \/ /\ \/ PolicyArrives(q) \/ AuthorityArrives(q) \/ Decide(q) \/ SignerThrows(q)
             \/ QueryReturns(q)
             \/ \E s \in Signed : SignedForSubmit(q, s) \/ SignedForClient(q, s)
          /\ Answered(q, "none")
       \/ \E outcome \in Outcomes(q) :
             \/ BroadcastReturns(q, outcome)
                /\ Answered(q, IF req'[q].answer = "submitted" THEN outcome ELSE "none")
             \/ RelayReturns(q) /\ Answered(q, outcome)
    /\ UNCHANGED turns

-----------------------------------------------------------------------------
(* A turn of the chat agent, and calls made through the MCP server. *)

Goes(t, stage) == turns' = [turns EXCEPT ![t].stage = stage]

\* A message addressed to the agent; respond() starts.
Hear(t) ==
    /\ turns[t].stage = "unheard"
    /\ Goes(t, "model")
    /\ UNCHANGED <<vars, calls, rows>>

\* (mutant) the rounds of a turn are not counted
RoundsAlways(t) == TRUE

RoundsLeft(t) == turns[t].round < MaxToolRounds

\* The completion calls a tool, or it is followed by another in the same one.
CallTool(t, q) ==
    /\ turns[t].stage \in {"model", "more"}
    /\ RoundsLeft(t)
    /\ \E tool \in ChatTools : MakeCall(t, q, tool)
    /\ Goes(t, "tool")
    /\ UNCHANGED <<vars, rows>>

\* The result is pushed to the messages of the turn.
ToolReturns(t, q) ==
    /\ turns[t].stage = "tool" /\ calls[q].by = t
    /\ Collect(q) \/ GiveUp(q)
    /\ Goes(t, "more")
    /\ UNCHANGED <<vars, rows>>

NextRound(t) ==
    /\ turns[t].stage = "more"
    /\ turns' = [turns EXCEPT ![t].stage = "model", ![t].round = @ + 1]
    /\ UNCHANGED <<vars, calls, rows>>

\* The completion is a text, or the rounds are used up.
Reply(t) ==
    /\ turns[t].stage = "model"
    /\ Goes(t, "replied")
    /\ UNCHANGED <<vars, calls, rows>>

\* The completion request throws; its error is the reply.
Fail(t) ==
    /\ turns[t].stage = "model" /\ RoundsLeft(t)
    /\ Goes(t, "failed")
    /\ UNCHANGED <<vars, calls, rows>>

McpCall(q) ==
    /\ \/ \E tool \in McpTools : MakeCall("mcp", q, tool)
       \/ calls[q].by = "mcp" /\ (Collect(q) \/ GiveUp(q))
    /\ UNCHANGED <<vars, turns, rows>>

-----------------------------------------------------------------------------
AllInit ==
    /\ Init
    /\ calls = [q \in Requests |-> NoCall]
    /\ turns = [t \in Turns |-> [stage |-> "unheard", round |-> 0]]
    /\ rows = <<>>

Elsewhere ==
    /\ \/ \E q \in Requests : NodeApplies(q) \/ NodeRefuses(q)
       \/ Restart
    /\ UNCHANGED <<calls, turns, rows>>

\* What the process of the chat agent does in turn t once it has begun.
TurnGoesOn(t) ==
    \/ NextRound(t)
    \/ Reply(t) \/ Fail(t)
    \/ \E q \in Requests : ToolReturns(t, q)

AllNext ==
    \/ \E q \in Requests : Connects(q) \/ Resumes(q) \/ McpCall(q)
    \/ \E t \in Turns : Hear(t) \/ TurnGoesOn(t) \/ \E q \in Requests : CallTool(t, q)
    \/ Elsewhere

\* The clock stands still here: windows and the administrator's commands are
\* SigningDaemon's.
\* The promises the daemon awaits settle: providers by their own timeout, the
\* RPC reads, the signer and the broadcaster because the endpoint answers or
\* the connection to it fails.  The completion request and the typing indicator
\* are requests over a network, with timers of their own, and the wait for the
\* daemon ends by the client's timer.
AllSpec ==
    /\ AllInit /\ [][AllNext]_allVars
    /\ \A q \in Requests : WF_allVars(Resumes(q))
    /\ \A t \in Turns : WF_allVars(TurnGoesOn(t))
-----------------------------------------------------------------------------
TurnsTypeOK ==
    /\ \A q \in Requests :
          /\ calls[q].by \in Callers \cup {"nobody"}
          /\ calls[q].reply \in Replies /\ calls[q].result \in Results
    /\ turns \in [Turns -> [stage : {"unheard", "model", "tool", "more", "replied", "failed"},
                            round : 0 .. MaxToolRounds]]
    /\ Len(rows) <= Cardinality(Requests)

\* What the model and a script are told of a transaction is what happened to
\* it (llm.ts: "never claim success unless ok:true"): success only if the node
\* applied it, "rejected" only if the node refused it, "denied" only if it was
\* never sent - through the node's reply, the daemon, the socket, the command's
\* output and the mapping of the tool, with timers running out at every one.
\* It takes a journal that can be written.
ToolResultIsTrue ==
    \A q \in Requests :
        /\ (calls[q].result = "ok" /\ calls[q].line.op \in {"submit", "push"}) => push[q] = "applied"
        /\ calls[q].result = "rejected" => push[q] = "refused"
        /\ calls[q].result = "denied"   => push[q] = "none"

\* The log and the clients hear the same story (server.ts, recordAudit and
\* recordBroadcastAudit): what is recorded of a request is the decision its
\* client was told and the outcome the node's reply justifies, once.
Story(e) == IF e.broadcast = "none" THEN e.decision ELSE e.broadcast
LogTellsTheSameStory ==
    /\ \A i \in DOMAIN rows :
          LET e == rows[i].entry  q == e.request IN
          /\ calls[q].result \notin {"none", "error"} => calls[q].result = ResultOf(Story(e))
          /\ e.broadcast = "accepted" => push[q] = "applied"
          /\ e.broadcast = "rejected" => push[q] = "refused"
    /\ \A i, j \in DOMAIN rows : rows[i].entry.request = rows[j].entry.request => i = j

\* auditLog.ts: "any insertion, deletion or edit breaks the chain and is
\* detectable by verify()".  The log the daemon wrote verifies, across restarts
\* and failed writes, and no longer does after one change before its last row.
TamperEvident ==
    /\ verify(rows)
    /\ TamperEvidentFor(rows, {[request |-> q, decision |-> d, broadcast |-> "none"] :
                                  q \in Requests, d \in {"signed", "denied"}})

\* Every message heard is answered, with a reply or with an error, even when
\* the daemon dies with the decision.
EveryTurnEnds ==
    \A t \in Turns : (turns[t].stage = "model") ~> (turns[t].stage \in {"replied", "failed"})
=============================================================================
