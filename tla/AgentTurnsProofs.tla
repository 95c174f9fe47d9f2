-------------------------- MODULE AgentTurnsProofs --------------------------
(***************************************************************************)
(* The clients and the audit log, for any number of requests and turns:    *)
(* what a caller is told is true, the log tells the same, what the daemon  *)
(* appends verifies, and a log that verifies no longer does after one      *)
(* change before its last row.                                             *)
(***************************************************************************)
EXTENDS AgentTurns, SigningDaemonProofs, SequenceTheorems

IsLog(rs) ==
    /\ \E S : rs \in Seq(S)
    /\ \A i \in DOMAIN rs : DOMAIN rs[i] = {"seq", "prevHash", "entry", "entryHash"}

LogInv(rs) == IsLog(rs) /\ verify(rs)

-----------------------------------------------------------------------------
\* append() links the new row to the last one.
LEMMA AppendVerifies ==
    ASSUME NEW rs, LogInv(rs), NEW e
    PROVE  LogInv(append(rs, e))
<1> DEFINE row == NewRow(rs, e)
           out == append(rs, e)
<1>1. PICK S : rs \in Seq(S)
  BY DEF LogInv, IsLog
<1>2. rs \in Seq(S \cup {row}) /\ out \in Seq(S \cup {row})
  BY <1>1 DEF append
<1>3. /\ Len(rs) \in Nat /\ DOMAIN rs = 1 .. Len(rs)
      /\ Len(out) = Len(rs) + 1 /\ DOMAIN out = 1 .. Len(rs) + 1
      /\ out[Len(rs) + 1] = row
      /\ \A i \in 1 .. Len(rs) : out[i] = rs[i]
  BY <1>2 DEF append
<1>4. DOMAIN row = {"seq", "prevHash", "entry", "entryHash"}
  BY DEF NewRow
<1>5. IsLog(out)
  BY <1>2, <1>3, <1>4 DEF LogInv, IsLog
<1>6. \A i \in 1 .. Len(rs) : Links(out, i)
  <2>1. TAKE i \in 1 .. Len(rs)
  <2>2. Links(rs, i)
    BY <1>3 DEF LogInv, verify
  <2>3. i = 1 \/ i - 1 \in 1 .. Len(rs)
    BY <1>3
  <2>4. QED
    BY <1>3, <2>2, <2>3 DEF Links
<1>7. Links(out, Len(rs) + 1)
  <2>1. /\ row.seq = Len(rs) + 1 /\ row.prevHash = lastHash(rs)
        /\ row.entryHash = computeHash(row.seq, row.prevHash, row.entry)
    BY DEF NewRow
  <2>2. lastHash(rs) = (IF Len(rs) + 1 = 1 THEN Genesis ELSE out[(Len(rs) + 1) - 1].entryHash)
    <3>1. CASE rs = <<>>
      BY <3>1 DEF lastHash
    <3>2. CASE rs # <<>>
      <4>1. Len(rs) # 0 /\ (Len(rs) + 1) - 1 = Len(rs) /\ Len(rs) \in 1 .. Len(rs)
        BY <1>1, <1>3, <3>2
      <4>2. QED
        BY <1>3, <3>2, <4>1 DEF lastHash
    <3>3. QED
      BY <3>1, <3>2
  <2>3. QED
    BY <1>3, <2>1, <2>2 DEF Links
<1>8. verify(out)
  <2>1. \A i \in 1 .. Len(rs) + 1 : i \in 1 .. Len(rs) \/ i = Len(rs) + 1
    BY <1>3
  <2>2. QED
    BY <1>3, <1>6, <1>7, <2>1 DEF verify
<1>9. QED
  BY <1>5, <1>8 DEF LogInv

\* verify() finds any edit, removal or insertion before the last row.
LEMMA ChangesAreFound ==
    ASSUME NEW rs, LogInv(rs), NEW entries
    PROVE  TamperEvidentFor(rs, entries)
<1>1. PICK S : rs \in Seq(S)
  BY DEF LogInv, IsLog
<1>2. SUFFICES ASSUME NEW i \in 1 .. Len(rs) - 1
               PROVE  /\ \A e \in entries : e # rs[i].entry => ~verify(Edited(rs, i, Forged(rs, i, e)))
                      /\ ~verify(Deleted(rs, i))
                      /\ \A e \in entries : ~verify(Inserted(rs, i, Forged(rs, i, e)))
  BY DEF TamperEvidentFor
<1>3. /\ Len(rs) \in Nat /\ DOMAIN rs = 1 .. Len(rs)
      /\ i \in Nat /\ i \in DOMAIN rs /\ i + 1 \in DOMAIN rs /\ i + 1 # 1 /\ (i + 1) - 1 = i
      /\ Links(rs, i) /\ Links(rs, i + 1)
  BY <1>1 DEF LogInv, verify
<1>4. \A e \in entries : e # rs[i].entry => ~verify(Edited(rs, i, Forged(rs, i, e)))
  <2>1. SUFFICES ASSUME NEW e \in entries, e # rs[i].entry,
                        verify(Edited(rs, i, Forged(rs, i, e)))
                 PROVE  FALSE
    OBVIOUS
  <2> DEFINE out == Edited(rs, i, Forged(rs, i, e))
  <2>2. /\ DOMAIN out = DOMAIN rs /\ out[i] = Forged(rs, i, e) /\ out[i + 1] = rs[i + 1]
    BY <1>3 DEF Edited
  <2>3. Links(out, i + 1)
    BY <1>3, <2>1, <2>2 DEF verify
  <2>4. rs[i + 1].prevHash = out[i].entryHash /\ rs[i + 1].prevHash = rs[i].entryHash
    BY <1>3, <2>2, <2>3 DEF Links
  <2>5. out[i].entryHash = computeHash(rs[i].seq, rs[i].prevHash, e)
    BY <1>3, <2>2 DEF Forged, LogInv, IsLog
  <2>6. rs[i].entryHash = computeHash(rs[i].seq, rs[i].prevHash, rs[i].entry)
    BY <1>3 DEF Links
  <2>7. computeHash(rs[i].seq, rs[i].prevHash, e) = computeHash(rs[i].seq, rs[i].prevHash, rs[i].entry)
    BY <2>4, <2>5, <2>6
  <2>8. QED
    BY <2>1, <2>7 DEF computeHash
<1>5. ~verify(Deleted(rs, i))
  <2> DEFINE out == Deleted(rs, i)
  <2>1. /\ SubSeq(rs, 1, i - 1) \in Seq(S) /\ Len(SubSeq(rs, 1, i - 1)) = i - 1
        /\ SubSeq(rs, i + 1, Len(rs)) \in Seq(S) /\ Len(SubSeq(rs, i + 1, Len(rs))) = Len(rs) - i
        /\ SubSeq(rs, i + 1, Len(rs))[1] = rs[i + 1]
    <3>1. /\ \A j \in 1 .. i - 1 : rs[j] \in S
          /\ \A j \in i + 1 .. Len(rs) : rs[j] \in S
      BY <1>1, <1>3
    <3>2. SubSeq(rs, 1, i - 1) \in Seq(S) /\ Len(SubSeq(rs, 1, i - 1)) = i - 1
      BY <1>3, <3>1, SubSeqProperties
    <3>3. /\ SubSeq(rs, i + 1, Len(rs)) \in Seq(S) /\ Len(SubSeq(rs, i + 1, Len(rs))) = Len(rs) - i
          /\ SubSeq(rs, i + 1, Len(rs))[1] = rs[i + 1]
      BY <1>3, <3>1, SubSeqProperties
    <3>4. QED
      BY <3>2, <3>3
  <2>2. i \in DOMAIN out /\ out[i] = rs[i + 1]
    <3>1. /\ out = SubSeq(rs, 1, i - 1) \o SubSeq(rs, i + 1, Len(rs))
          /\ Len(rs) - i >= 1 /\ i \in 1 .. (i - 1) + (Len(rs) - i) /\ i - (i - 1) = 1
      BY <1>3 DEF Deleted
    <3>2. out \in Seq(S) /\ Len(out) = (i - 1) + (Len(rs) - i)
      BY <2>1, <3>1, ConcatProperties
    <3>3. out[i] = SubSeq(rs, i + 1, Len(rs))[1]
      BY <1>3, <2>1, <3>1, ConcatProperties
    <3>4. QED
      BY <1>3, <2>1, <3>1, <3>2, <3>3
  <2>3. rs[i + 1].seq = i + 1
    BY <1>3 DEF Links
  <2>4. QED
    BY <1>3, <2>2, <2>3 DEF verify, Links
<1>6. \A e \in entries : ~verify(Inserted(rs, i, Forged(rs, i, e)))
  <2>1. TAKE e \in entries
  <2> DEFINE row == Forged(rs, i, e)
             out == Inserted(rs, i, row)
             T == S \cup {row}
  <2>2. /\ SubSeq(rs, 1, i - 1) \in Seq(T) /\ Len(SubSeq(rs, 1, i - 1)) = i - 1
        /\ <<row>> \in Seq(T) /\ Len(<<row>>) = 1
        /\ SubSeq(rs, i, Len(rs)) \in Seq(T) /\ Len(SubSeq(rs, i, Len(rs))) = Len(rs) - i + 1
        /\ SubSeq(rs, i, Len(rs))[1] = rs[i]
    BY <1>1, <1>3
  <2>3. /\ SubSeq(rs, 1, i - 1) \o <<row>> \in Seq(T)
        /\ Len(SubSeq(rs, 1, i - 1) \o <<row>>) = i
    BY <1>3, <2>2
  <2>4. i + 1 \in DOMAIN out /\ out[i + 1] = rs[i]
    BY <1>3, <2>2, <2>3 DEF Inserted
  <2>5. rs[i].seq = i
    BY <1>3 DEF Links
  <2>6. QED
    BY <1>3, <2>4, <2>5 DEF verify, Links
<1>7. QED
  BY <1>4, <1>5, <1>6

-----------------------------------------------------------------------------
\* A step of the system appends at most one row.
LEMMA RowsOnlyGrow ==
    ASSUME [AllNext]_allVars
    PROVE  rows' = rows \/ \E e : rows' = append(rows, e)
<1>1. CASE \E q \in Requests : Connects(q) \/ Resumes(q)
  BY <1>1, Zenon DEF Connects, Resumes, Answered
<1>2. CASE \E q \in Requests : McpCall(q)
  BY <1>2 DEF McpCall
<1>3. CASE \E t \in Turns : Hear(t) \/ TurnGoesOn(t) \/ \E q \in Requests : CallTool(t, q)
  BY <1>3 DEF Hear, TurnGoesOn, CallTool, ToolReturns, NextRound, Reply, Fail
<1>4. CASE Elsewhere
  BY <1>4 DEF Elsewhere
<1>5. CASE UNCHANGED allVars
  BY <1>5 DEF allVars
<1>6. QED
  BY <1>1, <1>2, <1>3, <1>4, <1>5 DEF AllNext

\* The log the daemon wrote verifies in every state, and no longer does after
\* one change before its last row (auditLog.ts, append and verify).
THEOREM LogIsTamperEvident == AllSpec => []TamperEvident
<1>1. AllInit => LogInv(rows)
  <2>1. rows = <<>> => rows \in Seq({}) /\ DOMAIN rows = {}
    OBVIOUS
  <2>2. QED
    BY <2>1 DEF AllInit, LogInv, IsLog, verify
<1>2. LogInv(rows) /\ [AllNext]_allVars => LogInv(rows)'
  <2>1. SUFFICES ASSUME LogInv(rows), [AllNext]_allVars
                 PROVE  LogInv(rows)'
    OBVIOUS
  <2>2. rows' = rows \/ \E e : rows' = append(rows, e)
    BY <2>1, RowsOnlyGrow
  <2>3. LogInv(rows')
    BY <2>1, <2>2, AppendVerifies
  <2>4. QED
    BY <2>3 DEF LogInv, IsLog, verify, Links
<1>3. LogInv(rows) => TamperEvident
  BY ChangesAreFound DEF LogInv, TamperEvident
<1>4. QED
  BY <1>1, <1>2, <1>3, PTL DEF AllSpec
-----------------------------------------------------------------------------
(* What a client was told, and what the log says of it. *)

Call == [by : Callers \cup {"nobody"}, line : Lines \cup {NoLine}, token : 0 .. MaxBoots,
         reply : Replies, result : Results]

\* A line is handled at most once, for the call it belongs to, and its client
\* hears of the decision only when it is made.
Heard(q) ==
    /\ Made(q) => calls[q].line \in Lines
    /\ req[q].stage # "idle" => Made(q) /\ req[q].line = calls[q].line
    /\ calls[q].reply # "none" => req[q].stage = "done"
    /\ calls[q].result \notin {"none", "error"} =>
          calls[q].reply # "none" /\ calls[q].result = ResultOf(calls[q].reply)
    /\ log[q] # "none" => req[q].stage = "done"
    /\ req[q].stage = "query" => req[q].line.op \in Reads

\* The answer is true of what happened to the transaction.
Truthful(q, reply) ==
    /\ reply = "signed" => req[q].line.op = "sign" /\ req[q].signed \in Signed
    /\ reply = "read" => req[q].line.op \in Reads
    /\ reply = "accepted" => push[q] = "applied"
    /\ reply = "rejected" => push[q] = "refused"
    /\ (reply \in {"denied", "turned_away"} /\ "journal" \notin Faults) => push[q] = "none"
    /\ reply \notin {"submitted", "relayed"}

\* A row says of its request what the client was told.
Tells(e) ==
    /\ e.request \in Requests /\ log[e.request] # "none"
    /\ calls[e.request].reply # "none"
    /\ ResultOf(Story(e)) = ResultOf(calls[e.request].reply)
    /\ e.broadcast = "accepted" => push[e.request] = "applied"
    /\ e.broadcast = "rejected" => push[e.request] = "refused"

RowsInv ==
    /\ LogInv(rows)
    /\ \A i \in DOMAIN rows : Tells(rows[i].entry)
    /\ \A i, j \in DOMAIN rows : rows[i].entry.request = rows[j].entry.request => i = j

\* A round that has begun is one of the turn's.
TurnsInv ==
    /\ turns \in [Turns -> [stage : {"unheard", "model", "tool", "more", "replied", "failed"},
                            round : 0 .. MaxToolRounds]]
    /\ \A t \in Turns : turns[t].stage \in {"tool", "more"} => turns[t].round < MaxToolRounds

CallsInv ==
    /\ calls \in [Requests -> Call]
    /\ \A q \in Requests : Heard(q) /\ Truthful(q, calls[q].reply)

AllInv == ChargeInv /\ CallsInv /\ RowsInv /\ TurnsInv

\* The lines of the clients are lines of the daemon's clients.
LEMMA LinesType ==
    ASSUME ChargeInv, CallsInv, NEW tool \in ChatTools \cup McpTools, NEW q \in Requests,
           NEW l \in LinesOf(tool, q)
    PROVE  l \in Lines
<1>1. Held \subseteq Signed
  <2>1. SUFFICES ASSUME NEW p \in Requests, calls[p].result = "ok", calls[p].line.op = "sign"
                 PROVE  req[p].signed \in Signed
    BY DEF Held
  <2>2. /\ calls[p].reply # "none" /\ "ok" = ResultOf(calls[p].reply)
        /\ req[p].line = calls[p].line /\ Truthful(p, calls[p].reply) /\ Orderly(p)
    BY <2>1 DEF CallsInv, Heard, ChargeInv
  <2>3. calls[p].reply \in {"signed", "accepted", "read"}
    BY <2>2 DEF ResultOf
  <2>4. QED
    BY <2>1, <2>2, <2>3 DEF Truthful, Orderly, Reads
<1>2. l \in LinesAt(tool, q, clock, Signed)
  <2>1. CASE tool.op \in Reads
    <3>1. tool.op # "push"
      BY <2>1 DEF Reads
    <3>2. QED
      BY <2>1, <3>1, Zenon DEF LinesOf, LinesAt
  <2>2. CASE tool.op \notin Reads /\ tool.op = "push"
    <3> DEFINE window == [asked |-> clock, expires |-> clock + Ttl]
               Line(s) == tool @@ window @@ [nonce |-> q, signed |-> s]
    <3>1. \A bytes : LinesAt(tool, q, clock, bytes) = {Line(s) : s \in bytes}
      BY <2>2, Zenon DEF LinesAt
    <3> HIDE DEF Line
    <3>2. QED
      BY <1>1, <3>1 DEF LinesOf
  <2>3. CASE tool.op \notin Reads /\ tool.op # "push"
    BY <2>3, Zenon DEF LinesOf, LinesAt
  <2>4. QED
    BY <2>1, <2>2, <2>3
<1>3. clock \in 0 .. MaxClock
  BY DEF ChargeInv, TypeOK
<1>4. QED
  BY <1>2, <1>3, ClientsAssumption

\* Rows that stay as they are still tell the story of requests that do.
LEMMA RowsKeep ==
    ASSUME RowsInv, rows' = rows,
           \A q \in Requests : log[q] # "none" =>
               /\ log'[q] = log[q] /\ calls'[q].reply = calls[q].reply
               /\ push[q] \in {"applied", "refused"} => push'[q] = push[q]
    PROVE  RowsInv'
<1>1. LogInv(rows)'
  BY DEF RowsInv, LogInv, IsLog, verify, Links
<1>2. \A i \in DOMAIN rows : Tells(rows[i].entry)'
  BY DEF RowsInv, Tells
<1>3. QED
  BY <1>1, <1>2 DEF RowsInv

\* What clients do to a call of theirs.
LEMMA ClientKeeps ==
    ASSUME ChargeInv, CallsInv, RowsInv, NEW q \in Requests, UNCHANGED <<vars, rows>>,
           \/ \E caller \in Callers, tool \in ChatTools \cup McpTools : MakeCall(caller, q, tool)
           \/ Collect(q) \/ GiveUp(q)
    PROVE  CallsInv' /\ RowsInv'
<1>1. /\ \A p \in Requests : calls[p] \in Call /\ Heard(p) /\ Truthful(p, calls[p].reply)
      /\ calls \in [Requests -> Call]
  BY DEF CallsInv
<1>2. /\ req' = req /\ push' = push /\ log' = log /\ rows' = rows
  BY DEF vars, decisions, chain
<1>3. \A c : calls' = [calls EXCEPT ![q] = c] =>
          calls'[q] = c /\ \A p \in Requests \ {q} : calls'[p] = calls[p]
  BY <1>1
<1>4. SUFFICES /\ calls'[q] \in Call /\ (\A p \in Requests \ {q} : calls'[p] = calls[p])
               /\ calls' \in [Requests -> Call]
               /\ Heard(q)' /\ Truthful(q, calls[q].reply)'
               /\ log[q] # "none" => calls'[q].reply = calls[q].reply
  <2>1. \A p \in Requests \ {q} : Heard(p)' /\ Truthful(p, calls[p].reply)'
    BY <1>1, <1>2, <1>4 DEF Heard, Truthful, Made
  <2>2. CallsInv'
    BY <1>4, <2>1 DEF CallsInv
  <2>3. RowsInv'
    BY <1>2, <1>4, RowsKeep
  <2>4. QED
    BY <2>2, <2>3
<1>5. CASE \E caller \in Callers, tool \in ChatTools \cup McpTools : MakeCall(caller, q, tool)
  <2>0. PICK caller \in Callers, tool \in ChatTools \cup McpTools : MakeCall(caller, q, tool)
    BY <1>5
  <2>1. PICK l \in LinesOf(tool, q) :
            /\ ~Made(q)
            /\ calls' = [calls EXCEPT ![q] = [NoCall EXCEPT !.by = caller, !.line = l,
                                                            !.token = TokenOf(boot)]]
    BY <2>0 DEF MakeCall
  <2> DEFINE new == [NoCall EXCEPT !.by = caller, !.line = l, !.token = TokenOf(boot)]
  <2>2. l \in Lines
    BY LinesType
  <2>3. boot \in 0 .. MaxBoots
    BY DaemonAssumption DEF ChargeInv, TypeOK
  <2>4. /\ new \in Call /\ new.line = l /\ new.reply = "none" /\ new.result = "none"
    BY <2>2, <2>3 DEF NoCall, Call, TokenOf, Replies, Answers, Results
  <2> HIDE DEF new
  <2>5. calls'[q] = new /\ (\A p \in Requests \ {q} : calls'[p] = calls[p])
        /\ calls' \in [Requests -> Call]
    BY <1>1, <1>3, <2>1, <2>4 DEF new
  <2>6. req[q].stage = "idle" /\ log[q] = "none"
    BY <1>1, <2>1 DEF Heard
  <2>7. QED
    BY <1>2, <2>2, <2>4, <2>5, <2>6 DEF Heard, Truthful, Made
<1>6. CASE Collect(q) \/ GiveUp(q)
  <2>1. PICK r : /\ calls' = [calls EXCEPT ![q].result = r] /\ Open(q)
                 /\ r = "error" \/ (r = ResultOf(calls[q].reply) /\ calls[q].reply # "none")
    BY <1>6 DEF Collect, GiveUp
  <2>2. r \in Results
    BY <2>1, Zenon DEF ResultOf, Results
  <2>3. calls' \in [Requests -> Call]
    BY <1>1, <2>1, <2>2 DEF Call
  <2>4. /\ calls'[q].by = calls[q].by /\ calls'[q].line = calls[q].line
        /\ calls'[q].reply = calls[q].reply /\ calls'[q].result = r
        /\ \A p \in Requests \ {q} : calls'[p] = calls[p]
    BY <1>1, <2>1 DEF Call
  <2>5. QED
    BY <1>1, <1>2, <2>1, <2>3, <2>4 DEF Heard, Truthful, Made
<1>7. QED
  BY <1>5, <1>6

-----------------------------------------------------------------------------
(* A step of the daemon. *)

\* What is true of an answer the moment it is written.
TrueNow(q, reply) ==
    /\ reply \in Replies \ {"submitted", "relayed"}
    /\ reply # "none" => req'[q].stage = "done"
    /\ reply = "signed" => req'[q].line.op = "sign" /\ req'[q].signed \in Signed
    /\ reply = "read" => req'[q].line.op \in Reads
    /\ reply = "accepted" => push'[q] = "applied"
    /\ reply = "rejected" => push'[q] = "refused"
    /\ (reply \in {"denied", "turned_away"} /\ "journal" \notin Faults) => push'[q] = "none"

\* The row that goes with it, if one is written.
RowFits(q, reply, outcome) ==
    /\ log'[q] # "none" /\ reply # "none"
    /\ ResultOf(IF outcome = "none" THEN log'[q] ELSE outcome) = ResultOf(reply)
    /\ outcome \in {"none", reply}

\* A step of decision q, which was not at its end, and what its client hears.
Steps(q, reply, outcome) ==
    /\ Alone(q)
    /\ req[q].stage \notin {"done", "cut"} /\ req'[q].stage # "idle"
    /\ Made(q) /\ req'[q].line = calls[q].line
    /\ req'[q].stage = "query" => req'[q].line.op \in Reads
    /\ calls' = [calls EXCEPT ![q].reply = reply]
    /\ TrueNow(q, reply)
    /\ \A p \in Requests \ {q} : log'[p] = log[p]
    /\ rows' = IF log' = log THEN rows
               ELSE append(rows, [request |-> q, decision |-> log'[q], broadcast |-> outcome])
    /\ log' # log => RowFits(q, reply, outcome)

LEMMA AppendRows ==
    ASSUME NEW rs, LogInv(rs), NEW e
    PROVE  /\ DOMAIN append(rs, e) = DOMAIN rs \cup {Len(rs) + 1}
           /\ Len(rs) + 1 \notin DOMAIN rs
           /\ append(rs, e)[Len(rs) + 1].entry = e
           /\ \A i \in DOMAIN rs : append(rs, e)[i] = rs[i]
<1> DEFINE row == NewRow(rs, e)
<1>1. PICK S : rs \in Seq(S)
  BY DEF LogInv, IsLog
<1>2. rs \in Seq(S \cup {row}) /\ append(rs, e) = Append(rs, row)
  BY <1>1 DEF append
<1>3. row.entry = e
  BY DEF NewRow
<1> HIDE DEF row
<1>4. QED
  BY <1>2, <1>3

LEMMA StepsKeep ==
    ASSUME CallsInv, RowsInv, TypeOK, TypeOK', NEW q \in Requests, NEW reply, NEW outcome,
           Steps(q, reply, outcome)
    PROVE  CallsInv' /\ RowsInv'
<1>1. /\ \A p \in Requests : Heard(p) /\ Truthful(p, calls[p].reply)
      /\ calls \in [Requests -> Call]
  BY DEF CallsInv
<1>2. /\ \A p \in Requests \ {q} : /\ req'[p] = req[p] /\ push'[p] = push[p] /\ log'[p] = log[p]
                                   /\ calls'[p] = calls[p]
  BY <1>1 DEF Steps, Alone
<1>3. /\ calls'[q].by = calls[q].by /\ calls'[q].line = calls[q].line
      /\ calls'[q].reply = reply /\ calls'[q].result = calls[q].result
      /\ calls' \in [Requests -> Call] /\ reply \in Replies
  BY <1>1 DEF Steps, TrueNow, Call
<1>4. /\ calls[q].reply = "none" /\ calls[q].result \in {"none", "error"} /\ log[q] = "none"
  BY <1>1 DEF Steps, Heard
<1>5. log'[q] # "none" => log' # log /\ req'[q].stage = "done"
  BY <1>4 DEF Steps, RowFits, TrueNow
<1>6. Heard(q)'
  BY <1>1, <1>3, <1>4, <1>5 DEF Steps, TrueNow, Heard, Made
<1>7. Truthful(q, calls[q].reply)'
  BY <1>3 DEF Steps, TrueNow, Truthful
<1>8. \A p \in Requests \ {q} : Heard(p)' /\ Truthful(p, calls[p].reply)'
  BY <1>1, <1>2 DEF Heard, Truthful, Made
<1>9. CallsInv'
  BY <1>3, <1>6, <1>7, <1>8 DEF CallsInv
<1>10. CASE log' = log
  <2>1. rows' = rows
    BY <1>10 DEF Steps
  <2>2. QED
    BY <1>2, <1>4, <1>9, <2>1, RowsKeep
<1>11. CASE log' # log
  <2>0. PICK n : n = Len(rows) + 1
    OBVIOUS
  <2>1. PICK e : e = [request |-> q, decision |-> log'[q], broadcast |-> outcome]
    OBVIOUS
  <2>2. /\ rows' = append(rows, e) /\ RowFits(q, reply, outcome)
        /\ e.request = q /\ e.decision = log'[q] /\ e.broadcast = outcome
    BY <1>11, <2>1 DEF Steps
  <2>3. LogInv(rows) /\ LogInv(append(rows, e))
    BY AppendVerifies DEF RowsInv
  <2>4. LogInv(rows)'
    BY <2>2, <2>3 DEF LogInv, IsLog, verify, Links
  <2>5. /\ DOMAIN rows' = DOMAIN rows \cup {n} /\ n \notin DOMAIN rows
        /\ rows'[n].entry = e
        /\ \A i \in DOMAIN rows : rows'[i] = rows[i]
    <3>1. /\ DOMAIN append(rows, e) = DOMAIN rows \cup {n} /\ n \notin DOMAIN rows
          /\ append(rows, e)[n].entry = e
          /\ \A i \in DOMAIN rows : append(rows, e)[i] = rows[i]
      BY <2>0, <2>3, AppendRows
    <3>2. QED
      BY <2>2, <3>1, Zenon
  <2>6. \A i \in DOMAIN rows : /\ rows[i].entry.request \in Requests \ {q}
                               /\ Tells(rows[i].entry)
    BY <1>4 DEF RowsInv, Tells
  <2>7. \A i \in DOMAIN rows : Tells(rows[i].entry)'
    BY <1>2, <2>5, <2>6 DEF Tells
  <2>8. Tells(e)'
    <3>1. ResultOf(Story(e)) = ResultOf(reply)
      BY <2>2, Zenon DEF RowFits, Story
    <3>2. outcome = "accepted" => push'[q] = "applied"
      BY <2>2 DEF RowFits, Steps, TrueNow
    <3>3. outcome = "rejected" => push'[q] = "refused"
      BY <2>2 DEF RowFits, Steps, TrueNow
    <3>4. QED
      BY <1>3, <2>2, <3>1, <3>2, <3>3 DEF Tells, RowFits
  <2>9. \A i \in DOMAIN rows' : Tells(rows[i].entry)'
    <3>1. Tells(rows[n].entry)'
      BY <2>5, <2>8 DEF Tells
    <3>2. QED
      BY <2>5, <2>7, <3>1
  <2>10. \A i, j \in DOMAIN rows' : rows'[i].entry.request = rows'[j].entry.request => i = j
    <3>1. \A i, j \in DOMAIN rows : rows[i].entry.request = rows[j].entry.request => i = j
      BY DEF RowsInv
    <3>2. QED
      BY <2>2, <2>5, <2>6, <3>1
  <2>11. QED
    BY <1>9, <2>4, <2>9, <2>10 DEF RowsInv
<1>12. QED
  BY <1>10, <1>11

\* A line that is read.
LEMMA StepOfHandle ==
    ASSUME ChargeInv, CallsInv, NEW q \in Requests, Connects(q)
    PROVE  /\ Steps(q, req'[q].answer, "none")
           /\ \E l \in Lines, token \in 0 .. MaxBoots : Handle(q, l, token)
<1> DEFINE l == calls[q].line
           token == calls[q].token
           reply == req'[q].answer
<1>1. /\ TypeOK /\ Orderly(q) /\ Heard(q) /\ Made(q)
      /\ calls[q] \in Call /\ Handle(q, l, token) /\ Answered(q, "none")
  BY DEF ChargeInv, CallsInv, Connects
<1>2. l \in Lines /\ token \in 0 .. MaxBoots
  BY <1>1 DEF Heard, Call
<1>3. Alone(q)
  BY <1>1, HandleAlone
<1>4. req[q].stage = "idle" /\ push[q] = "none"
  BY <1>1 DEF Handle, TurnAway, DenyAtGate, StartDecision, StartRelay, RefuseRead, Read,
              Arrives, Orderly
<1>5. /\ calls' = [calls EXCEPT ![q].reply = reply]
      /\ rows' = IF log' = log THEN rows
                 ELSE append(rows, [request |-> q, decision |-> log'[q], broadcast |-> "none"])
  BY <1>1, Zenon DEF Answered, EntryOf
<1>6. \A stage, answer, s : Arrived(q, l, token, stage, answer, s) =>
          req'[q].stage = stage /\ req'[q].signed = s /\ req'[q].line = l /\ req'[q].answer = answer
  BY <1>1 DEF Arrived, TypeOK
<1>7. Record(q, "denied") => /\ log' # log => log'[q] = "denied"
                             /\ \A p \in Requests \ {q} : log'[p] = log[p]
  BY <1>1 DEF Record, TypeOK
<1> HIDE DEF l, token, reply
<1>8. /\ req'[q].line = l
      /\ \/ /\ reply \in {"denied", "turned_away"} /\ req'[q].stage = "done" /\ push' = push
            /\ log' # log => log'[q] = "denied"
         \/ /\ reply = "none" /\ log' = log /\ req'[q].stage # "idle"
            /\ req'[q].stage = "query" => l.op \in Reads
         \/ /\ reply = "read" /\ log' = log /\ req'[q].stage = "done" /\ l.op \in Reads
      /\ \A p \in Requests \ {q} : log'[p] = log[p]
  <2>1. CASE TurnAway(q, l, token) \/ DenyAtGate(q, l, token)
    BY <1>6, <1>7, <2>1 DEF TurnAway, DenyAtGate, chain, reply
  <2>2. CASE StartDecision(q, l, token) \/ StartRelay(q, l, token)
    BY <1>6, <2>2 DEF StartDecision, StartRelay, reply
  <2>3. CASE RefuseRead(q, l, token) \/ Read(q, l, token)
    BY <1>6, <2>3 DEF RefuseRead, Read, chain, reply
  <2>4. QED
    BY <1>1, <2>1, <2>2, <2>3 DEF Handle
<1>9. ResultOf("denied") = ResultOf("turned_away")
  BY DEF ResultOf
<1>10. TrueNow(q, reply)
  BY <1>4, <1>8 DEF TrueNow, Replies, Answers
<1>11. log' # log => RowFits(q, reply, "none")
  BY <1>8, <1>9 DEF RowFits
<1>12. Steps(q, reply, "none")
  BY <1>1, <1>3, <1>4, <1>5, <1>8, <1>10, <1>11 DEF Steps, l
<1>13. QED
  BY <1>1, <1>2, <1>12 DEF reply

\* A decision that goes on.
LEMMA StepOfResume ==
    ASSUME ChargeInv, CallsInv, NEW q \in Requests, Resumes(q)
    PROVE  Resume(q) /\ \E reply, outcome : Steps(q, reply, outcome)
<1>1. /\ TypeOK /\ Orderly(q) /\ Heard(q)
  BY DEF ChargeInv, CallsInv
<1>2. Resume(q)
  BY DEF Resumes, Resume, Outcomes
<1>3. Alone(q) /\ req[q].stage \in Awaiting
  BY <1>1, <1>2, ResumeAlone DEF Resume, PolicyArrives, AuthorityArrives, Decide, SignerThrows,
     SignedForSubmit, SignedForClient, BroadcastReturns, RelayReturns, QueryReturns, Awaiting
<1>4. /\ req[q].stage \notin {"idle", "done", "cut"} /\ Made(q) /\ req[q].line = calls[q].line
  BY <1>1, <1>3 DEF Awaiting, Heard
<1>5. \A stage, s, answer : Becomes(q, stage, s, answer) =>
          /\ req'[q].stage = stage /\ req'[q].signed = s /\ req'[q].line = req[q].line
          /\ req'[q].answer = answer
  BY <1>1 DEF Becomes, TypeOK
<1>6. \A d : Record(q, d) => /\ log' # log => log'[q] = d
                             /\ \A p \in Requests \ {q} : log'[p] = log[p]
  BY <1>1 DEF Record, TypeOK
<1>7. \A reply, outcome :
          (/\ calls' = [calls EXCEPT ![q].reply = reply]
           /\ rows' = IF log' = log THEN rows
                      ELSE append(rows, [request |-> q, decision |-> log'[q], broadcast |-> outcome])
           /\ req'[q].stage \notin {"idle", "query"} /\ req'[q].line = req[q].line
           /\ \A p \in Requests \ {q} : log'[p] = log[p]
           /\ TrueNow(q, reply)
           /\ log' # log => RowFits(q, reply, outcome)) => Steps(q, reply, outcome)
  BY <1>3, <1>4 DEF Steps
<1>8. \A outcome : Answered(q, outcome) =>
          /\ calls' = [calls EXCEPT ![q].reply = IF outcome = "none" THEN req'[q].answer ELSE outcome]
          /\ rows' = IF log' = log THEN rows
                     ELSE append(rows, [request |-> q, decision |-> log'[q], broadcast |-> outcome])
  BY Zenon DEF Answered, EntryOf
<1> DEFINE Same == \A p \in Requests \ {q} : log'[p] = log[p]
           Denied == /\ Same /\ req'[q].stage = "done" /\ req'[q].line = req[q].line
                     /\ req'[q].answer = "denied" /\ (log' # log => log'[q] = "denied")
                     /\ "journal" \notin Faults => push'[q] = "none"
           Goes_on == /\ log' = log /\ req'[q].stage \notin {"idle", "query"} /\ req'[q].line = req[q].line
                      /\ req'[q].answer = "none"
<1>9. Deny(q) /\ ("journal" \notin Faults => push'[q] = "none") => Denied
  BY <1>5, <1>6 DEF Deny
<1>10. \A stage : Await(q, stage) /\ stage \notin {"idle", "query"} => Goes_on
  BY <1>5 DEF Await
<1>11. (Denied \/ Goes_on) /\ Answered(q, "none") => Steps(q, req'[q].answer, "none")
  <2>1. ASSUME Denied \/ Goes_on, Answered(q, "none")
        PROVE  Steps(q, req'[q].answer, "none")
    <3> DEFINE reply == req'[q].answer
    <3>1. /\ calls' = [calls EXCEPT ![q].reply = reply]
          /\ rows' = IF log' = log THEN rows
                     ELSE append(rows, [request |-> q, decision |-> log'[q], broadcast |-> "none"])
      BY <1>8, <2>1
    <3>2. TrueNow(q, reply)
      BY <2>1 DEF TrueNow, Replies, Answers
    <3>3. log' # log => RowFits(q, reply, "none")
      BY <2>1 DEF RowFits
    <3> HIDE DEF reply
    <3>4. QED
      BY <1>7, <2>1, <3>1, <3>2, <3>3 DEF reply
  <2>2. QED
    BY <2>1
<1> HIDE DEF Denied, Goes_on
<1>12. CASE /\ PolicyArrives(q) \/ AuthorityArrives(q) \/ Decide(q) \/ SignerThrows(q)
            /\ Answered(q, "none")
  <2>1. push'[q] = "none"
    BY <1>1, <1>12 DEF PolicyArrives, AuthorityArrives, Decide, SignerThrows, Orderly, chain
  <2>2. Deny(q) \/ \E stage : Await(q, stage) /\ stage \notin {"idle", "query"}
    BY <1>12 DEF PolicyArrives, AuthorityArrives, Decide, SignerThrows
  <2>3. QED
    BY <1>2, <1>9, <1>10, <1>11, <1>12, <2>1, <2>2
<1>13. CASE QueryReturns(q) /\ Answered(q, "none")
  <2>1. /\ req'[q].stage = "done" /\ req'[q].line = req[q].line /\ log' = log
        /\ req'[q].answer \in {"read", "denied"} /\ push'[q] = "none"
        /\ req[q].line.op \in Reads
    BY <1>1, <1>5, <1>13 DEF QueryReturns, chain, Orderly, Heard
  <2>2. TrueNow(q, req'[q].answer)
    BY <2>1 DEF TrueNow, Replies, Answers
  <2>3. Steps(q, req'[q].answer, "none")
    BY <1>7, <1>8, <1>13, <2>1, <2>2
  <2>4. QED
    BY <1>2, <2>3
<1>14. CASE \E s \in Signed : (SignedForSubmit(q, s) \/ SignedForClient(q, s)) /\ Answered(q, "none")
  <2>1. PICK s \in Signed : (SignedForSubmit(q, s) \/ SignedForClient(q, s)) /\ Answered(q, "none")
    BY <1>14
  <2>2. CASE SignedForSubmit(q, s)
    <3>1. Goes_on
      BY <1>5, <2>2 DEF SignedForSubmit, Goes_on
    <3>2. QED
      BY <1>2, <1>11, <2>1, <3>1
  <2>3. CASE SignedForClient(q, s) /\ Record(q, "denied") /\ Becomes(q, "done", s, "denied")
    <3>1. push'[q] = "none"
      BY <1>1, <2>3 DEF SignedForClient, Orderly, chain
    <3>2. Denied
      BY <1>5, <1>6, <2>3, <3>1 DEF Denied
    <3>3. QED
      BY <1>2, <1>11, <2>1, <3>2
  <2>4. CASE SignedForClient(q, s) /\ Record(q, "signed") /\ Becomes(q, "done", s, "signed")
    <3>1. /\ req'[q].stage = "done" /\ req'[q].line = req[q].line /\ req'[q].line.op = "sign"
          /\ req'[q].answer = "signed" /\ req'[q].signed \in Signed
          /\ log' # log => log'[q] = "signed"
          /\ \A p \in Requests \ {q} : log'[p] = log[p]
      BY <1>5, <1>6, <2>4 DEF SignedForClient
    <3>2. TrueNow(q, "signed")
      BY <3>1 DEF TrueNow, Replies, Answers
    <3>3. log' # log => RowFits(q, "signed", "none")
      BY <3>1 DEF RowFits
    <3>4. Steps(q, "signed", "none")
      BY <1>7, <1>8, <2>1, <3>1, <3>2, <3>3
    <3>5. QED
      BY <1>2, <3>4
  <2>5. QED
    BY <2>1, <2>2, <2>3, <2>4 DEF SignedForClient
<1>15. CASE \E outcome \in Outcomes(q) :
               \/ BroadcastReturns(q, outcome)
                  /\ Answered(q, IF req'[q].answer = "submitted" THEN outcome ELSE "none")
               \/ RelayReturns(q) /\ Answered(q, outcome)
  <2>1. PICK outcome \in Outcomes(q) :
               \/ BroadcastReturns(q, outcome)
                  /\ Answered(q, IF req'[q].answer = "submitted" THEN outcome ELSE "none")
               \/ RelayReturns(q) /\ Answered(q, outcome)
    BY <1>15
  <2>2. /\ outcome \in {"accepted", "rejected", "ambiguous"} /\ push' = push
        /\ outcome = "accepted" => push'[q] = "applied"
        /\ outcome = "rejected" => push'[q] = "refused"
    BY <2>1 DEF Outcomes, BroadcastReturns, RelayReturns, chain
  <2>3. CASE BroadcastReturns(q, outcome) /\ SettleThrows(q) /\ Deny(q)
    <3>1. req'[q].answer = "denied" /\ "journal" \in Faults
      BY <1>5, <2>3 DEF Deny, SettleThrows
    <3>2. Denied /\ Answered(q, "none")
      BY <1>5, <1>9, <2>1, <2>3, <3>1 DEF RelayReturns, BroadcastReturns
    <3>3. QED
      BY <1>2, <1>11, <3>2
  <2>4. CASE /\ \/ Becomes(q, "done", req[q].signed, "submitted") /\ Record(q, "signed")
                \/ Becomes(q, "done", req[q].signed, "relayed") /\ Record(q, "broadcast")
             /\ Answered(q, outcome)
    <3>1. /\ req'[q].stage = "done" /\ req'[q].line = req[q].line
          /\ log' # log => log'[q] \in {"signed", "broadcast"}
          /\ \A p \in Requests \ {q} : log'[p] = log[p]
      BY <1>5, <1>6, <2>4
    <3>2. TrueNow(q, outcome)
      BY <2>2, <3>1 DEF TrueNow, Replies
    <3>3. log' # log => RowFits(q, outcome, outcome)
      BY <2>2, <3>1 DEF RowFits
    <3>4. Steps(q, outcome, outcome)
      BY <1>7, <1>8, <2>2, <2>4, <3>1, <3>2, <3>3
    <3>5. QED
      BY <1>2, <3>4
  <2>5. QED
    BY <1>5, <2>1, <2>3, <2>4 DEF BroadcastReturns, RelayReturns
<1>16. QED
  BY <1>12, <1>13, <1>14, <1>15 DEF Resumes

-----------------------------------------------------------------------------
(* Every step. *)

LEMMA AllInvInit == AllInit => AllInv
<1>1. SUFFICES ASSUME AllInit PROVE AllInv
  OBVIOUS
<1>2. ChargeInv
  BY <1>1, ChargeInit DEF AllInit
<1>3. NoCall \in Call /\ NoCall.by = "nobody" /\ NoCall.reply = "none" /\ NoCall.result = "none"
  BY DaemonAssumption DEF NoCall, Call, Replies, Answers, Results
<1>4. CallsInv
  BY <1>1, <1>3 DEF AllInit, Init, CallsInv, Heard, Truthful, Made
<1>5. rows = <<>> /\ rows \in Seq({}) /\ DOMAIN rows = {}
  BY <1>1 DEF AllInit
<1>6. RowsInv
  BY <1>5 DEF RowsInv, LogInv, IsLog, verify
<1>7. TurnsInv
  BY <1>1, ClientsAssumption DEF AllInit, TurnsInv
<1>8. QED
  BY <1>2, <1>4, <1>6, <1>7 DEF AllInv

\* The daemon's own steps that no client waits for.
LEMMA AllElsewhere ==
    ASSUME AllInv, Elsewhere
    PROVE  AllInv'
<1>1. ChargeInv /\ CallsInv /\ RowsInv /\ TurnsInv /\ UNCHANGED <<calls, turns, rows>>
  BY DEF AllInv, Elsewhere
<1>2. ChargeInv' /\ TypeOK
  BY <1>1, ChargeElsewhere DEF Elsewhere, Aside, ChargeInv
<1>3. /\ log' = log
      /\ \A p \in Requests :
            /\ req'[p].line = req[p].line /\ req'[p].signed = req[p].signed
            /\ \/ req'[p].stage = req[p].stage
               \/ req[p].stage \in Awaiting /\ req'[p].stage = "cut"
            /\ push[p] # "sent" => push'[p] = push[p]
  <2>1. CASE Restart
    BY <1>2, <2>1, TypeRestart DEF Restart, chain
  <2>2. CASE \E q \in Requests : NodeApplies(q) \/ NodeRefuses(q)
    BY <1>2, <2>2 DEF NodeApplies, NodeRefuses, decisions, TypeOK
  <2>3. QED
    BY <2>1, <2>2 DEF Elsewhere
<1>4. \A q \in Requests : Heard(q) => Heard(q)'
  BY <1>1, <1>3 DEF Heard, Made, Awaiting
<1>5. \A q \in Requests : Truthful(q, calls[q].reply) => Truthful(q, calls[q].reply)'
  BY <1>1, <1>3 DEF Truthful
<1>6. CallsInv'
  BY <1>1, <1>4, <1>5 DEF CallsInv
<1>7. RowsInv'
  BY <1>1, <1>3, RowsKeep
<1>8. TurnsInv'
  BY <1>1 DEF TurnsInv
<1>9. QED
  BY <1>2, <1>6, <1>7, <1>8 DEF AllInv

LEMMA NothingMoves ==
    ASSUME AllInv, UNCHANGED <<vars, calls, rows>>
    PROVE  ChargeInv' /\ CallsInv' /\ RowsInv'
<1>1. ChargeInv /\ CallsInv /\ RowsInv
  BY DEF AllInv
<1>2. ChargeInv'
  BY <1>1, ChargeStutters
<1>3. req' = req /\ push' = push /\ log' = log /\ calls' = calls /\ rows' = rows
  BY DEF vars, decisions, chain
<1>4. CallsInv'
  BY <1>1, <1>3 DEF CallsInv, Heard, Truthful, Made
<1>5. RowsInv'
  BY <1>1, <1>3, RowsKeep
<1>6. QED
  BY <1>2, <1>4, <1>5

LEMMA AllStep == AllInv /\ [AllNext]_allVars => AllInv'
<1>1. SUFFICES ASSUME AllInv, [AllNext]_allVars PROVE AllInv'
  OBVIOUS
<1>2. ChargeInv /\ CallsInv /\ RowsInv /\ TurnsInv /\ TypeOK
  BY <1>1 DEF AllInv, ChargeInv
<1>3. turns' = turns => TurnsInv'
  BY <1>2 DEF TurnsInv
<1>4. ASSUME NEW q \in Requests, Connects(q) PROVE AllInv'
  <2>1. /\ Steps(q, req'[q].answer, "none")
        /\ \E l \in Lines, token \in 0 .. MaxBoots : Handle(q, l, token)
    BY <1>2, <1>4, StepOfHandle
  <2>2. ChargeInv' /\ TypeOK'
    BY <1>2, <2>1, ChargeHandle DEF ChargeInv
  <2>3. CallsInv' /\ RowsInv'
    BY <1>2, <2>1, <2>2, StepsKeep
  <2>4. QED
    BY <1>3, <1>4, <2>2, <2>3 DEF AllInv, Connects
<1>5. ASSUME NEW q \in Requests, Resumes(q) PROVE AllInv'
  <2>1. Resume(q) /\ \E reply, outcome : Steps(q, reply, outcome)
    BY <1>2, <1>5, StepOfResume
  <2>2. ChargeInv' /\ TypeOK'
    BY <1>2, <2>1, ChargeResume DEF ChargeInv
  <2>3. CallsInv' /\ RowsInv'
    BY <1>2, <2>1, <2>2, StepsKeep
  <2>4. QED
    BY <1>3, <1>5, <2>2, <2>3 DEF AllInv, Resumes
<1>6. ASSUME NEW q \in Requests, UNCHANGED <<vars, rows>>,
             \/ \E caller \in Callers, tool \in ChatTools \cup McpTools : MakeCall(caller, q, tool)
             \/ Collect(q) \/ GiveUp(q)
      PROVE  ChargeInv' /\ CallsInv' /\ RowsInv'
  BY <1>2, <1>6, ClientKeeps, ChargeStutters
<1>7. ASSUME NEW q \in Requests, McpCall(q) PROVE AllInv'
  <2>1. ChargeInv' /\ CallsInv' /\ RowsInv'
    BY <1>6, <1>7 DEF McpCall, Callers
  <2>2. QED
    BY <1>3, <1>7, <2>1 DEF AllInv, McpCall
<1>8. ASSUME NEW t \in Turns, NEW stage \in {"model", "tool", "more", "replied", "failed"},
             Goes(t, stage),
             stage \in {"tool", "more"} => turns[t].round < MaxToolRounds
      PROVE  TurnsInv'
  BY <1>2, <1>8 DEF Goes, TurnsInv
<1>9. ASSUME NEW t \in Turns, Hear(t) \/ Reply(t) \/ Fail(t) PROVE AllInv'
  <2>1. UNCHANGED <<vars, calls, rows>>
    BY <1>9 DEF Hear, Reply, Fail
  <2>2. TurnsInv'
    BY <1>8, <1>9 DEF Hear, Reply, Fail
  <2>3. QED
    BY <1>1, <2>1, <2>2, NothingMoves DEF AllInv
<1>10. ASSUME NEW t \in Turns, NextRound(t) PROVE AllInv'
  <2>1. turns[t].stage = "more" /\ turns[t].round \in 0 .. MaxToolRounds
        /\ turns[t].round < MaxToolRounds
    BY <1>2, <1>10 DEF NextRound, TurnsInv
  <2>2. turns[t].round + 1 \in 0 .. MaxToolRounds
    BY <2>1, ClientsAssumption
  <2>3. turns' = [turns EXCEPT ![t].stage = "model", ![t].round = turns[t].round + 1]
    BY <1>2, <1>10 DEF NextRound, TurnsInv
  <2>4. TurnsInv'
    BY <1>2, <2>2, <2>3 DEF TurnsInv
  <2>5. QED
    BY <1>1, <1>10, <2>4, NothingMoves DEF NextRound, AllInv
<1>11. ASSUME NEW t \in Turns, NEW q \in Requests, CallTool(t, q) \/ ToolReturns(t, q)
       PROVE  AllInv'
  <2>1. ChargeInv' /\ CallsInv' /\ RowsInv'
    BY <1>6, <1>11 DEF CallTool, ToolReturns, Callers
  <2>2. TurnsInv'
    BY <1>2, <1>8, <1>11 DEF CallTool, ToolReturns, RoundsLeft, TurnsInv
  <2>3. QED
    BY <2>1, <2>2 DEF AllInv
<1>12. CASE UNCHANGED allVars
  BY <1>1, <1>3, <1>12, NothingMoves DEF allVars, AllInv
<1>13. QED
  BY <1>1, <1>4, <1>5, <1>7, <1>9, <1>10, <1>11, <1>12, AllElsewhere DEF AllNext, TurnGoesOn

-----------------------------------------------------------------------------
\* The kinds of calls, turns and rounds, and one row at most for a request
\* (llm.ts, respond(); server.ts, recordAudit()).
THEOREM TurnsTypes == AllSpec => []TurnsTypeOK
<1>1. ASSUME AllInv PROVE TurnsTypeOK
  <2>1. \A q \in Requests : calls[q] \in Call
    BY <1>1 DEF AllInv, CallsInv
  <2>2. Len(rows) <= Cardinality(Requests)
    <3> DEFINE n == Len(rows)
               of == [i \in 1 .. n |-> rows[i].entry.request]
    <3>1. n \in Nat /\ DOMAIN rows = 1 .. n
      BY <1>1 DEF AllInv, RowsInv, LogInv, IsLog
    <3>2. of \in Injection(1 .. n, Requests)
      BY <1>1, <3>1 DEF AllInv, RowsInv, Tells, Injection, IsInjective
    <3> HIDE DEF n, of
    <3>3. IsFiniteSet(1 .. n) /\ Cardinality(1 .. n) = n
      BY <3>1, FS_Interval
    <3>4. n <= Cardinality(Requests)
      BY <3>2, <3>3, RequestsAssumption, FS_Injection
    <3>5. QED
      BY <3>4 DEF n
  <2>3. QED
    BY <1>1, <2>1, <2>2 DEF TurnsTypeOK, AllInv, TurnsInv, Call
<1>2. QED
  BY <1>1, AllInvInit, AllStep, PTL DEF AllSpec

\* What the model and a script are told of a transaction is what happened to
\* it, if the journal can be written (llm.ts, "never claim success unless
\* ok:true").
THEOREM ResultsAreTrue ==
    ASSUME "journal" \notin Faults
    PROVE  AllSpec => []ToolResultIsTrue
<1>1. ASSUME AllInv PROVE ToolResultIsTrue
  <2>1. SUFFICES ASSUME NEW q \in Requests
                 PROVE  /\ (calls[q].result = "ok" /\ calls[q].line.op \in {"submit", "push"})
                              => push[q] = "applied"
                        /\ calls[q].result = "rejected" => push[q] = "refused"
                        /\ calls[q].result = "denied" => push[q] = "none"
    BY DEF ToolResultIsTrue
  <2> DEFINE reply == calls[q].reply
  <2>2. Heard(q) /\ Truthful(q, reply) /\ calls[q] \in Call
    BY <1>1 DEF AllInv, CallsInv
  <2>3. reply # "none" => req[q].line = calls[q].line
    BY <2>2 DEF Heard
  <2>4. calls[q].result \notin {"none", "error"} => reply # "none" /\ calls[q].result = ResultOf(reply)
    BY <2>2 DEF Heard
  <2>5. reply \in Replies
    BY <2>2 DEF Call
  <2> HIDE DEF reply
  <2>6. /\ ResultOf(reply) = "ok" => reply \in {"signed", "accepted", "read"}
        /\ ResultOf(reply) = "rejected" => reply = "rejected"
        /\ (ResultOf(reply) = "denied" /\ reply # "none") => reply \in {"denied", "turned_away", "submitted", "relayed"}
    BY <2>5 DEF ResultOf, Replies, Answers
  <2>7. QED
    BY <2>2, <2>3, <2>4, <2>6 DEF Truthful, Reads
<1>2. QED
  BY <1>1, AllInvInit, AllStep, PTL DEF AllSpec

\* The log and the clients hear the same story, once for each request
\* (server.ts, recordAudit() and recordBroadcastAudit()).
THEOREM LogAgreesWithClients == AllSpec => []LogTellsTheSameStory
<1>1. ASSUME AllInv PROVE LogTellsTheSameStory
  <2>1. /\ \A i \in DOMAIN rows : Tells(rows[i].entry)
        /\ \A i, j \in DOMAIN rows : rows[i].entry.request = rows[j].entry.request => i = j
        /\ \A q \in Requests : Heard(q)
    BY <1>1 DEF AllInv, RowsInv, CallsInv
  <2>2. QED
    BY <2>1 DEF LogTellsTheSameStory, Tells, Heard
<1>2. QED
  BY <1>1, AllInvInit, AllStep, PTL DEF AllSpec
=============================================================================
