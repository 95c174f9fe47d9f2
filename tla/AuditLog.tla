------------------------------ MODULE AuditLog ------------------------------
(***************************************************************************)
(* The hash-chained audit log (src/daemon/auditLog.ts), as operators on    *)
(* the sequence of its rows in the order of their primary key.             *)
(*                                                                         *)
(* SHA-256 of the canonical form is taken to be injective: the digest of a *)
(* row is the tuple of what is hashed.  Of an entry it keeps the request,  *)
(* the decision and the outcome of a broadcast.                            *)
(***************************************************************************)
EXTENDS Naturals, Sequences

Genesis == <<>>

\* Absent fields are hashed as null, an absent broadcast not at all: the two
\* readings of an entry, before and after it was stored, have one digest.
computeHash(seq, prevHash, entry) == <<seq, prevHash, entry>>

lastHash(rows) == IF rows = <<>> THEN Genesis ELSE rows[Len(rows)].entryHash

NewRow(rows, entry) ==
    [seq       |-> Len(rows) + 1,
     prevHash  |-> lastHash(rows),
     entry     |-> entry,
     entryHash |-> computeHash(Len(rows) + 1, lastHash(rows), entry)]

append(rows, entry) == Append(rows, NewRow(rows, entry))

\* (mutant) each row is checked by itself
LinksItself(rows, i) ==
    /\ rows[i].seq = i
    /\ rows[i].entryHash = computeHash(rows[i].seq, rows[i].prevHash, rows[i].entry)

\* What verify() asks of row i of a log it walks from the first row on.
Links(rows, i) ==
    /\ rows[i].seq = i
    /\ rows[i].prevHash = (IF i = 1 THEN Genesis ELSE rows[i - 1].entryHash)
    /\ rows[i].entryHash = computeHash(rows[i].seq, rows[i].prevHash, rows[i].entry)

verify(rows) == \A i \in DOMAIN rows : Links(rows, i)

-----------------------------------------------------------------------------
(* One change to the file behind the daemon's back. *)

Edited(rows, i, row) == [rows EXCEPT ![i] = row]
Deleted(rows, i) == SubSeq(rows, 1, i - 1) \o SubSeq(rows, i + 1, Len(rows))
Inserted(rows, i, row) == SubSeq(rows, 1, i - 1) \o <<row>> \o SubSeq(rows, i, Len(rows))

\* A new content for row i, its digest recomputed to fit.
Forged(rows, i, entry) ==
    [rows[i] EXCEPT !.entry = entry,
                    !.entryHash = computeHash(rows[i].seq, rows[i].prevHash, entry)]

\* Any change of a row that has a successor is found: an edit, even one that
\* makes the row's own digest fit, a removal, an insertion.
TamperEvidentFor(rows, entries) ==
    \A i \in 1 .. Len(rows) - 1 :
        /\ \A e \in entries : e # rows[i].entry => ~verify(Edited(rows, i, Forged(rows, i, e)))
        /\ ~verify(Deleted(rows, i))
        /\ \A e \in entries : ~verify(Inserted(rows, i, Forged(rows, i, e)))
=============================================================================
