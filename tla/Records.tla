-------------------------------- MODULE Records --------------------------------
(***************************************************************************)
(* POST and PATCH of contracts and milestones (app/main.py).  A PATCH      *)
(* reads the row, updates the columns the body names                       *)
(* (apply_partial_update), reads the row again and writes both to the      *)
(* audit log; a POST inserts the row, reads it and writes it there.        *)
(* Nothing locks the row before the UPDATE.  The two tables have the same  *)
(* handlers; here they work on one row, with the contract's dates.         *)
(*                                                                         *)
(* Each request is one database transaction; its statements interleave     *)
(* with those of others, and an UPDATE works on the row as it is when it   *)
(* gets the row's lock.                                                    *)
(*                                                                         *)
(* Abstractions.  Values are numbers, of which Null is one; dates are      *)
(* ordered like their numbers.  A body for which the client or the         *)
(* contract is missing fails like one the constraints refuse.              *)
(***************************************************************************)
EXTENDS Integers

CONSTANTS
    Requests,  \* requests, one PATCH each but for
    Maker,     \* the one that creates the row
    Nobody,    \* no request
    Payloads,  \* what model_dump(exclude_unset=True) may return
    Drafts,    \* what a creation may insert, defaults included
    Depth      \* the largest value a column takes (a bound of the model)

Columns == {"title", "status", "start_date", "end_date"}
Null == 0
Values == 0 .. Depth

\* NOT NULL, and CHECK (end_date IS NULL OR start_date IS NULL OR
\* end_date >= start_date).
Allowed(row) ==
    /\ row["title"] # Null /\ row["status"] # Null
    /\ \/ row["start_date"] = Null
       \/ row["end_date"] = Null
       \/ row["end_date"] >= row["start_date"]

Rows == {row \in [Columns -> Values] : Allowed(row)}

\* What is found before the row is there.
NoRow == [c \in Columns |-> Null]
Found == Rows \union {NoRow}

ASSUME NobodyAssumption == Nobody \notin Requests
ASSUME MakerAssumption == Maker \in Requests
ASSUME DepthAssumption == Depth \in Nat
ASSUME PayloadsAssumption ==
    \A payload \in Payloads :
        DOMAIN payload \subseteq Columns /\ \A c \in DOMAIN payload : payload[c] \in Values
ASSUME DraftsAssumption == Drafts \subseteq [Columns -> Values]

VARIABLES
    row,       \* the committed row
    rowLock,   \* who has inserted or updated it and not ended
    audit,     \* the committed audit rows about it
    auditSeq,  \* the last value of the sequence behind audit_log.id
    pc,        \* where each request is
    patch,     \* its payload
    before,    \* the row it read first
    after,     \* the row it read last
    entry      \* its uncommitted audit row, as a set

vars == <<row, rowLock, audit, auditSeq, pc, patch, before, after, entry>>

Merged(old, payload) ==
    [c \in Columns |-> IF c \in DOMAIN payload THEN payload[c] ELSE old[c]]

AuditRow == [id : Nat, by : Requests, before : Found, after : Found]

Active == {"update", "reread", "log", "commit"}
Ended == {"missing", "refused", "done", "lost"}

-----------------------------------------------------------------------------
Init ==
    /\ row = NoRow
    /\ rowLock = Nobody
    /\ audit = {}
    /\ auditSeq = 0
    /\ pc = [r \in Requests |-> "idle"]
    /\ patch \in {p \in [Requests -> Payloads \union Drafts] :
                     \A r \in Requests : p[r] \in IF r = Maker THEN Drafts ELSE Payloads}
    /\ before = [r \in Requests |-> NoRow]
    /\ after = [r \in Requests |-> NoRow]
    /\ entry = [r \in Requests |-> {}]

\* The INSERT of a creation, which nobody sees before the commit.
Insert(r) ==
    /\ pc[r] = "idle"
    /\ r = Maker
    /\ Allowed(patch[r])
    /\ rowLock' = r
    /\ pc' = [pc EXCEPT ![r] = "reread"]
    /\ UNCHANGED <<row, audit, auditSeq, patch, before, after, entry>>

InsertRefused(r) ==
    /\ pc[r] = "idle"
    /\ r = Maker
    /\ ~Allowed(patch[r])
    /\ pc' = [pc EXCEPT ![r] = "refused"]
    /\ UNCHANGED <<row, rowLock, audit, auditSeq, patch, before, after, entry>>

\* fetch_row_as_dict, and the 404.
ReadBefore(r) ==
    /\ pc[r] = "idle"
    /\ r # Maker
    /\ before' = [before EXCEPT ![r] = row]
    /\ pc' = [pc EXCEPT ![r] = IF row = NoRow THEN "missing" ELSE "update"]
    /\ UNCHANGED <<row, rowLock, audit, auditSeq, patch, after, entry>>

\* No column, no statement and no lock.
UpdateNothing(r) ==
    /\ pc[r] = "update"
    /\ DOMAIN patch[r] = {}
    /\ pc' = [pc EXCEPT ![r] = "reread"]
    /\ UNCHANGED <<row, rowLock, audit, auditSeq, patch, before, after, entry>>

RowFree(r) == rowLock \in {Nobody, r}

\* Mutants: the constraints are checked in the handler, on the row it read;
\* the handler writes all columns back.
CheckedBefore(r) == Merged(before[r], patch[r])

WrittenBack(r) == IF DOMAIN patch[r] = {} THEN row ELSE Merged(before[r], patch[r])

\* The row that the constraints are checked on, and the one that is stored:
\* what a creation inserts is merged into nothing.
CheckedRow(r) == Merged(row, patch[r])

NewRow(r) == Merged(row, patch[r])

\* Mutant: every statement commits (autocommit).
UpdateAutocommit(r) ==
    /\ pc[r] = "update"
    /\ DOMAIN patch[r] # {}
    /\ RowFree(r)
    /\ Allowed(CheckedRow(r))
    /\ row' = NewRow(r)
    /\ pc' = [pc EXCEPT ![r] = "reread"]
    /\ UNCHANGED <<rowLock, audit, auditSeq, patch, before, after, entry>>

UpdateRow(r) ==
    /\ pc[r] = "update"
    /\ DOMAIN patch[r] # {}
    /\ RowFree(r)
    /\ Allowed(CheckedRow(r))
    /\ rowLock' = r
    /\ pc' = [pc EXCEPT ![r] = "reread"]
    /\ UNCHANGED <<row, audit, auditSeq, patch, before, after, entry>>

\* Mutant: the connection of a failed request stays open.
LockLeaked(r, outcome) ==
    /\ entry' = [entry EXCEPT ![r] = {}]
    /\ pc' = [pc EXCEPT ![r] = outcome]
    /\ UNCHANGED <<row, rowLock, audit, auditSeq, patch, before, after>>

\* get_db's rollback.
Rollback(r, outcome) ==
    /\ rowLock' = IF rowLock = r THEN Nobody ELSE rowLock
    /\ entry' = [entry EXCEPT ![r] = {}]
    /\ pc' = [pc EXCEPT ![r] = outcome]
    /\ UNCHANGED <<row, audit, auditSeq, patch, before, after>>

UpdateRefused(r) ==
    /\ pc[r] = "update"
    /\ DOMAIN patch[r] # {}
    /\ RowFree(r)
    /\ ~Allowed(CheckedRow(r))
    /\ Rollback(r, "refused")

\* Mutant: after is made of what was read before, as the invoice endpoints do
\* under their lock.
AssumedAfter(r) == Merged(before[r], patch[r])

\* A request sees its own uncommitted row and otherwise the committed one.
SeenAfter(r) == IF rowLock = r THEN NewRow(r) ELSE row

ReadAfter(r) ==
    /\ pc[r] = "reread"
    /\ after' = [after EXCEPT ![r] = SeenAfter(r)]
    /\ pc' = [pc EXCEPT ![r] = "log"]
    /\ UNCHANGED <<row, rowLock, audit, auditSeq, patch, before, entry>>

Log(r) ==
    /\ pc[r] = "log"
    /\ auditSeq' = auditSeq + 1
    /\ entry' = [entry EXCEPT ![r] =
          {[id |-> auditSeq', by |-> r, before |-> before[r], after |-> after[r]]}]
    /\ pc' = [pc EXCEPT ![r] = "commit"]
    /\ UNCHANGED <<row, rowLock, audit, patch, before, after>>

Commit(r) ==
    /\ pc[r] = "commit"
    /\ row' = NewRow(r)
    /\ audit' = audit \union entry[r]
    /\ rowLock' = IF rowLock = r THEN Nobody ELSE rowLock
    /\ entry' = [entry EXCEPT ![r] = {}]
    /\ pc' = [pc EXCEPT ![r] = "done"]
    /\ UNCHANGED <<auditSeq, patch, before, after>>

\* The handler raises, or its connection is lost.
Abort(r) ==
    /\ pc[r] \in Active
    /\ Rollback(r, "lost")

Step(r) == \/ UpdateNothing(r)
           \/ UpdateRow(r)
           \/ UpdateRefused(r)
           \/ ReadAfter(r)
           \/ Log(r)
           \/ Commit(r)

Terminating ==
    /\ \A r \in Requests : pc[r] \in Ended
    /\ UNCHANGED vars

Next == \/ \E r \in Requests : \/ Insert(r) \/ InsertRefused(r)
                               \/ ReadBefore(r) \/ Step(r) \/ Abort(r)
        \/ Terminating

Spec == Init /\ [][Next]_vars

\* A handler that has begun goes on; only the row's lock can hold it.
FairSpec == Spec /\ \A r \in Requests : WF_vars(Step(r))

-----------------------------------------------------------------------------
(* Properties *)

\* With the table's constraints: no sequence of updates, each checked on the
\* row it changes, leaves a title out or puts the end before the start.
ConstraintsHold ==
    /\ row \in Found
    /\ rowLock \in Requests \union {Nobody}
    /\ audit \subseteq AuditRow
    /\ auditSeq \in Nat
    /\ pc \in [Requests -> {"idle"} \union Active \union Ended]
    /\ patch \in [Requests -> Payloads \union Drafts]
    /\ \A r \in Requests : patch[r] \in IF r = Maker THEN Drafts ELSE Payloads
    /\ before \in [Requests -> Found]
    /\ after \in [Requests -> Found]
    /\ entry \in [Requests -> SUBSET AuditRow]

Updates == INSTANCE PartialUpdates

\* Every commit creates the row, once, or is a PATCH of it as it is at that
\* moment: no update of another column, committed in between, is lost.
ImplementsPartialUpdates == Updates!Spec

\* The rows of the audit log that are about a creation or an update, not
\* about an empty body.
Changes == {a \in audit : DOMAIN patch[a.by] # {}}

\* The newest of them ends at the row as it is now, which is there only if it
\* says so.
AuditEndsAtRow ==
    IF Changes = {} THEN row = NoRow
    ELSE \E a \in Changes : (\A b \in Changes : b.id <= a.id) /\ a.after = row

\* An audit row may show a change that is not its actor's, since a PATCH reads
\* before and after without a lock on the row in between.  Such a change can
\* be traced: an earlier audit row, of the one who made it, shows the same
\* value.
ChangesTraceable ==
    \A a \in audit : \A c \in Columns :
        (a.before[c] # a.after[c] /\ c \notin DOMAIN patch[a.by]) =>
            \E b \in audit :
                b.id < a.id /\ c \in DOMAIN patch[b.by] /\ b.after[c] = a.after[c]

\* Updates queue behind the row, and each of them ends.
PatchesEnd == \A r \in Requests : pc[r] \in Active ~> pc[r] \in Ended
=============================================================================
