----------------------------- MODULE RecordsProofs -----------------------------
(* Theorems about Records, for any requests and payloads. *)
EXTENDS Records, TLAPS

\* Who holds the row's lock has found its update allowed on the row, which
\* cannot change before it ends; an update past that point holds the lock or
\* changes nothing.
HolderInv ==
    /\ rowLock # Nobody => Allowed(NewRow(rowLock)) /\ pc[rowLock] \in Active
    /\ \A r \in Requests :
          pc[r] \in {"reread", "log", "commit"} =>
              rowLock = r \/ (r # Maker /\ DOMAIN patch[r] = {})

\* A PATCH that has got past its 404 works on a row that is there; until the
\* creation ends nobody else does anything.
PresenceInv ==
    /\ \A r \in Requests : r # Maker /\ pc[r] \in Active => row # NoRow
    /\ pc[Maker] \in {"idle"} \union Active => row = NoRow /\ pc[Maker] # "update"

RecordInv == ConstraintsHold /\ HolderInv /\ PresenceInv

-----------------------------------------------------------------------------
(* Facts about payloads and rows *)

LEMMA MergedTyping ==
    ASSUME NEW old \in [Columns -> Values], NEW payload \in Payloads \union Drafts
    PROVE  Merged(old, payload) \in [Columns -> Values]
<1>1. CASE payload \in Payloads
  BY <1>1, PayloadsAssumption DEF Merged
<1>2. CASE payload \in Drafts
  BY <1>2, DraftsAssumption DEF Merged
<1>3. QED
  BY <1>1, <1>2

\* Nothing, with a whole row merged into it, is that row.
LEMMA MergedDraft ==
    ASSUME NEW old \in [Columns -> Values], NEW draft \in Drafts
    PROVE  Merged(old, draft) = draft
<1>1. draft \in [Columns -> Values]
  BY DraftsAssumption
<1>2. Merged(old, draft) = [c \in Columns |-> draft[c]]
  BY <1>1 DEF Merged
<1>3. QED
  BY <1>1, <1>2

LEMMA FoundTyping ==
    /\ Found \subseteq [Columns -> Values]
    /\ NoRow \notin Rows
<1>1. NoRow \in [Columns -> Values]
  BY DepthAssumption DEF NoRow, Values, Null
<1>2. ~Allowed(NoRow)
  BY DEF Allowed, NoRow, Columns
<1>3. QED
  BY <1>1, <1>2 DEF Found, Rows

\* Without columns nothing is merged.
LEMMA MergedNothing ==
    ASSUME NEW old \in [Columns -> Values], NEW payload, DOMAIN payload = {}
    PROVE  Merged(old, payload) = old
<1>1. \A c \in Columns : Merged(old, payload)[c] = old[c]
  BY DEF Merged
<1>2. Merged(old, payload) = [c \in Columns |-> old[c]]
  BY DEF Merged
<1>3. old = [c \in Columns |-> old[c]]
  OBVIOUS
<1>4. QED
  BY <1>2, <1>3

\* What a request that may commit is going to store is a row.
LEMMA NewRowTyping ==
    ASSUME RecordInv, NEW r \in Requests, pc[r] \in {"reread", "log", "commit"}
    PROVE  NewRow(r) \in Rows
<1>1. row \in [Columns -> Values] /\ patch[r] \in Payloads \union Drafts
  BY FoundTyping DEF RecordInv, ConstraintsHold
<1>2. CASE rowLock = r
  <2>1. Allowed(NewRow(r))
    BY <1>2, NobodyAssumption DEF RecordInv, HolderInv
  <2>2. QED
    BY <1>1, <2>1, MergedTyping DEF NewRow, Rows
<1>3. CASE rowLock # r
  <2>1. DOMAIN patch[r] = {} /\ r # Maker
    BY <1>3 DEF RecordInv, HolderInv
  <2>2. row \in Rows
    BY <2>1 DEF RecordInv, ConstraintsHold, PresenceInv, Found, Active
  <2>3. QED
    BY <1>1, <2>1, <2>2, MergedNothing DEF NewRow
<1>4. QED
  BY <1>2, <1>3

-----------------------------------------------------------------------------
(* The invariant *)

LEMMA InitRecord == Init => RecordInv
<1> SUFFICES ASSUME Init PROVE RecordInv
  OBVIOUS
<1>1. ConstraintsHold
  BY DEF Init, ConstraintsHold, Found
<1>2. HolderInv
  BY DEF Init, HolderInv
<1>3. PresenceInv
  BY MakerAssumption DEF Init, PresenceInv, Active
<1>4. QED
  BY <1>1, <1>2, <1>3 DEF RecordInv

LEMMA StepTyping == RecordInv /\ [Next]_vars => ConstraintsHold'
<1> SUFFICES ASSUME RecordInv, [Next]_vars PROVE ConstraintsHold'
  OBVIOUS
<1>0. ConstraintsHold
  BY DEF RecordInv
<1> USE DEF Active, Ended
<1>0a. ASSUME NEW r \in Requests, Insert(r) \/ InsertRefused(r) PROVE ConstraintsHold'
  BY <1>0, <1>0a DEF ConstraintsHold, Insert, InsertRefused
<1>1. ASSUME NEW r \in Requests, ReadBefore(r) PROVE ConstraintsHold'
  BY <1>0, <1>1 DEF ConstraintsHold, ReadBefore
<1>2. ASSUME NEW r \in Requests, UpdateNothing(r) PROVE ConstraintsHold'
  BY <1>0, <1>2 DEF ConstraintsHold, UpdateNothing
<1>3. ASSUME NEW r \in Requests, UpdateRow(r) PROVE ConstraintsHold'
  BY <1>0, <1>3 DEF ConstraintsHold, UpdateRow
<1>4. ASSUME NEW r \in Requests, UpdateRefused(r) PROVE ConstraintsHold'
  BY <1>0, <1>4 DEF ConstraintsHold, UpdateRefused, Rollback
<1>5. ASSUME NEW r \in Requests, ReadAfter(r) PROVE ConstraintsHold'
  <2>1. NewRow(r) \in Rows
    BY <1>5, NewRowTyping DEF ReadAfter
  <2>2. SeenAfter(r) \in Found
    BY <1>0, <2>1 DEF SeenAfter, ConstraintsHold, Found
  <2>3. QED
    BY <1>0, <1>5, <2>2 DEF ConstraintsHold, ReadAfter
<1>6. ASSUME NEW r \in Requests, Log(r) PROVE ConstraintsHold'
  <2>1. auditSeq' \in Nat
    BY <1>0, <1>6 DEF ConstraintsHold, Log
  <2>2. [id |-> auditSeq', by |-> r, before |-> before[r], after |-> after[r]] \in AuditRow
    BY <1>0, <2>1 DEF ConstraintsHold, AuditRow
  <2>3. QED
    BY <1>0, <1>6, <2>1, <2>2 DEF ConstraintsHold, Log
<1>7. ASSUME NEW r \in Requests, Commit(r) PROVE ConstraintsHold'
  <2>1. NewRow(r) \in Rows
    BY <1>7, NewRowTyping DEF Commit
  <2>2. QED
    BY <1>0, <1>7, <2>1 DEF ConstraintsHold, Commit, Found
<1>8. ASSUME NEW r \in Requests, Abort(r) PROVE ConstraintsHold'
  BY <1>0, <1>8 DEF ConstraintsHold, Abort, Rollback
<1>9. CASE UNCHANGED vars
  BY <1>0, <1>9 DEF ConstraintsHold, vars
<1>10. QED
  BY <1>0a, <1>1, <1>2, <1>3, <1>4, <1>5, <1>6, <1>7, <1>8, <1>9 DEF Next, Step, Terminating

\* A commit that changes the row is by the holder of the lock.
LEMMA CommitKeepsRow ==
    ASSUME RecordInv, NEW r \in Requests, Commit(r), rowLock # r
    PROVE  row' = row
<1>1. DOMAIN patch[r] = {}
  BY DEF Commit, RecordInv, HolderInv
<1>2. row \in [Columns -> Values]
  BY FoundTyping DEF RecordInv, ConstraintsHold
<1>3. QED
  BY <1>1, <1>2, MergedNothing DEF Commit, NewRow

LEMMA StepHolder == RecordInv /\ [Next]_vars => HolderInv'
<1> SUFFICES ASSUME RecordInv, [Next]_vars PROVE HolderInv'
  OBVIOUS
<1>0. ConstraintsHold /\ HolderInv
  BY DEF RecordInv
<1> USE NobodyAssumption DEF Active, NewRow
<1>0a. ASSUME NEW r \in Requests, Insert(r) \/ InsertRefused(r) PROVE HolderInv'
  <2>1. CASE InsertRefused(r)
    BY <1>0, <2>1 DEF ConstraintsHold, HolderInv, InsertRefused
  <2>2. CASE Insert(r)
    <3>1. Merged(row, patch[r]) = patch[r]
      BY <1>0, <2>2, FoundTyping, MergedDraft DEF ConstraintsHold, Insert
    <3>2. row' = row /\ patch' = patch /\ rowLock' = r /\ Allowed(patch[r])
      BY <2>2 DEF Insert
    <3>3. \A q \in Requests : pc'[q] = IF q = r THEN "reread" ELSE pc[q]
      BY <1>0, <2>2 DEF ConstraintsHold, Insert
    <3>4. rowLock = Nobody
      BY <1>0, <2>2, MakerAssumption DEF RecordInv, PresenceInv, ConstraintsHold, HolderInv, Insert
    <3>5. QED
      BY <1>0, <3>1, <3>2, <3>3, <3>4 DEF ConstraintsHold, HolderInv
  <2>3. QED
    BY <1>0a, <2>1, <2>2
<1>1. ASSUME NEW r \in Requests, ReadBefore(r) PROVE HolderInv'
  BY <1>0, <1>1 DEF ConstraintsHold, HolderInv, ReadBefore
<1>2. ASSUME NEW r \in Requests, UpdateNothing(r) PROVE HolderInv'
  <2>1. r # Maker
    BY <1>2, MakerAssumption DEF RecordInv, PresenceInv, UpdateNothing
  <2>2. QED
    BY <1>0, <1>2, <2>1 DEF ConstraintsHold, HolderInv, UpdateNothing
<1>3. ASSUME NEW r \in Requests, UpdateRow(r) PROVE HolderInv'
  BY <1>0, <1>3 DEF ConstraintsHold, HolderInv, UpdateRow, RowFree, CheckedRow
<1>4. ASSUME NEW r \in Requests, UpdateRefused(r) PROVE HolderInv'
  BY <1>0, <1>4 DEF ConstraintsHold, HolderInv, UpdateRefused, Rollback
<1>5. ASSUME NEW r \in Requests, ReadAfter(r) PROVE HolderInv'
  BY <1>0, <1>5 DEF ConstraintsHold, HolderInv, ReadAfter
<1>6. ASSUME NEW r \in Requests, Log(r) PROVE HolderInv'
  BY <1>0, <1>6 DEF ConstraintsHold, HolderInv, Log
<1>7. ASSUME NEW r \in Requests, Commit(r) PROVE HolderInv'
  <2>1. CASE rowLock = r
    BY <1>0, <1>7, <2>1 DEF ConstraintsHold, HolderInv, Commit
  <2>2. CASE rowLock # r
    <3>1. row' = row /\ rowLock' = rowLock
      BY <1>7, <2>2, CommitKeepsRow DEF Commit
    <3>2. QED
      BY <1>0, <1>7, <2>2, <3>1 DEF ConstraintsHold, HolderInv, Commit
  <2>3. QED
    BY <2>1, <2>2
<1>8. ASSUME NEW r \in Requests, Abort(r) PROVE HolderInv'
  BY <1>0, <1>8 DEF ConstraintsHold, HolderInv, Abort, Rollback
<1>9. CASE UNCHANGED vars
  BY <1>0, <1>9 DEF HolderInv, vars
<1>10. QED
  BY <1>0a, <1>1, <1>2, <1>3, <1>4, <1>5, <1>6, <1>7, <1>8, <1>9 DEF Next, Step, Terminating

LEMMA StepPresence == RecordInv /\ [Next]_vars => PresenceInv'
<1> SUFFICES ASSUME RecordInv, [Next]_vars PROVE PresenceInv'
  OBVIOUS
<1>0. ConstraintsHold /\ HolderInv /\ PresenceInv
  BY DEF RecordInv
<1> USE MakerAssumption DEF Active, Ended
<1>1. ASSUME NEW r \in Requests, Commit(r) PROVE PresenceInv'
  <2>1. row' # NoRow
    BY <1>1, NewRowTyping, FoundTyping DEF Commit
  <2>2. r # Maker => pc[Maker] \notin {"idle"} \union Active
    BY <1>0, <1>1 DEF PresenceInv, Commit
  <2>3. QED
    BY <1>0, <1>1, <2>1, <2>2 DEF PresenceInv, ConstraintsHold, Commit
<1>2. ASSUME NEW r \in Requests, Insert(r) \/ InsertRefused(r) \/ ReadBefore(r)
      PROVE  PresenceInv'
  BY <1>0, <1>2 DEF PresenceInv, ConstraintsHold, Insert, InsertRefused, ReadBefore
<1>3. ASSUME NEW r \in Requests, UpdateNothing(r) \/ UpdateRow(r) \/ UpdateRefused(r)
      PROVE  PresenceInv'
  BY <1>0, <1>3 DEF PresenceInv, ConstraintsHold, UpdateNothing, UpdateRow, UpdateRefused, Rollback
<1>4. ASSUME NEW r \in Requests, ReadAfter(r) \/ Log(r) \/ Abort(r)
      PROVE  PresenceInv'
  BY <1>0, <1>4 DEF PresenceInv, ConstraintsHold, ReadAfter, Log, Abort, Rollback
<1>5. CASE UNCHANGED vars
  BY <1>0, <1>5 DEF PresenceInv, vars
<1>6. QED
  BY <1>1, <1>2, <1>3, <1>4, <1>5 DEF Next, Step, Terminating

LEMMA StepRecord == RecordInv /\ [Next]_vars => RecordInv'
BY StepTyping, StepHolder, StepPresence DEF RecordInv

\* Every variable keeps its type, the row with the table's constraints: no
\* interleaving of updates stores a row that they do not allow.
THEOREM ConstraintsKept == Spec => []ConstraintsHold
<1>1. RecordInv => ConstraintsHold
  BY DEF RecordInv
<1>2. QED
  BY <1>1, InitRecord, StepRecord, PTL DEF Spec

-----------------------------------------------------------------------------
(* Refinement *)

LEMMA SameMerge ==
    ASSUME NEW old \in [Columns -> Values], NEW payload
    PROVE  Updates!Merged(old, payload) = Merged(old, payload)
BY DEF Updates!Merged, Merged

LEMMA InitUpdates == Init => Updates!Init
BY DEF Init, Updates!Init

LEMMA StepUpdates == RecordInv /\ [Next]_vars => [Updates!Next]_row
<1> SUFFICES ASSUME RecordInv, [Next]_vars, row' # row PROVE Updates!Next
  OBVIOUS
<1>1. PICK r \in Requests : Commit(r)
  BY DEF Next, Step, Insert, InsertRefused, ReadBefore, UpdateNothing, UpdateRow,
         UpdateRefused, ReadAfter, Log, Abort, Rollback, Terminating, vars
<1>2. row' = Merged(row, patch[r]) /\ row' \in Rows /\ pc[r] \in Active
  BY <1>1, NewRowTyping DEF Commit, NewRow, Active
<1>3. row \in [Columns -> Values]
  BY FoundTyping DEF RecordInv, ConstraintsHold
<1>4. CASE r = Maker
  <2>1. row = NoRow /\ patch[r] \in Drafts
    BY <1>2, <1>4 DEF RecordInv, PresenceInv, ConstraintsHold
  <2>2. row' = patch[r]
    BY <1>2, <1>3, <2>1, MergedDraft
  <2>3. QED
    BY <1>2, <2>1, <2>2 DEF Updates!Next, Updates!Create
<1>5. CASE r # Maker
  <2>1. row # NoRow /\ patch[r] \in Payloads
    BY <1>2, <1>5 DEF RecordInv, PresenceInv, ConstraintsHold
  <2>2. Updates!Patch(patch[r])
    BY <1>2, <1>3, <2>1, SameMerge DEF Updates!Patch
  <2>3. QED
    BY <2>1, <2>2 DEF Updates!Next
<1>6. QED
  BY <1>4, <1>5

\* Every commit creates the row or is one partial update of it as it then is:
\* no column that a request does not name changes, whatever it read before.
THEOREM UpdatesImplemented == Spec => ImplementsPartialUpdates
<1>1. Init => Updates!Init
  BY InitUpdates
<1>2. RecordInv /\ [Next]_vars => [Updates!Next]_row
  BY StepUpdates
<1>3. QED
  BY <1>1, <1>2, InitRecord, StepRecord, PTL DEF Spec, ImplementsPartialUpdates, Updates!Spec
-----------------------------------------------------------------------------
(* What the audit log says of the row *)

\* What a request is about to add to the log.  If it changes the row, it has
\* seen the row as its commit will leave it, and its audit row comes after
\* those of all changes before.
Pending(r, a) ==
    /\ a.by = r /\ a.before = before[r] /\ a.after = after[r] /\ a.id <= auditSeq
    /\ rowLock = r => \A b \in Changes : b.id < a.id

EntryFor(r) ==
    /\ rowLock = r => DOMAIN patch[r] # {}
    /\ rowLock = r /\ pc[r] \in {"log", "commit"} => after[r] = NewRow(r)
    /\ pc[r] = "commit" => \E a \in entry[r] : entry[r] = {a} /\ Pending(r, a)

LogInv ==
    /\ RecordInv
    /\ \A a \in audit : a.id <= auditSeq
    /\ \A r \in Requests : EntryFor(r)
    /\ AuditEndsAtRow

\* A log tells that somebody gave column c this value.
Traced(log, c, value) == \E b \in log : c \in DOMAIN patch[b.by] /\ b.after[c] = value

TracedBefore(a) ==
    \A c \in Columns :
        (a.before[c] # a.after[c] /\ c \notin DOMAIN patch[a.by]) =>
            \E b \in audit :
                b.id < a.id /\ c \in DOMAIN patch[b.by] /\ b.after[c] = a.after[c]

\* What has changed in the row since a request read it can be traced, and so
\* can what it has found changed when it read the row again.
TraceFor(r) ==
    /\ r # Maker /\ pc[r] \in {"update", "reread"} =>
          \A c \in Columns : row[c] # before[r][c] => Traced(audit, c, row[c])
    /\ pc[r] = "log" =>
          \A c \in Columns \ DOMAIN patch[r] :
             after[r][c] # before[r][c] => Traced(audit, c, after[r][c])
    /\ pc[r] = "commit" => \A a \in entry[r] : TracedBefore(a)

TraceInv == LogInv /\ ChangesTraceable /\ \A r \in Requests : TraceFor(r)

LEMMA InitLog == Init => TraceInv
<1> SUFFICES ASSUME Init PROVE TraceInv
  OBVIOUS
<1>1. RecordInv
  BY InitRecord
<1>2. \A r \in Requests : EntryFor(r) /\ TraceFor(r)
  BY NobodyAssumption DEF Init, EntryFor, TraceFor
<1>3. Changes = {} /\ AuditEndsAtRow /\ ChangesTraceable
  BY DEF Init, Changes, AuditEndsAtRow, ChangesTraceable
<1> QED BY <1>1, <1>2, <1>3 DEF Init, TraceInv, LogInv

LEMMA Statics == [Next]_vars => patch' = patch
BY DEF Next, Step, Insert, InsertRefused, ReadBefore, UpdateNothing, UpdateRow, UpdateRefused,
       ReadAfter, Log, Commit, Abort, Rollback, Terminating, vars

LEMMA OnlyCommits ==
    ASSUME [Next]_vars
    PROVE  (\E r \in Requests : Commit(r)) \/ (row' = row /\ audit' = audit)
BY DEF Next, Step, Insert, InsertRefused, ReadBefore, UpdateNothing, UpdateRow, UpdateRefused,
       ReadAfter, Log, Abort, Rollback, Terminating, vars

\* A step that commits nothing.
LEMMA QuietLog ==
    ASSUME LogInv, RecordInv', row' = row, audit' = audit, patch' = patch, auditSeq' = auditSeq,
           NEW r \in Requests, EntryFor(r)',
           rowLock' = rowLock \/ (rowLock \in {Nobody, r} /\ rowLock' \in {Nobody, r}),
           \A q \in Requests \ {r} : pc'[q] = pc[q] /\ entry'[q] = entry[q]
                                     /\ before'[q] = before[q] /\ after'[q] = after[q]
    PROVE  LogInv'
<1>1. Changes' = Changes
  BY DEF Changes
<1>2. AuditEndsAtRow'
  BY <1>1 DEF LogInv, AuditEndsAtRow
<1>3. ASSUME NEW q \in Requests, q # r
      PROVE  EntryFor(q)'
  <2>1. rowLock' = q => rowLock = q
    BY <1>3, NobodyAssumption
  <2>2. NewRow(q)' = NewRow(q)
    BY DEF NewRow
  <2> QED BY <1>1, <1>3, <2>1, <2>2 DEF LogInv, EntryFor, Pending
<1> QED BY <1>2, <1>3 DEF LogInv

LEMMA LogLog ==
    ASSUME LogInv, NEW r \in Requests, Log(r), [Next]_vars
    PROVE  LogInv'
<1>0. ConstraintsHold /\ RecordInv /\ RecordInv' /\ \A q \in Requests : EntryFor(q)
  BY StepRecord DEF LogInv, RecordInv
<1>1. PICK a : a = [id |-> auditSeq + 1, by |-> r, before |-> before[r], after |-> after[r]]
  OBVIOUS
<1>2. /\ row' = row /\ audit' = audit /\ patch' = patch /\ rowLock' = rowLock
      /\ before' = before /\ after' = after /\ auditSeq \in Nat /\ auditSeq' = auditSeq + 1
      /\ pc[r] = "log" /\ pc'[r] = "commit" /\ entry'[r] = {a}
      /\ \A q \in Requests \ {r} : pc'[q] = pc[q] /\ entry'[q] = entry[q]
  BY <1>0, <1>1 DEF Log, ConstraintsHold
<1>3. Changes' = Changes /\ Changes \subseteq audit
  BY <1>2 DEF Changes
<1>4. \A b \in audit : b.id \in Nat /\ b.id <= auditSeq
  BY <1>0 DEF LogInv, ConstraintsHold, AuditRow
<1>5. AuditEndsAtRow'
  BY <1>2, <1>3 DEF LogInv, AuditEndsAtRow
<1>6. \A q \in Requests : NewRow(q)' = NewRow(q)
  BY <1>2 DEF NewRow
<1>7. a.id = auditSeq + 1 /\ a.by = r /\ a.before = before[r] /\ a.after = after[r]
  BY <1>1
<1>8. \A b \in audit : b.id < a.id /\ b.id <= auditSeq'
  BY <1>2, <1>4, <1>7
<1>9. EntryFor(r)'
  <2>1. Pending(r, a)'
    BY <1>2, <1>3, <1>7, <1>8 DEF Pending
  <2> QED BY <1>0, <1>2, <1>6, <2>1 DEF EntryFor
<1>10. ASSUME NEW q \in Requests, q # r
       PROVE  EntryFor(q)'
  <2>1. ASSUME pc[q] = "commit"
        PROVE  \E b \in entry[q] : entry[q] = {b} /\ Pending(q, b)'
    <3>1. PICK b \in entry[q] : entry[q] = {b} /\ Pending(q, b)
      BY <1>0, <2>1 DEF EntryFor
    <3>2. b.id \in Nat /\ b.id <= auditSeq
      BY <1>0, <3>1 DEF ConstraintsHold, AuditRow, Pending
    <3>3. b.id <= auditSeq'
      BY <1>2, <3>2
    <3> QED BY <1>2, <1>3, <3>1, <3>3 DEF Pending
  <2> QED BY <1>0, <1>2, <1>6, <1>10, <2>1 DEF EntryFor
<1> QED BY <1>0, <1>2, <1>5, <1>8, <1>9, <1>10 DEF LogInv

\* What a commit does to the row and to the log.
LEMMA CommitEffect ==
    ASSUME LogInv, NEW r \in Requests, Commit(r)
    PROVE  \E a \in entry[r] :
              /\ Pending(r, a) /\ audit' = audit \union {a}
              /\ IF rowLock = r THEN Changes' = Changes \union {a} /\ row' = a.after
                 ELSE Changes' = Changes /\ row' = row
<1>1. /\ pc[r] = "commit" /\ audit' = audit \union entry[r] /\ row' = NewRow(r)
      /\ patch' = patch
  BY DEF Commit
<1>2. EntryFor(r) /\ RecordInv
  BY DEF LogInv
<1>3. PICK a \in entry[r] : entry[r] = {a} /\ Pending(r, a)
  BY <1>1, <1>2 DEF EntryFor
<1>4. audit' = audit \union {a} /\ a.by = r
  BY <1>1, <1>3 DEF Pending
<1>5. CASE rowLock = r
  <2>1. Changes' = Changes \union {a}
    BY <1>1, <1>2, <1>4, <1>5 DEF Changes, EntryFor
  <2>2. row' = a.after
    BY <1>1, <1>2, <1>3, <1>5 DEF EntryFor, Pending
  <2> QED BY <1>3, <1>4, <1>5, <2>1, <2>2
<1>6. CASE rowLock # r
  <2>1. DOMAIN patch[r] = {}
    BY <1>1, <1>2, <1>6 DEF RecordInv, HolderInv
  <2>2. Changes' = Changes
    BY <1>1, <1>4, <2>1 DEF Changes
  <2>3. row' = row
    BY <1>2, <1>6, CommitKeepsRow
  <2> QED BY <1>3, <1>4, <1>6, <2>2, <2>3
<1> QED BY <1>5, <1>6

LEMMA CommitLog ==
    ASSUME LogInv, NEW r \in Requests, Commit(r), [Next]_vars
    PROVE  LogInv'
<1>0. ConstraintsHold /\ RecordInv /\ RecordInv' /\ \A q \in Requests : EntryFor(q)
  BY StepRecord DEF LogInv, RecordInv
<1>1. PICK a \in entry[r] :
         /\ Pending(r, a) /\ audit' = audit \union {a}
         /\ IF rowLock = r THEN Changes' = Changes \union {a} /\ row' = a.after
            ELSE Changes' = Changes /\ row' = row
  BY CommitEffect
<1>2. /\ patch' = patch /\ auditSeq' = auditSeq /\ before' = before /\ after' = after
      /\ pc[r] = "commit" /\ pc'[r] = "done"
      /\ rowLock' = IF rowLock = r THEN Nobody ELSE rowLock
      /\ \A q \in Requests \ {r} : pc'[q] = pc[q] /\ entry'[q] = entry[q]
  BY <1>0 DEF Commit, ConstraintsHold
<1>3. \A b \in audit' : b.id <= auditSeq'
  BY <1>1, <1>2 DEF LogInv, Pending
<1>4. AuditEndsAtRow'
  <2>1. CASE rowLock = r
    <3>1. \A b \in Changes : b.id \in Nat /\ b.id < a.id
      BY <1>0, <1>1, <2>1 DEF Pending, Changes, ConstraintsHold, AuditRow
    <3>2. a.id \in Nat
      BY <1>0, <1>1 DEF ConstraintsHold, AuditRow
    <3>3. \A b \in Changes' : b.id <= a.id
      BY <1>1, <2>1, <3>1, <3>2
    <3> QED BY <1>1, <2>1, <3>3 DEF AuditEndsAtRow
  <2>2. CASE rowLock # r
    BY <1>1, <2>2 DEF LogInv, AuditEndsAtRow
  <2> QED BY <2>1, <2>2
<1>5. EntryFor(r)'
  BY <1>2, NobodyAssumption DEF EntryFor
<1>6. ASSUME NEW q \in Requests, q # r
      PROVE  EntryFor(q)'
  <2>1. rowLock' = q => rowLock = q /\ Changes' = Changes /\ row' = row
    BY <1>1, <1>2, <1>6, NobodyAssumption
  <2>2. row' = row => NewRow(q)' = NewRow(q)
    BY <1>2 DEF NewRow
  <2>3. ASSUME NEW b, Pending(q, b)
        PROVE  Pending(q, b)'
    BY <1>2, <2>1, <2>3 DEF Pending
  <2> QED BY <1>0, <1>2, <1>6, <2>1, <2>2, <2>3 DEF EntryFor
<1> QED BY <1>0, <1>3, <1>4, <1>5, <1>6 DEF LogInv

LEMMA StepLog == LogInv /\ [Next]_vars => LogInv'
<1> SUFFICES ASSUME LogInv, [Next]_vars PROVE LogInv'
  OBVIOUS
<1>0. ConstraintsHold /\ RecordInv /\ RecordInv' /\ \A q \in Requests : EntryFor(q)
  BY StepRecord DEF LogInv, RecordInv
<1>1. ASSUME NEW r \in Requests, Insert(r) \/ InsertRefused(r)
      PROVE  LogInv'
  <2>1. /\ row' = row /\ audit' = audit /\ patch' = patch /\ auditSeq' = auditSeq
        /\ entry' = entry /\ before' = before /\ after' = after
        /\ \A q \in Requests \ {r} : pc'[q] = pc[q]
        /\ pc[r] = "idle" /\ pc'[r] \in {"reread", "refused"} /\ r = Maker
    BY <1>0, <1>1 DEF ConstraintsHold, Insert, InsertRefused
  <2>2. DOMAIN patch[r] # {}
    BY <1>0, <2>1, DraftsAssumption DEF ConstraintsHold, Columns
  <2>3. rowLock \in {Nobody, r}
    BY <1>0, <2>1 DEF RecordInv, HolderInv, PresenceInv, ConstraintsHold, Active
  <2>4. EntryFor(r)'
    BY <2>1, <2>2 DEF EntryFor
  <2>5. rowLock' = rowLock \/ (rowLock \in {Nobody, r} /\ rowLock' \in {Nobody, r})
    BY <1>1, <2>3 DEF Insert, InsertRefused
  <2> QED BY <1>0, <2>1, <2>4, <2>5, QuietLog
<1>2. ASSUME NEW r \in Requests, ReadBefore(r) \/ UpdateNothing(r)
      PROVE  LogInv'
  <2>1. /\ row' = row /\ audit' = audit /\ patch' = patch /\ auditSeq' = auditSeq
        /\ rowLock' = rowLock /\ entry' = entry /\ after' = after
        /\ \A q \in Requests \ {r} : pc'[q] = pc[q] /\ before'[q] = before[q]
        /\ pc'[r] \notin {"log", "commit"}
    BY <1>0, <1>2 DEF ConstraintsHold, ReadBefore, UpdateNothing
  <2>2. EntryFor(r)'
    BY <1>0, <2>1 DEF EntryFor
  <2>3. \A q \in Requests \ {r} : pc'[q] = pc[q] /\ entry'[q] = entry[q]
                                    /\ before'[q] = before[q] /\ after'[q] = after[q]
    BY <2>1
  <2>4. rowLock' = rowLock \/ (rowLock \in {Nobody, r} /\ rowLock' \in {Nobody, r})
    BY <2>1
  <2> QED BY <1>0, <2>1, <2>2, <2>3, <2>4, QuietLog
<1>3. ASSUME NEW r \in Requests, UpdateRow(r)
      PROVE  LogInv'
  <2>1. /\ row' = row /\ audit' = audit /\ patch' = patch /\ auditSeq' = auditSeq
        /\ rowLock \in {Nobody, r} /\ rowLock' = r
        /\ entry' = entry /\ after' = after /\ before' = before
        /\ \A q \in Requests \ {r} : pc'[q] = pc[q]
        /\ pc'[r] = "reread" /\ DOMAIN patch[r] # {}
    BY <1>0, <1>3 DEF ConstraintsHold, UpdateRow, RowFree
  <2>2. EntryFor(r)'
    BY <2>1 DEF EntryFor
  <2>3. \A q \in Requests \ {r} : pc'[q] = pc[q] /\ entry'[q] = entry[q]
                                    /\ before'[q] = before[q] /\ after'[q] = after[q]
    BY <2>1
  <2>4. rowLock' = rowLock \/ (rowLock \in {Nobody, r} /\ rowLock' \in {Nobody, r})
    BY <2>1
  <2> QED BY <1>0, <2>1, <2>2, <2>3, <2>4, QuietLog
<1>4. ASSUME NEW r \in Requests, UpdateRefused(r) \/ Abort(r)
      PROVE  LogInv'
  <2>1. /\ row' = row /\ audit' = audit /\ patch' = patch /\ auditSeq' = auditSeq
        /\ rowLock' = IF rowLock = r THEN Nobody ELSE rowLock
        /\ after' = after /\ before' = before
        /\ \A q \in Requests \ {r} : pc'[q] = pc[q] /\ entry'[q] = entry[q]
        /\ pc'[r] \notin {"log", "commit"}
    BY <1>0, <1>4 DEF ConstraintsHold, UpdateRefused, Abort, Rollback
  <2>2. EntryFor(r)'
    BY <2>1, NobodyAssumption DEF EntryFor
  <2>3. \A q \in Requests \ {r} : pc'[q] = pc[q] /\ entry'[q] = entry[q]
                                    /\ before'[q] = before[q] /\ after'[q] = after[q]
    BY <2>1
  <2>4. rowLock' = rowLock \/ (rowLock \in {Nobody, r} /\ rowLock' \in {Nobody, r})
    BY <2>1
  <2> QED BY <1>0, <2>1, <2>2, <2>3, <2>4, QuietLog
<1>5. ASSUME NEW r \in Requests, ReadAfter(r)
      PROVE  LogInv'
  <2>1. /\ row' = row /\ audit' = audit /\ patch' = patch /\ auditSeq' = auditSeq
        /\ rowLock' = rowLock /\ entry' = entry /\ before' = before
        /\ \A q \in Requests \ {r} : pc'[q] = pc[q] /\ after'[q] = after[q]
        /\ pc'[r] = "log" /\ after'[r] = SeenAfter(r)
    BY <1>0, <1>5 DEF ConstraintsHold, ReadAfter
  <2>2. NewRow(r)' = NewRow(r)
    BY <2>1 DEF NewRow
  <2>3. EntryFor(r)'
    BY <1>0, <2>1, <2>2 DEF EntryFor, SeenAfter
  <2>4. \A q \in Requests \ {r} : pc'[q] = pc[q] /\ entry'[q] = entry[q]
                                    /\ before'[q] = before[q] /\ after'[q] = after[q]
    BY <2>1
  <2>5. rowLock' = rowLock \/ (rowLock \in {Nobody, r} /\ rowLock' \in {Nobody, r})
    BY <2>1
  <2> QED BY <1>0, <2>1, <2>3, <2>4, <2>5, QuietLog
<1>6. CASE UNCHANGED vars
  BY <1>0, <1>6 DEF vars, LogInv, EntryFor, Pending, AuditEndsAtRow, Changes, NewRow
<1> QED BY <1>1, <1>2, <1>3, <1>4, <1>5, <1>6, LogLog, CommitLog DEF Next, Step, Terminating

\* The newest audit row about a change ends at the row as it is: requests
\* change the row and take their ids in the log in the same order.
THEOREM LogEndsAtRow == Spec => []AuditEndsAtRow
<1>1. Init => LogInv
  BY InitLog DEF TraceInv
<1>2. LogInv => AuditEndsAtRow
  BY DEF LogInv
<1> QED BY <1>1, <1>2, StepLog, PTL DEF Spec

\* The log only grows, and what could be traced in it still can.
LEMMA StillTraced ==
    ASSUME audit \subseteq audit', patch' = patch
    PROVE  /\ \A c, value : Traced(audit, c, value) => Traced(audit', c, value)
           /\ \A a : TracedBefore(a) => TracedBefore(a)'
BY DEF Traced, TracedBefore

LEMMA LogGrows == [Next]_vars => audit \subseteq audit'
BY DEF Next, Step, Insert, InsertRefused, ReadBefore, UpdateNothing, UpdateRow, UpdateRefused,
       ReadAfter, Log, Commit, Abort, Rollback, Terminating, vars

\* A commit can be traced in every column that it changes.
LEMMA CommitTraced ==
    ASSUME LogInv, NEW r \in Requests, Commit(r), NEW c \in Columns
    PROVE  row'[c] = row[c] \/ Traced(audit', c, row'[c])
<1>1. PICK a \in entry[r] :
         /\ Pending(r, a) /\ audit' = audit \union {a}
         /\ IF rowLock = r THEN row' = a.after ELSE row' = row
  BY CommitEffect
<1>2. row' = NewRow(r)
  BY DEF Commit
<1>3. c \notin DOMAIN patch[r] => row'[c] = row[c]
  BY <1>2 DEF NewRow, Merged
<1>4. rowLock = r /\ c \in DOMAIN patch[r] => Traced(audit', c, row'[c])
  BY <1>1 DEF Traced, Pending
<1> QED BY <1>1, <1>3, <1>4

LEMMA StepTraces ==
    ASSUME TraceInv, [Next]_vars, NEW r \in Requests
    PROVE  TraceFor(r)'
<1>0. /\ LogInv /\ RecordInv /\ ConstraintsHold /\ TraceFor(r) /\ patch' = patch
      /\ audit \subseteq audit'
  BY Statics, LogGrows DEF TraceInv, LogInv, RecordInv
<1>1. ASSUME NEW c \in Columns, row[c] # before[r][c] => Traced(audit, c, row[c])
      PROVE  row'[c] # before[r][c] => Traced(audit', c, row'[c])
  <2>1. Traced(audit, c, row[c]) => Traced(audit', c, row[c])
    BY <1>0, StillTraced
  <2>2. row'[c] = row[c] \/ Traced(audit', c, row'[c])
    BY <1>0, OnlyCommits, CommitTraced
  <2> QED BY <1>1, <2>1, <2>2
<1>2. CASE pc'[r] = pc[r] /\ before'[r] = before[r] /\ after'[r] = after[r]
           /\ entry'[r] = entry[r]
  <2>1. r # Maker /\ pc'[r] \in {"update", "reread"} =>
           \A c \in Columns : row'[c] # before'[r][c] => Traced(audit', c, row'[c])
    BY <1>0, <1>1, <1>2 DEF TraceFor
  <2>2. pc'[r] = "log" => \A c \in Columns \ DOMAIN patch[r] :
                             after'[r][c] # before'[r][c] => Traced(audit', c, after'[r][c])
    BY <1>0, <1>2, StillTraced DEF TraceFor
  <2>3. pc'[r] = "commit" => \A a \in entry'[r] : TracedBefore(a)'
    BY <1>0, <1>2, StillTraced DEF TraceFor
  <2> QED BY <1>0, <2>1, <2>2, <2>3 DEF TraceFor, Traced
<1>3. CASE ReadBefore(r)
  <2>1. row' = row /\ before'[r] = row /\ pc'[r] \in {"missing", "update"}
    BY <1>0, <1>3 DEF ConstraintsHold, ReadBefore
  <2> QED BY <2>1 DEF TraceFor
<1>4. CASE UpdateNothing(r) \/ UpdateRow(r)
  <2>1. /\ row' = row /\ before' = before /\ pc[r] = "update" /\ pc'[r] = "reread"
        /\ audit' = audit
    BY <1>0, <1>4 DEF ConstraintsHold, UpdateNothing, UpdateRow
  <2> QED BY <1>0, <2>1 DEF TraceFor, Traced
<1>5. CASE ReadAfter(r)
  <2>1. /\ row' = row /\ before' = before /\ pc[r] = "reread" /\ pc'[r] = "log"
        /\ audit' = audit /\ after'[r] = SeenAfter(r)
    BY <1>0, <1>5 DEF ConstraintsHold, ReadAfter
  <2>2. ASSUME NEW c \in Columns \ DOMAIN patch[r]
        PROVE  after'[r][c] # before'[r][c] => Traced(audit, c, after'[r][c])
    <3>1. r # Maker
      <4> SUFFICES ASSUME r = Maker PROVE FALSE
        OBVIOUS
      <4>1. patch[r] \in [Columns -> Values]
        BY <1>0, DraftsAssumption DEF ConstraintsHold
      <4> QED BY <2>2, <4>1
    <3>2. after'[r][c] = row[c]
      BY <2>1, <2>2 DEF SeenAfter, NewRow, Merged
    <3>3. row[c] # before[r][c] => Traced(audit, c, row[c])
      BY <1>0, <2>1, <3>1 DEF TraceFor
    <3> QED BY <2>1, <3>2, <3>3
  <2> QED BY <1>0, <2>1, <2>2 DEF TraceFor, Traced
<1>6. CASE Log(r)
  <2>1. PICK a : a = [id |-> auditSeq + 1, by |-> r, before |-> before[r],
                      after |-> after[r]]
    OBVIOUS
  <2>2. /\ pc[r] = "log" /\ pc'[r] = "commit" /\ entry'[r] = {a} /\ audit' = audit
        /\ auditSeq \in Nat
    BY <1>0, <1>6, <2>1 DEF ConstraintsHold, Log
  <2>3. \A b \in audit : b.id \in Nat /\ b.id <= auditSeq
    BY <1>0 DEF LogInv, ConstraintsHold, AuditRow
  <2>4. \A b \in audit : b.id < a.id
    BY <2>1, <2>2, <2>3
  <2>5. TracedBefore(a)
    BY <1>0, <2>1, <2>2, <2>4 DEF TraceFor, Traced, TracedBefore
  <2> QED BY <1>0, <2>2, <2>5, StillTraced DEF TraceFor
<1>7. CASE pc'[r] \notin {"update", "reread", "log", "commit"}
  BY <1>7 DEF TraceFor
<1>8. CASE Insert(r)
  BY <1>0, <1>8 DEF ConstraintsHold, Insert, TraceFor
<1>9. ASSUME NEW q \in Requests, q # r,
             Insert(q) \/ InsertRefused(q) \/ ReadBefore(q) \/ Step(q) \/ Abort(q)
      PROVE  /\ pc'[r] = pc[r] /\ before'[r] = before[r] /\ after'[r] = after[r]
             /\ entry'[r] = entry[r]
  <2>1. CASE Insert(q) \/ InsertRefused(q) \/ ReadBefore(q)
    BY <1>0, <1>9, <2>1 DEF ConstraintsHold, Insert, InsertRefused, ReadBefore
  <2>2. CASE UpdateNothing(q) \/ UpdateRow(q) \/ UpdateRefused(q) \/ Abort(q)
    BY <1>0, <1>9, <2>2 DEF ConstraintsHold, UpdateNothing, UpdateRow, UpdateRefused, Abort, Rollback
  <2>3. CASE ReadAfter(q) \/ Log(q) \/ Commit(q)
    BY <1>0, <1>9, <2>3 DEF ConstraintsHold, ReadAfter, Log, Commit
  <2> QED BY <1>9, <2>1, <2>2, <2>3 DEF Step
<1>10. CASE InsertRefused(r) \/ UpdateRefused(r) \/ Commit(r) \/ Abort(r)
  BY <1>0, <1>7, <1>10 DEF ConstraintsHold, InsertRefused, UpdateRefused, Commit, Abort, Rollback
<1>11. CASE UNCHANGED vars
  BY <1>2, <1>11 DEF vars
<1> QED BY <1>2, <1>3, <1>4, <1>5, <1>6, <1>8, <1>9, <1>10, <1>11 DEF Next, Step, Terminating

LEMMA StepTrace == TraceInv /\ [Next]_vars => TraceInv'
<1> SUFFICES ASSUME TraceInv, [Next]_vars PROVE TraceInv'
  OBVIOUS
<1>1. LogInv /\ LogInv' /\ patch' = patch /\ audit \subseteq audit'
  BY StepLog, Statics, LogGrows DEF TraceInv
<1>2. \A a \in audit : TracedBefore(a)'
  BY <1>1, StillTraced DEF TraceInv, ChangesTraceable, TracedBefore
<1>3. \A a \in audit' : TracedBefore(a)'
  <2>1. CASE audit' = audit
    BY <1>2, <2>1
  <2>2. ASSUME NEW r \in Requests, Commit(r)
        PROVE  \A a \in audit' : TracedBefore(a)'
    <3>1. pc[r] = "commit" /\ audit' = audit \union entry[r]
      BY <2>2 DEF Commit
    <3>2. \A a \in entry[r] : TracedBefore(a)'
      BY <1>1, <3>1, StillTraced DEF TraceInv, TraceFor
    <3> QED BY <1>2, <3>1, <3>2
  <2> QED BY <2>1, <2>2, OnlyCommits
<1>4. ChangesTraceable'
  BY <1>3 DEF ChangesTraceable, TracedBefore
<1> QED BY <1>1, <1>4, StepTraces DEF TraceInv

\* A change that an audit row shows and its request did not ask for can be
\* traced to an earlier audit row, of a request that did.
THEOREM ChangesHaveAuthors == Spec => []ChangesTraceable
<1>1. TraceInv => ChangesTraceable
  BY DEF TraceInv
<1> QED BY <1>1, InitLog, StepTrace, PTL DEF Spec
=============================================================================
