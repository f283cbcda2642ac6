--------------------------- MODULE RoleGrantsProofs ---------------------------
(* Theorems about RoleGrants, for any requests, users and founders. *)
EXTENDS RoleGrants, TLAPS

\* In these rows, u has, or has had, the role of an owner.
WasOwner(rows, u) == rows[<<u, "owner_admin">>] # NoRow

\* Every request under way is by one who was an owner, and what it is about
\* to write names such a grantor.
CallersInv == \A r \in Requests : pc[r] \in Active => WasOwner(grants, task[r].actor)
WritesInv == \A r \in Requests : write[r].by # NoUser => WasOwner(grants, write[r].by)

GrantorInv == TypeOK /\ GrantorsWereOwners /\ CallersInv /\ WritesInv

-----------------------------------------------------------------------------
(* Types *)

LEMMA RowTyping ==
    ASSUME TypeOK, NEW r \in Requests
    PROVE  Granted(r) \in Row /\ Revoked(r) \in Row
<1>1. task[r].actor \in Users /\ task[r].key \in Keys
  BY DEF TypeOK, Tasks
<1>2. grants[task[r].key] \in Row
  BY <1>1 DEF TypeOK
<1>3. Granted(r) \in Row
  BY <1>1 DEF Granted, Row
<1>4. NoRow \in Row
  BY DEF Row
<1>5. ASSUME grants[task[r].key].state = "held"
      PROVE  [grants[task[r].key] EXCEPT !.state = "revoked"] \in Row
  BY <1>2, <1>5 DEF Row, NoRow
<1>6. Revoked(r) \in Row
  BY <1>4, <1>5 DEF Revoked
<1>7. QED
  BY <1>3, <1>6

LEMMA AuditRowTyping ==
    ASSUME TypeOK, NEW r \in Requests, NEW id \in Nat
    PROVE  AuditRowOf(r, id) \in AuditRow
BY DEF TypeOK, Tasks, AuditRowOf, AuditRow, States

LEMMA InitTyping == Init => TypeOK
<1> SUFFICES ASSUME Init PROVE TypeOK
  OBVIOUS
<1>1. grants \in [Keys -> Row]
  BY DEF Init, Row, NoRow
<1>2. QED
  BY <1>1 DEF Init, TypeOK, States, Row

LEMMA StepTyping == TypeOK /\ [Next]_vars => TypeOK'
<1> SUFFICES ASSUME TypeOK, [Next]_vars PROVE TypeOK'
  OBVIOUS
<1> USE DEF Active, Ended
<1>1. ASSUME NEW r \in Requests, Begin(r) PROVE TypeOK'
  BY <1>1 DEF TypeOK, Begin
<1>2. ASSUME NEW r \in Requests, ReadRow(r) PROVE TypeOK'
  <2>1. task[r].key \in Keys
    BY DEF TypeOK, Tasks
  <2>2. grants[task[r].key] \in Row
    BY <2>1 DEF TypeOK
  <2>3. grants[task[r].key].state \in States
    BY <2>2 DEF Row, NoRow, States
  <2>4. QED
    BY <1>2, <2>3 DEF TypeOK, ReadRow
<1>3. ASSUME NEW r \in Requests, ScanRow(r) PROVE TypeOK'
  BY <1>3 DEF TypeOK, ScanRow, States
<1>4. ASSUME NEW r \in Requests, WriteRow(r) PROVE TypeOK'
  BY <1>4, RowTyping DEF TypeOK, WriteRow
<1>5. ASSUME NEW r \in Requests, Log(r) PROVE TypeOK'
  <2>1. auditSeq' \in Nat
    BY <1>5 DEF TypeOK, Log
  <2>2. AuditRowOf(r, auditSeq') \in AuditRow
    BY <2>1, AuditRowTyping
  <2>3. QED
    BY <1>5, <2>1, <2>2 DEF TypeOK, Log
<1>6. ASSUME NEW r \in Requests, Commit(r) PROVE TypeOK'
  <2>1. NoRow \in Row
    BY DEF Row
  <2>2. QED
    BY <1>6, <2>1 DEF TypeOK, Commit, Without
<1>7. ASSUME NEW r \in Requests, Abort(r) PROVE TypeOK'
  <2>1. NoRow \in Row
    BY DEF Row
  <2>2. QED
    BY <1>7, <2>1 DEF TypeOK, Abort, Without
<1>8. CASE UNCHANGED vars
  BY <1>8 DEF TypeOK, vars
<1>9. QED
  BY <1>1, <1>2, <1>3, <1>4, <1>5, <1>6, <1>7, <1>8 DEF Next, Step, Terminating

\* Every variable keeps its type: no row of user_roles is ever deleted
\* halfway or written without a state.
THEOREM TypeCorrect == Spec => []TypeOK
<1>1. Init => TypeOK
  BY InitTyping
<1>2. TypeOK /\ [Next]_vars => TypeOK'
  BY StepTyping
<1>3. QED
  BY <1>1, <1>2, PTL DEF Spec

-----------------------------------------------------------------------------
(* Where roles come from *)

LEMMA InitGrantors == Init => GrantorInv
<1> SUFFICES ASSUME Init PROVE GrantorsWereOwners /\ CallersInv /\ WritesInv
  BY InitTyping DEF GrantorInv
<1>1. \A k \in Keys : grants[k].by = NoUser
  BY DEF Init, NoRow
<1>2. QED
  BY <1>1 DEF Init, GrantorsWereOwners, CallersInv, WritesInv, NoRow, Active

\* Rows are never deleted.
LEMMA RowsStay ==
    ASSUME TypeOK, [Next]_vars, NEW k \in Keys, grants[k] # NoRow
    PROVE  grants'[k] # NoRow
<1>1. ASSUME NEW r \in Requests, Commit(r) PROVE grants'[k] # NoRow
  BY <1>1 DEF TypeOK, Commit
<1>2. ASSUME NEW r \in Requests, Begin(r) \/ ReadRow(r) \/ ScanRow(r) \/ WriteRow(r)
                                  \/ Log(r) \/ Abort(r)
      PROVE  grants' = grants
  BY <1>2 DEF Begin, ReadRow, ScanRow, WriteRow, Log, Abort
<1>3. CASE UNCHANGED vars
  BY <1>3 DEF vars
<1>4. QED
  BY <1>1, <1>2, <1>3 DEF Next, Step, Terminating

LEMMA OwnersStay ==
    ASSUME TypeOK, [Next]_vars, NEW u \in Users, WasOwner(grants, u)
    PROVE  WasOwner(grants', u)
BY RowsStay, RolesAssumption DEF WasOwner, Keys

LEMMA TasksStay == [Next]_vars => task' = task
BY DEF Next, Step, Begin, ReadRow, ScanRow, WriteRow, Log, Commit, Abort, Terminating, vars

\* What a grant or a revocation writes names the caller, who is an owner, or
\* whom the row named before.
LEMMA WrittenGrantor ==
    ASSUME GrantorInv, NEW r \in Requests, pc[r] \in Active,
           NEW row \in {Granted(r), Revoked(r)}, row.by # NoUser
    PROVE  row.by \in Users /\ WasOwner(grants, row.by)
<1>1. task[r].actor \in Users /\ task[r].key \in Keys
  BY DEF GrantorInv, TypeOK, Tasks
<1>2. CASE row = Granted(r)
  BY <1>1, <1>2 DEF GrantorInv, CallersInv, Granted
<1>3. CASE row = Revoked(r)
  <2>1. grants[task[r].key] \in Row
    BY <1>1 DEF GrantorInv, TypeOK
  <2>2. row.by = grants[task[r].key].by
    BY <1>3, <2>1 DEF Revoked, Row, NoRow
  <2>3. row.by \in Users
    BY <2>1, <2>2 DEF Row, NoRow
  <2>4. QED
    BY <1>1, <2>2, <2>3 DEF GrantorInv, GrantorsWereOwners, WasOwner
<1>4. QED
  BY <1>2, <1>3

LEMMA StepGrantors == GrantorInv /\ [Next]_vars => GrantorInv'
<1> SUFFICES ASSUME GrantorInv, [Next]_vars
             PROVE  GrantorsWereOwners' /\ CallersInv' /\ WritesInv'
  BY StepTyping DEF GrantorInv
<1>1. TypeOK
  BY DEF GrantorInv
<1>2. \A u \in Users : WasOwner(grants, u) => WasOwner(grants', u)
  BY <1>1, OwnersStay
<1>3. /\ \A r \in Requests : task[r].actor \in Users
      /\ \A r \in Requests : write[r].by \in Users \union {NoUser}
      /\ \A k \in Keys : grants[k].by \in Users \union {NoUser}
  BY <1>1 DEF TypeOK, Tasks, Row, NoRow
<1>4. CallersInv'
  <2> SUFFICES ASSUME NEW q \in Requests, pc'[q] \in Active
               PROVE  WasOwner(grants', task[q].actor)
    BY TasksStay DEF CallersInv
  <2>1. CASE pc[q] \in Active
    BY <1>2, <1>3, <2>1 DEF GrantorInv, CallersInv
  <2>2. CASE pc[q] \notin Active
    <3>1. ASSUME NEW r \in Requests, Begin(r)
          PROVE  WasOwner(grants, task[q].actor)
      <4>1. q = r /\ Authorized(task[q].actor)
        BY <1>1, <2>2, <3>1 DEF Begin, TypeOK, Active
      <4>2. QED
        BY <4>1 DEF Authorized, WasOwner, NoRow
    <3>2. ASSUME NEW r \in Requests, Step(r) \/ Abort(r)
          PROVE  FALSE
      <4>1. q = r
        BY <1>1, <2>2, <3>2 DEF Step, ReadRow, ScanRow, WriteRow, Log, Commit, Abort, TypeOK
      <4>2. QED
        BY <2>2, <3>2, <4>1 DEF Step, ReadRow, ScanRow, WriteRow, Log, Commit, Abort, Active
    <3>3. CASE UNCHANGED vars
      BY <2>2, <3>3 DEF vars
    <3>4. QED
      BY <1>2, <1>3, <3>1, <3>2, <3>3 DEF Next, Terminating
  <2>3. QED
    BY <2>1, <2>2
<1>5. WritesInv'
  <2> SUFFICES ASSUME NEW q \in Requests, write'[q].by # NoUser
               PROVE  WasOwner(grants', write'[q].by)
    BY DEF WritesInv
  <2>1. CASE write'[q] = write[q]
    BY <1>2, <1>3, <2>1 DEF GrantorInv, WritesInv
  <2>2. ASSUME NEW r \in Requests, WriteRow(r), q = r
        PROVE  WasOwner(grants', write'[q].by)
    <3>1. write'[q] \in {Granted(q), Revoked(q)} /\ pc[q] \in Active
      BY <1>1, <2>2 DEF WriteRow, TypeOK, Active
    <3>2. write'[q].by \in Users /\ WasOwner(grants, write'[q].by)
      BY <3>1, WrittenGrantor
    <3>3. QED
      BY <1>2, <3>2
  <2>3. ASSUME NEW r \in Requests, Begin(r) \/ Step(r) \/ Abort(r), ~(WriteRow(r) /\ q = r)
        PROVE  write'[q] = write[q]
    <3>1. CASE WriteRow(r)
      BY <1>1, <2>3, <3>1 DEF WriteRow, TypeOK
    <3>2. CASE Commit(r) \/ Abort(r)
      BY <1>1, <3>2 DEF Commit, Abort, TypeOK, NoRow
    <3>3. CASE Begin(r) \/ ReadRow(r) \/ ScanRow(r) \/ Log(r)
      BY <3>3 DEF Begin, ReadRow, ScanRow, Log
    <3>4. QED
      BY <2>3, <3>1, <3>2, <3>3 DEF Step
  <2>4. CASE UNCHANGED vars
    BY <2>1, <2>4 DEF vars
  <2>5. QED
    BY <2>1, <2>2, <2>3, <2>4 DEF Next, Terminating
<1>6. GrantorsWereOwners'
  <2> SUFFICES ASSUME NEW k \in Keys, grants'[k].by # NoUser
               PROVE  WasOwner(grants', grants'[k].by)
    BY DEF GrantorsWereOwners, WasOwner
  <2>1. CASE grants'[k] = grants[k]
    <3>1. WasOwner(grants, grants[k].by)
      BY <2>1 DEF GrantorInv, GrantorsWereOwners, WasOwner
    <3>2. QED
      BY <1>2, <1>3, <2>1, <3>1
  <2>2. ASSUME NEW r \in Requests, Commit(r), grants'[k] # grants[k]
        PROVE  WasOwner(grants', grants'[k].by)
    <3>1. grants'[k] = write[r]
      BY <1>1, <2>2 DEF Commit, TypeOK
    <3>2. WasOwner(grants, write[r].by)
      BY <3>1 DEF GrantorInv, WritesInv
    <3>3. QED
      BY <1>2, <1>3, <3>1, <3>2
  <2>3. ASSUME NEW r \in Requests, Begin(r) \/ Step(r) \/ Abort(r), ~Commit(r)
        PROVE  grants' = grants
    BY <2>3 DEF Begin, Step, ReadRow, ScanRow, WriteRow, Log, Abort
  <2>4. CASE UNCHANGED vars
    BY <2>1, <2>4 DEF vars
  <2>5. QED
    BY <2>1, <2>2, <2>3, <2>4 DEF Next, Terminating
<1>7. QED
  BY <1>4, <1>5, <1>6

\* Every role in use was granted by somebody who was an owner, or comes from
\* outside the endpoints, after any sequence of grants and revocations by
\* requests whose own roles may be revoked under way.
THEOREM RolesComeFromOwners == Spec => []GrantorsWereOwners
<1>1. Init => GrantorInv
  BY InitGrantors
<1>2. GrantorInv /\ [Next]_vars => GrantorInv'
  BY StepGrantors
<1>3. GrantorInv => GrantorsWereOwners
  BY DEF GrantorInv
<1>4. QED
  BY <1>1, <1>2, <1>3, PTL DEF Spec
-----------------------------------------------------------------------------
(* What the audit log says of roles *)

InHand == {"log", "commit"}

\* What a request has written, and that it still has the row it wrote.
WrittenFor(r) ==
    /\ write[r] # NoRow => pc[r] \in InHand /\ rowLock[task[r].key] = r
    /\ pc[r] \in InHand => IF task[r].kind = "grant" THEN write[r] = Granted(r)
                           ELSE write[r] = NoRow \/ write[r].state = "revoked"
    /\ pc[r] = "scan" => task[r].kind # "grant"

WrittenInv == \A r \in Requests : WrittenFor(r)

\* The row a request is about to add to the log: it will be new, and newer
\* than every grant there, unless the request has changed nothing.
Pending(r, a) ==
    /\ a.key = task[r].key /\ a.by = task[r].actor /\ a.id <= auditSeq
    /\ a.after = IF task[r].kind = "grant" THEN "held" ELSE "revoked"
    /\ \A b \in audit : b.id # a.id
    /\ write[r] # NoRow =>
          \A b \in audit : b.key = a.key /\ b.after = "held" => b.id < a.id

EntryFor(r) ==
    /\ entry[r] # {} <=> pc[r] = "commit"
    /\ \A a, b \in entry[r] : a = b
    /\ \A a \in entry[r] : Pending(r, a)
    /\ \A q \in Requests \ {r} : \A a \in entry[r], b \in entry[q] : a.id # b.id

EntryInv ==
    /\ \A a \in audit : a.id <= auditSeq
    /\ \A r \in Requests : EntryFor(r)

\* A log that has rows of a role has a newest one.
HasNewest(k) ==
    TrailOf(k) # {} => \E a \in TrailOf(k) : \A b \in TrailOf(k) : b.id <= a.id

\* Once a role has been granted it is held, or a revocation came after.
HeldOrRevoked(k) ==
    \/ \A a \in TrailOf(k) : a.after # "held"
    \/ grants[k].state = "held"
    \/ \E a \in TrailOf(k) : /\ a.after = "revoked"
                             /\ \A b \in TrailOf(k) : b.after = "held" => b.id < a.id

GrantLogInv ==
    /\ TypeOK /\ WrittenInv /\ EntryInv
    /\ \A k \in Keys : HasNewest(k) /\ HeldOrRevoked(k)

LEMMA InitGrantLog == Init => GrantLogInv
<1> SUFFICES ASSUME Init PROVE GrantLogInv
  OBVIOUS
<1>1. WrittenInv
  BY DEF Init, WrittenInv, WrittenFor, InHand
<1>2. EntryInv
  BY DEF Init, EntryInv, EntryFor
<1>3. \A k \in Keys : HasNewest(k) /\ HeldOrRevoked(k)
  BY DEF Init, HasNewest, HeldOrRevoked, TrailOf
<1> QED BY <1>1, <1>2, <1>3, InitTyping DEF GrantLogInv

\* What a step of r leaves alone of the other requests.
LEMMA OthersStay ==
    ASSUME TypeOK, NEW r \in Requests, Begin(r) \/ Step(r) \/ Abort(r)
    PROVE  /\ \A q \in Requests \ {r} : pc'[q] = pc[q] /\ write'[q] = write[q]
                                        /\ entry'[q] = entry[q]
           /\ \A k \in Keys : \/ rowLock'[k] = rowLock[k]
                              \/ rowLock[k] \in {Nobody, r}
<1>1. CASE Begin(r) \/ ReadRow(r) \/ ScanRow(r)
  BY <1>1 DEF TypeOK, Begin, ReadRow, ScanRow
<1>2. CASE WriteRow(r)
  <2>1. \A q \in Requests \ {r} : pc'[q] = pc[q] /\ write'[q] = write[q] /\ entry'[q] = entry[q]
    BY <1>2 DEF TypeOK, WriteRow
  <2>2. \A k \in Keys : rowLock'[k] = rowLock[k] \/ rowLock[k] \in {Nobody, r}
    BY <1>2 DEF TypeOK, WriteRow, RowFree
  <2> QED BY <2>1, <2>2
<1>3. CASE Log(r)
  BY <1>3 DEF TypeOK, Log
<1>4. CASE Commit(r)
  BY <1>4 DEF TypeOK, Commit, Without
<1>5. CASE Abort(r)
  BY <1>5 DEF TypeOK, Abort, Without
<1> QED BY <1>1, <1>2, <1>3, <1>4, <1>5 DEF Step

LEMMA StepWritten ==
    ASSUME TypeOK, WrittenInv, [Next]_vars
    PROVE  WrittenInv'
<1>0. task' = task
  BY TasksStay
<1>1. ASSUME NEW r \in Requests, Begin(r) \/ Step(r) \/ Abort(r), WrittenFor(r)'
      PROVE  WrittenInv'
  <2> SUFFICES ASSUME NEW q \in Requests, q # r PROVE WrittenFor(q)'
    BY <1>1 DEF WrittenInv
  <2>1. pc'[q] = pc[q] /\ write'[q] = write[q] /\ task[q].key \in Keys
    BY <1>1, OthersStay DEF TypeOK, Tasks
  <2>2. rowLock[task[q].key] = q => rowLock'[task[q].key] = q
    BY <1>1, <2>1, OthersStay, NobodyAssumption
  <2> QED BY <1>0, <2>1, <2>2 DEF WrittenInv, WrittenFor, Granted
<1>2. ASSUME NEW r \in Requests, Begin(r) \/ ReadRow(r)
      PROVE  WrittenFor(r)'
  BY <1>2 DEF TypeOK, WrittenInv, WrittenFor, Begin, ReadRow, InHand
<1>3. ASSUME NEW r \in Requests, ScanRow(r)
      PROVE  WrittenFor(r)'
  BY <1>3 DEF TypeOK, WrittenInv, WrittenFor, ScanRow, InHand
<1>4. ASSUME NEW r \in Requests, WriteRow(r)
      PROVE  WrittenFor(r)'
  <2>1. task[r].key \in Keys /\ grants[task[r].key] \in Row
    BY DEF TypeOK, Tasks
  <2>2. pc'[r] = "log" /\ rowLock'[task[r].key] = r /\ Granted(r)' = Granted(r)
    BY <1>4, <2>1 DEF TypeOK, WriteRow, Granted
  <2>3. write'[r] = IF task[r].kind = "grant" THEN Granted(r) ELSE Revoked(r)
    BY <1>4 DEF TypeOK, WriteRow
  <2>4. Revoked(r) = NoRow \/ Revoked(r).state = "revoked"
    BY <2>1 DEF Revoked, Row, NoRow
  <2> QED BY <1>0, <2>2, <2>3, <2>4 DEF WrittenFor, InHand
<1>5. ASSUME NEW r \in Requests, Log(r)
      PROVE  WrittenFor(r)'
  BY <1>5 DEF TypeOK, WrittenInv, WrittenFor, Log, InHand, Granted
<1>6. ASSUME NEW r \in Requests, Commit(r) \/ Abort(r)
      PROVE  WrittenFor(r)'
  BY <1>6 DEF TypeOK, WrittenFor, Commit, Abort, InHand
<1>7. CASE UNCHANGED vars
  BY <1>7 DEF vars, WrittenInv, WrittenFor, Granted
<1> QED BY <1>1, <1>2, <1>3, <1>4, <1>5, <1>6, <1>7 DEF Next, Step, Terminating

\* What a commit adds to the log, and what it does to the roles.
LEMMA CommitEffect ==
    ASSUME GrantLogInv, NEW r \in Requests, Commit(r)
    PROVE  \E a \in entry[r] :
              /\ Pending(r, a) /\ audit' = audit \union {a}
              /\ \A k \in Keys : TrailOf(k)' = TrailOf(k) \union IF k = a.key THEN {a} ELSE {}
              /\ \A k \in Keys : k # a.key => grants'[k] = grants[k]
              /\ a.key \in Keys
              /\ IF write[r] = NoRow
                 THEN a.after = "revoked" /\ grants'[a.key] = grants[a.key]
                 ELSE grants'[a.key] = write[r] /\ grants'[a.key].state = a.after
                      /\ (a.after = "held" => grants'[a.key].by = a.by)
<1>1. /\ pc[r] = "commit" /\ audit' = audit \union entry[r]
      /\ grants' = IF write[r] = NoRow THEN grants
                   ELSE [grants EXCEPT ![task[r].key] = write[r]]
  BY DEF Commit
<1>2. EntryFor(r) /\ WrittenFor(r) /\ TypeOK /\ task[r].key \in Keys
  BY DEF GrantLogInv, EntryInv, WrittenInv, TypeOK, Tasks
<1>3. PICK a \in entry[r] : entry[r] = {a} /\ Pending(r, a)
  BY <1>1, <1>2 DEF EntryFor
<1>4. audit' = audit \union {a} /\ a.key = task[r].key
  BY <1>1, <1>3 DEF Pending
<1>5. \A k \in Keys : TrailOf(k)' = TrailOf(k) \union IF k = a.key THEN {a} ELSE {}
  BY <1>4 DEF TrailOf
<1>6. \A k \in Keys : grants'[k] = IF write[r] = NoRow \/ k # a.key THEN grants[k] ELSE write[r]
  BY <1>1, <1>2, <1>4 DEF TypeOK
<1>7. IF task[r].kind = "grant" THEN write[r] = Granted(r) /\ a.after = "held"
      ELSE (write[r] = NoRow \/ write[r].state = "revoked") /\ a.after = "revoked"
  BY <1>1, <1>2, <1>3 DEF WrittenFor, InHand, Pending
<1>8. Granted(r) # NoRow /\ Granted(r).state = "held" /\ Granted(r).by = a.by
  BY <1>3 DEF Granted, NoRow, Pending
<1> QED BY <1>2, <1>3, <1>4, <1>5, <1>6, <1>7, <1>8

LEMMA StepEntry ==
    ASSUME GrantLogInv, [Next]_vars
    PROVE  EntryInv'
<1>0. task' = task /\ TypeOK /\ WrittenInv /\ EntryInv
  BY TasksStay DEF GrantLogInv
<1>1. ASSUME NEW r \in Requests, Begin(r) \/ ReadRow(r) \/ ScanRow(r) \/ WriteRow(r)
      PROVE  EntryInv'
  <2>1. /\ entry' = entry /\ audit' = audit /\ auditSeq' = auditSeq
        /\ \A q \in Requests \ {r} : pc'[q] = pc[q] /\ write'[q] = write[q]
        /\ pc[r] # "commit" /\ pc'[r] # "commit"
    BY <1>0, <1>1 DEF TypeOK, Begin, ReadRow, ScanRow, WriteRow
  <2> QED BY <1>0, <2>1 DEF EntryInv, EntryFor, Pending
<1>2. ASSUME NEW r \in Requests, Log(r)
      PROVE  EntryInv'
  <2>0. PICK a : a = AuditRowOf(r, auditSeq + 1)
    OBVIOUS
  <2>1. /\ auditSeq \in Nat /\ auditSeq' = auditSeq + 1 /\ audit' = audit /\ write' = write
        /\ pc'[r] = "commit" /\ entry'[r] = {a} /\ pc[r] = "log"
        /\ \A q \in Requests \ {r} : pc'[q] = pc[q] /\ entry'[q] = entry[q]
    BY <1>0, <1>2, <2>0 DEF TypeOK, Log
  <2>2. /\ a.id = auditSeq + 1 /\ a.key = task[r].key /\ a.by = task[r].actor
        /\ a.after = IF task[r].kind = "grant" THEN "held" ELSE "revoked"
    BY <2>0 DEF AuditRowOf
  <2>3. \A b \in audit : b.id \in Nat /\ b.id < a.id
    <3>1. \A b \in audit : b.id \in Nat /\ b.id <= auditSeq
      BY <1>0 DEF TypeOK, AuditRow, EntryInv
    <3> QED BY <2>1, <2>2, <3>1
  <2>4. \A q \in Requests \ {r} : \A b \in entry[q] :
           b.id \in Nat /\ b.id # a.id /\ b.id <= auditSeq'
    <3>1. \A q \in Requests \ {r} : \A b \in entry[q] : b.id \in Nat /\ b.id <= auditSeq
      BY <1>0 DEF TypeOK, AuditRow, EntryInv, EntryFor, Pending
    <3> QED BY <2>1, <2>2, <3>1
  <2>5. EntryFor(r)'
    <3>1. Pending(r, a)'
      BY <1>0, <2>1, <2>2, <2>3 DEF Pending
    <3> QED BY <2>1, <2>4, <3>1 DEF EntryFor
  <2>6. ASSUME NEW q \in Requests, q # r
        PROVE  EntryFor(q)'
    <3>1. \A b \in entry[q] : Pending(q, b)'
      BY <1>0, <2>1, <2>4, <2>6 DEF EntryInv, EntryFor, Pending
    <3>2. \A p \in Requests \ {q} : \A b \in entry'[q], c \in entry'[p] : b.id # c.id
      <4>1. ASSUME NEW p \in Requests, p # q, NEW b \in entry'[q], NEW c \in entry'[p]
            PROVE  b.id # c.id
        <5>1. CASE p = r
          BY <2>1, <2>4, <2>6, <4>1, <5>1
        <5>2. CASE p # r
          BY <1>0, <2>1, <2>6, <4>1, <5>2 DEF EntryInv, EntryFor
        <5> QED BY <5>1, <5>2
      <4> QED BY <4>1
    <3> QED BY <1>0, <2>1, <2>6, <3>1, <3>2 DEF EntryInv, EntryFor
  <2>7. \A b \in audit' : b.id <= auditSeq'
    <3>1. \A b \in audit : b.id \in Nat /\ b.id <= auditSeq
      BY <1>0 DEF TypeOK, AuditRow, EntryInv
    <3> QED BY <2>1, <3>1
  <2> QED BY <2>5, <2>6, <2>7 DEF EntryInv
<1>3. ASSUME NEW r \in Requests, Abort(r)
      PROVE  EntryInv'
  <2>1. /\ audit' = audit /\ auditSeq' = auditSeq
        /\ \A q \in Requests \ {r} : pc'[q] = pc[q] /\ write'[q] = write[q]
                                     /\ entry'[q] = entry[q]
        /\ pc'[r] # "commit" /\ entry'[r] = {}
    BY <1>0, <1>3 DEF TypeOK, Abort
  <2> QED BY <1>0, <2>1 DEF EntryInv, EntryFor, Pending
<1>4. ASSUME NEW r \in Requests, Commit(r)
      PROVE  EntryInv'
  <2>1. PICK a \in entry[r] : audit' = audit \union {a} /\ Pending(r, a)
    BY <1>4, CommitEffect
  <2>2. /\ auditSeq' = auditSeq
        /\ \A q \in Requests \ {r} : pc'[q] = pc[q] /\ write'[q] = write[q]
                                     /\ entry'[q] = entry[q]
        /\ pc[r] = "commit" /\ pc'[r] # "commit" /\ entry'[r] = {}
    BY <1>0, <1>4 DEF TypeOK, Commit
  <2>3. ASSUME NEW q \in Requests, q # r, NEW b \in entry[q]
        PROVE  Pending(q, b)'
    <3>1. Pending(q, b) /\ b.id # a.id
      BY <1>0, <2>3 DEF EntryInv, EntryFor
    <3>2. write[q] # NoRow /\ a.key = b.key => a.after # "held"
      <4> SUFFICES ASSUME write[q] # NoRow, a.key = b.key, a.after = "held" PROVE FALSE
        OBVIOUS
      <4>1. write[r] # NoRow
        <5>1. WrittenFor(r) /\ task[r].kind = "grant" /\ pc[r] = "commit"
          BY <1>0, <2>1, <2>2 DEF Pending, WrittenInv
        <5>2. write[r] = Granted(r)
          BY <5>1 DEF WrittenFor, InHand
        <5> QED BY <5>2 DEF Granted, NoRow
      <4>2. task[q].key = task[r].key
        BY <2>1, <3>1 DEF Pending
      <4> QED BY <1>0, <2>3, <4>1, <4>2 DEF WrittenInv, WrittenFor
    <3> QED BY <1>0, <2>1, <2>2, <2>3, <3>1, <3>2 DEF Pending
  <2>4. \A b \in audit' : b.id <= auditSeq'
    BY <1>0, <2>1, <2>2 DEF EntryInv, Pending
  <2> QED BY <1>0, <2>2, <2>3, <2>4 DEF EntryInv, EntryFor
<1>5. CASE UNCHANGED vars
  BY <1>0, <1>5 DEF vars, EntryInv, EntryFor, Pending
<1> QED BY <1>1, <1>2, <1>3, <1>4, <1>5 DEF Next, Step, Terminating

LEMMA OnlyCommits ==
    ASSUME [Next]_vars
    PROVE  (\E r \in Requests : Commit(r)) \/ (grants' = grants /\ audit' = audit)
BY DEF Next, Step, Begin, ReadRow, ScanRow, WriteRow, Log, Abort, Terminating, vars

LEMMA StepGrantLog == GrantLogInv /\ [Next]_vars => GrantLogInv'
<1> SUFFICES ASSUME GrantLogInv, [Next]_vars PROVE GrantLogInv'
  OBVIOUS
<1>1. TypeOK /\ TypeOK' /\ WrittenInv' /\ EntryInv'
  BY StepTyping, StepWritten, StepEntry DEF GrantLogInv
<1>2. CASE grants' = grants /\ audit' = audit
  BY <1>1, <1>2 DEF GrantLogInv, HasNewest, HeldOrRevoked, TrailOf
<1>3. ASSUME NEW r \in Requests, Commit(r), NEW k \in Keys
      PROVE  (HasNewest(k) /\ HeldOrRevoked(k))'
  <2>1. PICK a \in entry[r] :
           /\ Pending(r, a) /\ audit' = audit \union {a}
           /\ TrailOf(k)' = TrailOf(k) \union IF k = a.key THEN {a} ELSE {}
           /\ k # a.key => grants'[k] = grants[k]
           /\ IF write[r] = NoRow
              THEN a.after = "revoked" /\ grants'[a.key] = grants[a.key]
              ELSE grants'[a.key].state = a.after
    BY <1>3, CommitEffect
  <2>2. HasNewest(k) /\ HeldOrRevoked(k)
    BY DEF GrantLogInv
  <2>3. CASE k # a.key
    BY <2>1, <2>2, <2>3 DEF HasNewest, HeldOrRevoked
  <2>4. CASE k = a.key
    <3>1. /\ a.id \in Nat /\ \A b \in TrailOf(k) : b.id \in Nat /\ b \in audit /\ b.key = k
          /\ TrailOf(k)' = TrailOf(k) \union {a}
      BY <1>1, <2>1, <2>4 DEF TypeOK, AuditRow, TrailOf
    <3>2. HasNewest(k)'
      <4>1. CASE TrailOf(k) = {}
        BY <3>1, <4>1 DEF HasNewest
      <4>2. CASE TrailOf(k) # {}
        <5>1. PICK c \in TrailOf(k) : \A b \in TrailOf(k) : b.id <= c.id
          BY <2>2, <4>2 DEF HasNewest
        <5>2. CASE c.id <= a.id
          BY <3>1, <5>1, <5>2 DEF HasNewest
        <5>3. CASE ~ (c.id <= a.id)
          BY <3>1, <5>1, <5>3 DEF HasNewest
        <5> QED BY <5>2, <5>3
      <4> QED BY <4>1, <4>2
    <3>3. HeldOrRevoked(k)'
      <4>1. CASE a.after = "held"
        BY <2>1, <2>4, <4>1 DEF HeldOrRevoked
      <4>2. CASE a.after = "revoked" /\ write[r] = NoRow
        BY <2>1, <2>2, <2>4, <3>1, <4>2 DEF HeldOrRevoked
      <4>3. CASE a.after = "revoked" /\ write[r] # NoRow
        <5>1. \A b \in TrailOf(k)' : b.after = "held" => b.id < a.id
          BY <2>1, <2>4, <3>1, <4>3 DEF Pending
        <5> QED BY <3>1, <4>3, <5>1 DEF HeldOrRevoked
      <4> QED BY <2>1, <4>1, <4>2, <4>3 DEF Pending
    <3> QED BY <3>2, <3>3
  <2> QED BY <2>3, <2>4
<1>4. ASSUME NEW r \in Requests, Commit(r)
      PROVE  GrantLogInv'
  BY <1>1, <1>3, <1>4 DEF GrantLogInv
<1> QED BY <1>2, <1>4, OnlyCommits

\* Whoever the log shows last as having been given a role has it: a grant
\* takes its id in the log while it has the row, and a revocation that comes
\* later has to have the row to undo it.
THEOREM LoggedGrantsHold == Spec => []LastGrantHolds
<1>1. GrantLogInv => LastGrantHolds
  <2> SUFFICES ASSUME GrantLogInv, NEW k \in Keys, TrailOf(k) # {},
                      Newest(TrailOf(k)).after = "held"
               PROVE  grants[k].state = "held"
    BY DEF LastGrantHolds
  <2> DEFINE n == Newest(TrailOf(k))
  <2>1. n \in TrailOf(k) /\ \A b \in TrailOf(k) : b.id <= n.id
    BY DEF GrantLogInv, HasNewest, Newest
  <2>2. \A b \in TrailOf(k) : b.id \in Nat
    BY DEF GrantLogInv, TypeOK, AuditRow, TrailOf
  <2>3. HeldOrRevoked(k)
    BY DEF GrantLogInv
  <2> HIDE DEF n
  <2>4. n.after = "held"
    BY DEF n
  <2> QED BY <2>1, <2>2, <2>3, <2>4 DEF HeldOrRevoked
<1> QED BY <1>1, InitGrantLog, StepGrantLog, PTL DEF Spec

\* No role changes hands without a row of the log in the same commit that
\* was not there before, and that names the one who gave it.
THEOREM ChangesLogged == Spec => EveryChangeAudited
<1>1. GrantLogInv /\ [Next]_vars =>
         [\A k \in Keys :
             grants'[k] # grants[k] =>
                \E a \in audit' \ audit :
                   /\ a.key = k
                   /\ a.after = grants'[k].state
                   /\ a.after = "held" => a.by = grants'[k].by]_vars
  <2> SUFFICES ASSUME GrantLogInv, [Next]_vars, NEW k \in Keys, grants'[k] # grants[k]
               PROVE  \E a \in audit' \ audit : /\ a.key = k
                                                /\ a.after = grants'[k].state
                                                /\ a.after = "held" => a.by = grants'[k].by
    OBVIOUS
  <2>1. PICK r \in Requests : Commit(r)
    BY OnlyCommits
  <2>2. PICK a \in entry[r] :
           /\ Pending(r, a) /\ audit' = audit \union {a} /\ k = a.key
           /\ grants'[a.key].state = a.after
           /\ a.after = "held" => grants'[a.key].by = a.by
    BY <2>1, CommitEffect
  <2>3. a \notin audit
    BY <2>2 DEF Pending
  <2> QED BY <2>2, <2>3
<1> QED BY <1>1, InitGrantLog, StepGrantLog, PTL DEF Spec, EveryChangeAudited
-----------------------------------------------------------------------------
(* What a grant is audited to have found *)

\* Every state that a role is in, that a grant has read, and that a grant is
\* audited to have found, has an audit row behind it.
Committed == \A k \in Keys : grants[k].state \in StatesIn(audit, k)

ReadInv ==
    \A r \in Requests :
        task[r].kind = "grant" /\ pc[r] \in {"write", "log"} =>
            before[r] \in StatesIn(audit, task[r].key)

FoundBefore(rows, a) == a.before \in StatesIn({b \in rows : b.id < a.id}, a.key)

GrantsFound(rows) == \A a \in rows : a.after = "held" => FoundBefore(audit, a)

BeforeInv ==
    /\ GrantLogInv /\ Committed /\ ReadInv /\ GrantsFound(audit)
    /\ \A r \in Requests : GrantsFound(entry[r])

\* A log that grows leaves no fewer states.
LEMMA StatesGrow ==
    ASSUME NEW rows, NEW more, rows \subseteq more, NEW k
    PROVE  StatesIn(rows, k) \subseteq StatesIn(more, k)
BY DEF StatesIn

LEMMA FoundGrow ==
    ASSUME NEW rows, NEW more, rows \subseteq more, NEW a, FoundBefore(rows, a)
    PROVE  FoundBefore(more, a)
<1>1. {b \in rows : b.id < a.id} \subseteq {b \in more : b.id < a.id}
  OBVIOUS
<1> QED BY <1>1, StatesGrow DEF FoundBefore

LEMMA InitBefore == Init => BeforeInv
<1> SUFFICES ASSUME Init PROVE BeforeInv
  OBVIOUS
<1>1. \A k \in Keys : grants[k].state = Initially(k)
  BY DEF Init, Initially, NoRow
<1>2. Committed
  BY <1>1 DEF Committed, StatesIn
<1>3. ReadInv /\ GrantsFound(audit) /\ \A r \in Requests : GrantsFound(entry[r])
  BY DEF Init, ReadInv, GrantsFound
<1> QED BY <1>2, <1>3, InitGrantLog DEF BeforeInv

\* Steps that write nothing to the log of committed rows.
LEMMA StepBeforeCommit ==
    ASSUME BeforeInv, NEW r \in Requests, Begin(r) \/ ReadRow(r) \/ ScanRow(r)
                                          \/ WriteRow(r) \/ Log(r) \/ Abort(r)
    PROVE  Committed' /\ ReadInv' /\ GrantsFound(audit)'
           /\ \A q \in Requests : GrantsFound(entry[q])'
<1>0. /\ TypeOK /\ WrittenInv /\ EntryInv /\ task[r].key \in Keys
      /\ task' = task /\ grants' = grants /\ audit' = audit
  BY DEF BeforeInv, GrantLogInv, TypeOK, Tasks, Begin, ReadRow, ScanRow, WriteRow, Log, Abort
<1>1. Committed' /\ GrantsFound(audit)'
  BY <1>0 DEF BeforeInv, Committed, GrantsFound, FoundBefore
<1>2. ReadInv'
  <2>1. CASE ReadRow(r)
    <3>1. before'[r] = grants[task[r].key].state
      BY <1>0, <2>1 DEF ReadRow, TypeOK
    <3>2. before'[r] \in StatesIn(audit, task[r].key)
      BY <1>0, <3>1 DEF BeforeInv, Committed
    <3>3. \A q \in Requests \ {r} : pc'[q] = pc[q] /\ before'[q] = before[q]
      BY <1>0, <2>1 DEF ReadRow, TypeOK
    <3> QED BY <1>0, <3>2, <3>3 DEF BeforeInv, ReadInv
  <2>2. CASE ScanRow(r)
    <3>1. task[r].kind # "grant"
      BY <1>0, <2>2 DEF ScanRow, WrittenInv, WrittenFor
    <3>2. \A q \in Requests \ {r} : pc'[q] = pc[q] /\ before'[q] = before[q]
      BY <1>0, <2>2 DEF ScanRow, TypeOK
    <3> QED BY <1>0, <3>1, <3>2 DEF BeforeInv, ReadInv
  <2>3. CASE Begin(r) \/ WriteRow(r) \/ Log(r) \/ Abort(r)
    <3>1. /\ before' = before
          /\ \A q \in Requests : pc'[q] \in {"write", "log"} => pc[q] \in {"write", "log"}
      BY <1>0, <2>3 DEF Begin, WriteRow, Log, Abort, TypeOK
    <3> QED BY <1>0, <3>1 DEF BeforeInv, ReadInv
  <2> QED BY <2>1, <2>2, <2>3
<1>3. ASSUME NEW q \in Requests
      PROVE  GrantsFound(entry[q])'
  <2>1. CASE entry'[q] \subseteq entry[q]
    BY <1>0, <2>1 DEF BeforeInv, GrantsFound, FoundBefore
  <2>2. CASE ~(entry'[q] \subseteq entry[q])
    <3>1. q = r /\ Log(r)
      BY <1>0, <2>2 DEF Begin, ReadRow, ScanRow, WriteRow, Log, Abort, TypeOK
    <3>2. PICK a : a = AuditRowOf(r, auditSeq + 1)
      OBVIOUS
    <3>3. /\ entry'[r] = {a} /\ pc[r] = "log"
          /\ a.key = task[r].key /\ a.before = before[r] /\ a.id = auditSeq + 1
          /\ a.after = "held" => task[r].kind = "grant"
      BY <1>0, <3>1, <3>2 DEF Log, AuditRowOf, TypeOK
    <3>4. {b \in audit : b.id < a.id} = audit
      <4>1. auditSeq \in Nat /\ \A b \in audit : b.id \in Nat /\ b.id <= auditSeq
        BY <1>0 DEF TypeOK, AuditRow, EntryInv
      <4> QED BY <3>3, <4>1
    <3>5. a.after = "held" => FoundBefore(audit, a)
      BY <3>3, <3>4 DEF BeforeInv, ReadInv, FoundBefore
    <3> QED BY <1>0, <3>1, <3>3, <3>5 DEF GrantsFound, FoundBefore
  <2> QED BY <2>1, <2>2
<1> QED BY <1>1, <1>2, <1>3

LEMMA StepBefore == BeforeInv /\ [Next]_vars => BeforeInv'
<1> SUFFICES ASSUME BeforeInv, [Next]_vars PROVE BeforeInv'
  OBVIOUS
<1>0. GrantLogInv /\ GrantLogInv' /\ TypeOK /\ task' = task
  BY StepGrantLog, TasksStay DEF BeforeInv, GrantLogInv
<1>1. ASSUME NEW r \in Requests, Commit(r)
      PROVE  BeforeInv'
  <2>1. PICK a \in entry[r] :
           /\ audit' = audit \union {a} /\ a.key \in Keys
           /\ \A k \in Keys : k # a.key => grants'[k] = grants[k]
           /\ grants'[a.key] = grants[a.key] \/ grants'[a.key].state = a.after
    BY <1>0, <1>1, CommitEffect
  <2>2. audit \subseteq audit' /\ a \in audit'
    BY <2>1
  <2>3. Committed'
    <3> SUFFICES ASSUME NEW k \in Keys PROVE grants'[k].state \in StatesIn(audit', k)
      BY DEF Committed
    <3>1. StatesIn(audit, k) \subseteq StatesIn(audit', k)
      BY <2>2, StatesGrow
    <3>2. CASE grants'[k] = grants[k]
      BY <3>1, <3>2 DEF BeforeInv, Committed
    <3>3. CASE k = a.key /\ grants'[k].state = a.after
      BY <2>2, <3>3 DEF StatesIn
    <3> QED BY <2>1, <3>2, <3>3
  <2>4. ReadInv'
    <3> SUFFICES ASSUME NEW q \in Requests, task[q].kind = "grant",
                        pc'[q] \in {"write", "log"}
                 PROVE  before'[q] \in StatesIn(audit', task[q].key)
      BY <1>0 DEF ReadInv
    <3>1. pc[q] \in {"write", "log"} /\ before'[q] = before[q]
      BY <1>0, <1>1 DEF Commit, TypeOK
    <3>2. StatesIn(audit, task[q].key) \subseteq StatesIn(audit', task[q].key)
      BY <2>2, StatesGrow
    <3> QED BY <3>1, <3>2 DEF BeforeInv, ReadInv
  <2>5. ASSUME NEW b \in audit', b.after = "held"
        PROVE  FoundBefore(audit', b)
    <3>1. FoundBefore(audit, b)
      BY <2>1, <2>5 DEF BeforeInv, GrantsFound
    <3> QED BY <2>2, <3>1, FoundGrow
  <2>6. ASSUME NEW q \in Requests, NEW b \in entry'[q], b.after = "held"
        PROVE  FoundBefore(audit', b)
    <3>1. entry'[q] \subseteq entry[q]
      BY <1>0, <1>1 DEF Commit, TypeOK
    <3>2. FoundBefore(audit, b)
      BY <2>6, <3>1 DEF BeforeInv, GrantsFound
    <3> QED BY <2>2, <3>2, FoundGrow
  <2> QED BY <1>0, <2>3, <2>4, <2>5, <2>6 DEF BeforeInv, GrantsFound
<1>2. ASSUME NEW r \in Requests, Begin(r) \/ ReadRow(r) \/ ScanRow(r) \/ WriteRow(r)
                                  \/ Log(r) \/ Abort(r)
      PROVE  BeforeInv'
  BY <1>0, <1>2, StepBeforeCommit DEF BeforeInv
<1>3. CASE UNCHANGED vars
  BY <1>0, <1>3 DEF vars, BeforeInv, Committed, ReadInv, GrantsFound, FoundBefore
<1> QED BY <1>1, <1>2, <1>3 DEF Next, Step, Terminating

\* A grant is audited with a state that the role started in or that an
\* earlier row of the log left it in, however many others write it meanwhile.
THEOREM BeforeStatesFound == Spec => []BeforeStatesReal
<1>1. BeforeInv => BeforeStatesReal
  BY DEF BeforeInv, GrantLogInv, BeforeStatesReal, GrantsFound, FoundBefore
<1> QED BY <1>1, InitBefore, StepBefore, PTL DEF Spec
=============================================================================
