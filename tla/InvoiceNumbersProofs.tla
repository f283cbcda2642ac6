------------------------ MODULE InvoiceNumbersProofs ------------------------
(* Theorems about InvoiceNumbers, for any requests, bodies and years. *)
EXTENDS InvoiceNumbers, FiniteSetTheorems, TLAPS

(***************************************************************************)
(* The committed counter row counts the committed invoices, and a request  *)
(* that has read it holds it until its own number is committed.            *)
(***************************************************************************)
CounterInv ==
    \A y \in Years :
        /\ Cardinality(OfYear(y)) = counter[y]
        /\ {inv.seq : inv \in OfYear(y)} = 1 .. counter[y]

HolderInv ==
    \A r \in Requests :
        pc[r] \in Numbered =>
            /\ rowLock[year[r]] = r
            /\ number[r] = NumberFrom(r)

NumberInv == TypeOK /\ CounterInv /\ HolderInv /\ NumbersNeverCollide

-----------------------------------------------------------------------------
(* Types *)

LEMMA NewInvoiceTyping ==
    ASSUME TypeOK, HolderInv, NEW r \in Requests, pc[r] \in Inserted
    PROVE  NewInvoice(r) \in Invoice
<1>1. bill[r] \in Payload
  BY PayloadsAssumption DEF TypeOK
<1>2. bill[r].subtotal \in Nat /\ bill[r].tax \in Nat
  BY <1>1 DEF Payload
<1>3. ASSUME NEW a \in Nat PROVE Cents(a) \in Nat
  BY <1>3 DEF Cents
<1>4. bill[r].subtotal + bill[r].tax \in Nat
  BY <1>2
<1>5. number[r] \in Nat \ {0} /\ year[r] \in Years
  BY DEF TypeOK, HolderInv, NumberFrom, Numbered
<1>6. QED
  BY <1>2, <1>3, <1>4, <1>5 DEF NewInvoice, Invoice

LEMMA InitTyping == Init => TypeOK
  BY YearsAssumption, FS_EmptySet DEF Init, TypeOK, Years

LEMMA RollbackTyping ==
    ASSUME TypeOK, NEW r \in Requests, NEW outcome \in Ended,
           Rollback(r, outcome)
    PROVE  TypeOK'
  BY DEF TypeOK, Rollback, Without

LEMMA StepTyping == TypeOK /\ HolderInv /\ [Next]_vars => TypeOK'
<1> SUFFICES ASSUME TypeOK, HolderInv, [Next]_vars
             PROVE  TypeOK'
  OBVIOUS
<1>1. CASE NewYear
  BY <1>1, YearsAssumption DEF NewYear, TypeOK, Years, trail
<1>2. ASSUME NEW r \in Requests, Submit(r)
      PROVE  TypeOK'
  BY <1>2 DEF Submit, TypeOK, Active, Ended, trail
<1>3. ASSUME NEW r \in Requests, EnsureCounter(r)
      PROVE  TypeOK'
  BY <1>3 DEF EnsureCounter, TypeOK, Active, trail
<1>4. ASSUME NEW r \in Requests, LockCounter(r)
      PROVE  TypeOK'
  BY <1>4 DEF LockCounter, NumberFrom, TypeOK, Active, Numbered, trail
<1>5. ASSUME NEW r \in Requests, InsertInvoice(r)
      PROVE  TypeOK'
  BY <1>5 DEF InsertInvoice, TypeOK, Active, Numbered, Inserted, trail
<1>6. ASSUME NEW r \in Requests, InsertFails(r)
      PROVE  TypeOK'
  BY <1>6, RollbackTyping DEF InsertFails, Ended
<1>7a. ASSUME NEW r \in Requests, Log(r)
       PROVE  TypeOK'
  <2>1. [id |-> auditSeq', after |-> NewInvoice(r)] \in AuditRow
    BY <1>7a, NewInvoiceTyping DEF Log, Inserted, AuditRow, TypeOK
  <2>2. entry' \in [Requests -> SUBSET AuditRow]
    BY <1>7a, <2>1 DEF Log, TypeOK
  <2>3. QED
    BY <1>7a, <2>2 DEF Log, TypeOK, Active, Numbered, Inserted
<1>7. ASSUME NEW r \in Requests, Commit(r)
      PROVE  TypeOK'
  <2>1. NewInvoice(r) \in Invoice
    BY <1>7, NewInvoiceTyping DEF Commit, Inserted
  <2>2. invoices' \subseteq Invoice /\ IsFiniteSet(invoices')
    BY <1>7, <2>1, FS_AddElement DEF Commit, TypeOK
  <2>3. QED
    BY <1>7, <2>2 DEF Commit, TypeOK, Without, Ended
<1>8. ASSUME NEW r \in Requests, Abort(r)
      PROVE  TypeOK'
  BY <1>8, RollbackTyping DEF Abort, Ended
<1>9. CASE UNCHANGED vars
  BY <1>9 DEF vars, trail, TypeOK
<1>10. QED
  BY <1>1, <1>2, <1>3, <1>4, <1>5, <1>6, <1>7a, <1>7, <1>8, <1>9
     DEF Next, Step, Terminating

-----------------------------------------------------------------------------
(* The invariant is inductive *)

LEMMA InitNumbers == Init => NumberInv
<1> SUFFICES ASSUME Init
             PROVE  CounterInv /\ HolderInv /\ NumbersNeverCollide
  BY InitTyping DEF NumberInv
<1>1. \A y \in Years : OfYear(y) = {} /\ counter[y] = 0
  BY DEF Init, OfYear
<1>2. CounterInv
  BY <1>1, FS_EmptySet DEF CounterInv
<1>3. HolderInv /\ NumbersNeverCollide
  BY DEF Init, HolderInv, NumbersNeverCollide, Numbered, Inserted
<1>4. QED
  BY <1>2, <1>3

\* A step that commits nothing keeps the counters and the invoices.
LEMMA CounterUnchanged ==
    ASSUME CounterInv, invoices' = invoices, counter' = counter
    PROVE  CounterInv'
<1>1. \A y \in Years : OfYear(y)' = OfYear(y)
  BY DEF OfYear
<1>2. QED
  BY <1>1 DEF CounterInv

LEMMA RollbackNumbers ==
    ASSUME NumberInv, TypeOK', NEW r \in Requests,
           NEW outcome \in Ended \ {"duplicate"}, Rollback(r, outcome)
    PROVE  NumberInv'
<1>1. CounterInv'
  BY CounterUnchanged DEF NumberInv, Rollback
<1>2. /\ pc'[r] = outcome
      /\ \A q \in Requests \ {r} : pc'[q] = pc[q]
      /\ year' = year /\ number' = number /\ counter' = counter
  BY DEF NumberInv, TypeOK, Rollback
<1>3. HolderInv'
  <2> SUFFICES ASSUME NEW q \in Requests, pc'[q] \in Numbered
               PROVE  rowLock'[year'[q]] = q /\ number'[q] = NumberFrom(q)'
    BY DEF HolderInv
  <2>1. q # r /\ pc[q] \in Numbered
    BY <1>2 DEF Ended, Numbered, Inserted
  <2>2. rowLock[year[q]] = q /\ number[q] = NumberFrom(q)
    BY <2>1 DEF NumberInv, HolderInv
  <2>3. year[q] \in Years
    BY DEF NumberInv, TypeOK
  <2>4. QED
    BY <1>2, <2>1, <2>2, <2>3 DEF Rollback, Without, NumberFrom
<1>4. NumbersNeverCollide'
  BY <1>2 DEF NumberInv, NumbersNeverCollide
<1>5. QED
  BY <1>1, <1>3, <1>4 DEF NumberInv

\* The lock's holder finds its number free.
LEMMA NumberIsFree ==
    ASSUME NumberInv, NEW r \in Requests, pc[r] \in Numbered
    PROVE  /\ ~KeyTaken(r)
           /\ NewInvoice(r) \notin invoices
<1>1. /\ year[r] \in Years /\ counter[year[r]] \in Nat
      /\ number[r] = counter[year[r]] + 1
  BY DEF NumberInv, TypeOK, HolderInv, NumberFrom
<1>2. \A inv \in invoices :
         inv.year = year[r] => inv.seq \in 1 .. counter[year[r]]
  BY <1>1 DEF NumberInv, CounterInv, OfYear
<1>3. ~KeyTaken(r)
  BY <1>1, <1>2 DEF KeyTaken
<1>4. NewInvoice(r).year = year[r] /\ NewInvoice(r).seq = number[r]
  BY DEF NewInvoice
<1>5. QED
  BY <1>3, <1>4 DEF KeyTaken

LEMMA CommitNumbers ==
    ASSUME NumberInv, TypeOK', NEW r \in Requests, Commit(r)
    PROVE  NumberInv'
<1> DEFINE inv == NewInvoice(r)
           y0 == year[r]
<1>1. /\ pc[r] = "logged" /\ pc[r] \in Numbered /\ y0 \in Years /\ rowLock[y0] = r
      /\ number[r] = counter[y0] + 1 /\ counter[y0] \in Nat
  BY DEF Commit, NumberInv, TypeOK, HolderInv, NumberFrom, Numbered, Inserted
<1>2. /\ counter' = [counter EXCEPT ![y0] = number[r]]
      /\ invoices' = invoices \union {inv}
      /\ year' = year /\ number' = number
      /\ pc'[r] = "created" /\ \A q \in Requests \ {r} : pc'[q] = pc[q]
      /\ inv.year = y0 /\ inv.seq = number[r] /\ inv \notin invoices
  BY <1>1, NumberIsFree DEF Commit, NewInvoice, NumberInv, TypeOK
<1>3. ASSUME NEW y \in Years, y # y0
      PROVE  OfYear(y)' = OfYear(y) /\ counter'[y] = counter[y]
  BY <1>2, <1>3 DEF OfYear, NumberInv, TypeOK
<1>4. OfYear(y0)' = OfYear(y0) \union {inv} /\ counter'[y0] = counter[y0] + 1
  BY <1>1, <1>2 DEF OfYear, NumberInv, TypeOK
<1>5. Cardinality(OfYear(y0)') = counter[y0] + 1
  <2>1. IsFiniteSet(OfYear(y0)) /\ inv \notin OfYear(y0)
    BY <1>2, FS_Subset DEF OfYear, NumberInv, TypeOK
  <2>2. Cardinality(OfYear(y0)) = counter[y0]
    BY <1>1 DEF NumberInv, CounterInv
  <2>3. QED
    BY <1>4, <2>1, <2>2, FS_AddElement
<1>6. {i.seq : i \in OfYear(y0)'} = 1 .. counter[y0] + 1
  <2>1. {i.seq : i \in OfYear(y0)} = 1 .. counter[y0]
    BY <1>1 DEF NumberInv, CounterInv
  <2>2. {i.seq : i \in OfYear(y0) \union {inv}}
           = {i.seq : i \in OfYear(y0)} \union {inv.seq}
    OBVIOUS
  <2>3. (1 .. counter[y0]) \union {counter[y0] + 1} = 1 .. counter[y0] + 1
    BY <1>1
  <2>4. QED
    BY <1>1, <1>2, <1>4, <2>1, <2>2, <2>3
<1>7. CounterInv'
  <2>0. counter'[y0] = counter[y0] + 1
    BY <1>4
  <2>1. ASSUME NEW y \in Years
        PROVE  /\ Cardinality(OfYear(y)') = counter'[y]
               /\ {i.seq : i \in OfYear(y)'} = 1 .. counter'[y]
    <3>1. CASE y = y0
      BY <1>2, <1>5, <1>6, <2>0, <3>1 DEF OfYear
    <3>2. CASE y # y0
      BY <1>3, <3>2 DEF NumberInv, CounterInv
    <3>3. QED
      BY <3>1, <3>2
  <2>2. QED
    BY <2>1 DEF CounterInv
<1>8. HolderInv'
  <2> SUFFICES ASSUME NEW q \in Requests, pc'[q] \in Numbered
               PROVE  rowLock'[year'[q]] = q /\ number'[q] = NumberFrom(q)'
    BY DEF HolderInv
  <2>1. q # r /\ pc[q] \in Numbered
    BY <1>2 DEF Numbered, Inserted
  <2>2. /\ rowLock[year[q]] = q /\ number[q] = counter[year[q]] + 1
        /\ year[q] \in Years
    BY <2>1 DEF NumberInv, TypeOK, HolderInv, NumberFrom
  <2>3. year[q] # y0
    BY <1>1, <2>1, <2>2
  <2>4. rowLock'[year[q]] = q
    BY <2>1, <2>2 DEF Commit, Without
  <2>5. QED
    BY <1>2, <1>3, <2>2, <2>3, <2>4 DEF NumberFrom
<1>9. NumbersNeverCollide'
  BY <1>2 DEF NumberInv, NumbersNeverCollide
<1>10. QED
  BY <1>7, <1>8, <1>9 DEF NumberInv

LEMMA StepNumbers == NumberInv /\ [Next]_vars => NumberInv'
<1> SUFFICES ASSUME NumberInv, [Next]_vars
             PROVE  NumberInv'
  OBVIOUS
<1>1. TypeOK'
  BY StepTyping DEF NumberInv
<1>2. ASSUME NEW r \in Requests, Submit(r) \/ EnsureCounter(r)
      PROVE  NumberInv'
  <2>1. CounterInv'
    BY <1>2, CounterUnchanged DEF NumberInv, Submit, EnsureCounter
  <2>2. HolderInv' /\ NumbersNeverCollide'
    BY <1>2 DEF NumberInv, TypeOK, HolderInv, NumbersNeverCollide,
                NumberFrom, Submit, EnsureCounter, Numbered, Inserted
  <2>3. QED
    BY <1>1, <2>1, <2>2 DEF NumberInv
<1>3. ASSUME NEW r \in Requests, LockCounter(r)
      PROVE  NumberInv'
  <2>1. CounterInv'
    BY <1>3, CounterUnchanged DEF NumberInv, LockCounter
  <2>2. HolderInv'
    <3> SUFFICES ASSUME NEW q \in Requests, pc'[q] \in Numbered
                 PROVE  rowLock'[year'[q]] = q /\ number'[q] = NumberFrom(q)'
      BY DEF HolderInv
    <3>1. CASE q = r
      BY <1>3, <3>1 DEF LockCounter, NumberInv, TypeOK, NumberFrom
    <3>2. CASE q # r
      <4>1. /\ pc[q] \in Numbered /\ year[q] \in Years
            /\ rowLock[year[q]] = q /\ number[q] = NumberFrom(q)
        BY <1>3, <3>2 DEF LockCounter, NumberInv, TypeOK, HolderInv
      <4>2. year[q] # year[r]
        BY <1>3, <3>2, <4>1, NobodyAssumption DEF LockCounter, CounterAvailable
      <4>3. QED
        BY <1>3, <3>2, <4>1, <4>2
           DEF LockCounter, NumberInv, TypeOK, NumberFrom
    <3>3. QED
      BY <3>1, <3>2
  <2>3. NumbersNeverCollide'
    BY <1>3 DEF LockCounter, NumberInv, TypeOK, NumbersNeverCollide
  <2>4. QED
    BY <1>1, <2>1, <2>2, <2>3 DEF NumberInv
<1>4. ASSUME NEW r \in Requests, InsertInvoice(r)
      PROVE  NumberInv'
  <2>1. CounterInv'
    BY <1>4, CounterUnchanged DEF NumberInv, InsertInvoice
  <2>2. rowLock' = rowLock
    BY <1>4 DEF InsertInvoice, NumberInv, TypeOK, HolderInv, Numbered
  <2>3. HolderInv' /\ NumbersNeverCollide'
    BY <1>4, <2>2 DEF InsertInvoice, NumberInv, TypeOK, HolderInv,
                      NumbersNeverCollide, NumberFrom, Numbered, Inserted
  <2>4. QED
    BY <1>1, <2>1, <2>3 DEF NumberInv
<1>4a. ASSUME NEW r \in Requests, Log(r)
       PROVE  NumberInv'
  <2>1. CounterInv'
    BY <1>4a, CounterUnchanged DEF NumberInv, Log
  <2>2. HolderInv' /\ NumbersNeverCollide'
    BY <1>4a DEF Log, NumberInv, TypeOK, HolderInv, NumbersNeverCollide,
                 NumberFrom, Numbered, Inserted
  <2>3. QED
    BY <1>1, <2>1, <2>2 DEF NumberInv
<1>5. ASSUME NEW r \in Requests, InsertFails(r)
      PROVE  NumberInv'
  <2>1. Rollback(r, "refused")
    BY <1>5, NumberIsFree DEF InsertFails, Numbered
  <2>2. QED
    BY <1>1, <2>1, RollbackNumbers DEF Ended
<1>6. ASSUME NEW r \in Requests, Abort(r)
      PROVE  NumberInv'
  BY <1>1, <1>6, RollbackNumbers DEF Abort, Ended
<1>7. ASSUME NEW r \in Requests, Commit(r)
      PROVE  NumberInv'
  BY <1>1, <1>7, CommitNumbers
<1>8. CASE NewYear \/ UNCHANGED vars
  <2>1. CounterInv'
    BY <1>8, CounterUnchanged DEF NumberInv, NewYear, vars
  <2>2. HolderInv' /\ NumbersNeverCollide'
    BY <1>8 DEF NumberInv, HolderInv, NumbersNeverCollide, NumberFrom,
                NewYear, vars
  <2>3. QED
    BY <1>1, <2>1, <2>2 DEF NumberInv
<1>9. QED
  BY <1>2, <1>3, <1>4, <1>4a, <1>5, <1>6, <1>7, <1>8 DEF Next, Step, Terminating

\* In every year the committed invoices are numbered from 1 without a gap.
THEOREM NumbersAreGapless == Spec => []Gapless
<1>1. NumberInv => Gapless
  BY DEF NumberInv, CounterInv, Gapless
<1>2. QED
  BY <1>1, InitNumbers, StepNumbers, PTL DEF Spec

\* No request loses its number to another one: the unique key never fires.
THEOREM NumbersAreNeverTaken == Spec => []NumbersNeverCollide
<1>1. NumberInv => NumbersNeverCollide
  BY DEF NumberInv
<1>2. QED
  BY <1>1, InitNumbers, StepNumbers, PTL DEF Spec

\* The tables keep their types: no invoice is numbered 0.
THEOREM TypeCorrect == Spec => []TypeOK
<1>1. NumberInv => TypeOK
  BY DEF NumberInv
<1>2. QED
  BY <1>1, InitNumbers, StepNumbers, PTL DEF Spec

-----------------------------------------------------------------------------
(* Amounts: each stored amount is the rounding of what its body asked for *)

BilledInv ==
    \A inv \in invoices :
        /\ inv.by \in Requests
        /\ inv.subtotal = Cents(bill[inv.by].subtotal)
        /\ inv.tax = Cents(bill[inv.by].tax)
        /\ inv.total = Cents(bill[inv.by].subtotal + bill[inv.by].tax)

\* Rounding a sum and its parts to cents loses a cent at most, and nothing
\* when the parts are whole cents.
LEMMA SumOfRoundings ==
    ASSUME NEW a \in Nat, NEW b \in Nat
    PROVE  /\ Cents(a + b) - Cents(a) - Cents(b) \in {-1, 0, 1}
           /\ a % 10 = 0 /\ b % 10 = 0 => Cents(a + b) = Cents(a) + Cents(b)
<1>1. ASSUME NEW n \in Nat
      PROVE  /\ Cents(n) \in Int
             /\ 10 * Cents(n) <= n + 5 /\ n + 5 < 10 * Cents(n) + 10
  BY <1>1 DEF Cents
<1>2. ASSUME NEW n \in Nat, n % 10 = 0
      PROVE  10 * Cents(n) = n
  BY <1>2 DEF Cents
<1>3. a + b \in Nat
  OBVIOUS
<1>4. PICK x \in Int, y \in Int, z \in Int :
         x = Cents(a) /\ y = Cents(b) /\ z = Cents(a + b)
  BY <1>1, <1>3
<1>5. /\ 10 * x <= a + 5 /\ a + 5 < 10 * x + 10
      /\ 10 * y <= b + 5 /\ b + 5 < 10 * y + 10
      /\ 10 * z <= a + b + 5 /\ a + b + 5 < 10 * z + 10
  BY <1>1, <1>3, <1>4
<1>6. z - x - y \in {-1, 0, 1}
  BY <1>5
<1>7. ASSUME a % 10 = 0, b % 10 = 0
      PROVE  z = x + y
  <2>1. 10 * x = a /\ 10 * y = b
    BY <1>2, <1>4, <1>7
  <2>2. QED
    BY <1>5, <2>1
<1>8. QED
  BY <1>4, <1>6, <1>7

LEMMA InitBilled == Init => BilledInv
  BY DEF Init, BilledInv

LEMMA StepBilled == BilledInv /\ [Next]_vars => BilledInv'
<1> SUFFICES ASSUME BilledInv, [Next]_vars
             PROVE  BilledInv'
  OBVIOUS
<1>1. bill' = bill
  BY DEF Next, Step, NewYear, Submit, EnsureCounter, LockCounter, InsertInvoice,
         InsertFails, Log, Commit, Abort, Rollback, Terminating, vars
<1>2. ASSUME NEW r \in Requests, Commit(r)
      PROVE  BilledInv'
  <2>1. invoices' = invoices \union {NewInvoice(r)}
    BY <1>2 DEF Commit
  <2>2. /\ NewInvoice(r).by = r
        /\ NewInvoice(r).subtotal = Cents(bill[r].subtotal)
        /\ NewInvoice(r).tax = Cents(bill[r].tax)
        /\ NewInvoice(r).total = Cents(bill[r].subtotal + bill[r].tax)
    BY DEF NewInvoice
  <2>3. QED
    BY <1>1, <2>1, <2>2 DEF BilledInv, Cents
<1>3. ASSUME invoices' = invoices
      PROVE  BilledInv'
  BY <1>1, <1>3 DEF BilledInv, Cents
<1>4. (\E r \in Requests : Commit(r)) \/ invoices' = invoices
  BY DEF Next, Step, NewYear, Submit, EnsureCounter, LockCounter, InsertInvoice,
         InsertFails, Log, Abort, Rollback, Terminating, vars
<1>5. QED
  BY <1>2, <1>3, <1>4

\* A stored total is within a cent of the sum of its stored parts, and is
\* that sum when the body had whole cents.
THEOREM TotalsAddUp == Spec => []TotalNearSum
<1>1. TypeOK /\ BilledInv => TotalNearSum
  <2> SUFFICES ASSUME TypeOK, BilledInv, NEW inv \in invoices
               PROVE  /\ inv.total - inv.subtotal - inv.tax \in {-1, 0, 1}
                      /\ (/\ bill[inv.by].subtotal % 10 = 0
                          /\ bill[inv.by].tax % 10 = 0) =>
                            inv.total = inv.subtotal + inv.tax
    BY DEF TotalNearSum
  <2>1. bill[inv.by] \in Payload
    BY PayloadsAssumption DEF TypeOK, BilledInv
  <2>2. PICK a \in Nat, b \in Nat :
           a = bill[inv.by].subtotal /\ b = bill[inv.by].tax
    BY <2>1 DEF Payload
  <2>3. inv.subtotal = Cents(a) /\ inv.tax = Cents(b) /\ inv.total = Cents(a + b)
    BY <2>2 DEF BilledInv
  <2>4. QED
    BY <2>2, <2>3, SumOfRoundings
<1>2. QED
  BY <1>1, TypeCorrect, InitBilled, StepBilled, PTL DEF Spec

-----------------------------------------------------------------------------
(* The audit log: a request that has written its row keeps the counter, so *)
(* no other row of the year comes in between.                              *)

IdsInv == \A a \in audit : a.id <= auditSeq

WrittenInv ==
    \A r \in Requests : pc[r] = "logged" =>
        \E id \in 1 .. auditSeq :
            /\ entry[r] = {[id |-> id, after |-> NewInvoice(r)]}
            /\ \A a \in audit : a.after.year = year[r] => a.id < id

ListInv == IdsInv /\ WrittenInv /\ AuditListsInvoices

LEMMA InitList == Init => ListInv
  BY DEF Init, ListInv, IdsInv, WrittenInv, AuditListsInvoices

\* What another request does leaves a written row's request as it was.
LEMMA WrittenUnchanged ==
    ASSUME TypeOK, TypeOK', WrittenInv, NEW q \in Requests,
           bill' = bill, year'[q] = year[q], number'[q] = number[q],
           pc'[q] = pc[q], entry'[q] = entry[q], auditSeq <= auditSeq',
           \A a \in audit' \ audit : a.after.year # year[q],
           pc'[q] = "logged"
    PROVE  \E id \in 1 .. auditSeq' :
               /\ entry'[q] = {[id |-> id, after |-> NewInvoice(q)']}
               /\ \A a \in audit' : a.after.year = year'[q] => a.id < id
<1>1. PICK id \in 1 .. auditSeq :
         /\ entry[q] = {[id |-> id, after |-> NewInvoice(q)]}
         /\ \A a \in audit : a.after.year = year[q] => a.id < id
  BY DEF WrittenInv
<1>2. NewInvoice(q)' = NewInvoice(q)
  BY DEF NewInvoice, Cents
<1>3. id \in 1 .. auditSeq'
  BY DEF TypeOK
<1>4. \A a \in audit' : a.after.year = year'[q] => a.id < id
  BY <1>1
<1>5. QED
  BY <1>1, <1>2, <1>3, <1>4

\* A step that commits nothing leaves the list as it is.
LEMMA ListUnchanged ==
    ASSUME TypeOK, TypeOK', ListInv,
           invoices' = invoices, audit' = audit, auditSeq <= auditSeq', WrittenInv'
    PROVE  ListInv'
<1>1. IdsInv'
  BY DEF ListInv, IdsInv, TypeOK, AuditRow
<1>2. AuditListsInvoices'
  BY DEF ListInv, AuditListsInvoices
<1>3. QED
  BY <1>1, <1>2 DEF ListInv

LEMMA CommitList ==
    ASSUME NumberInv, TypeOK', ListInv, NEW r \in Requests, Commit(r)
    PROVE  ListInv'
<1>1. /\ pc[r] = "logged" /\ pc[r] \in Numbered
      /\ TypeOK /\ year[r] \in Years /\ rowLock[year[r]] = r
      /\ number[r] = counter[year[r]] + 1 /\ counter[year[r]] \in Nat
  BY DEF Commit, NumberInv, TypeOK, HolderInv, NumberFrom, Numbered, Inserted
<1>2. PICK id \in 1 .. auditSeq :
         /\ entry[r] = {[id |-> id, after |-> NewInvoice(r)]}
         /\ \A a \in audit : a.after.year = year[r] => a.id < id
  BY <1>1 DEF ListInv, WrittenInv
<1>3. PICK new : new = [id |-> id, after |-> NewInvoice(r)]
  OBVIOUS
<1>4. /\ new.id = id /\ new.after = NewInvoice(r)
      /\ new.after.year = year[r] /\ new.after.seq = number[r]
  BY <1>3 DEF NewInvoice
<1>5. /\ audit' = audit \union {new} /\ auditSeq' = auditSeq
      /\ invoices' = invoices \union {new.after}
      /\ bill' = bill /\ year' = year /\ number' = number
      /\ pc'[r] = "created"
      /\ \A q \in Requests \ {r} : pc'[q] = pc[q] /\ entry'[q] = entry[q]
  BY <1>1, <1>2, <1>3, <1>4 DEF Commit, TypeOK
<1>6. IdsInv'
  BY <1>4, <1>5 DEF ListInv, IdsInv
<1>7. WrittenInv'
  <2> SUFFICES ASSUME NEW q \in Requests, pc'[q] = "logged"
               PROVE  \E i \in 1 .. auditSeq' :
                        /\ entry'[q] = {[id |-> i, after |-> NewInvoice(q)']}
                        /\ \A a \in audit' : a.after.year = year'[q] => a.id < i
    BY DEF WrittenInv, NewInvoice, Cents
  <2>1. q # r /\ pc[q] \in Numbered
    BY <1>5 DEF Numbered, Inserted
  <2>2. year[q] # year[r]
    BY <1>1, <2>1 DEF NumberInv, HolderInv
  <2>3. \A a \in audit' \ audit : a.after.year # year[q]
    BY <1>4, <1>5, <2>2
  <2>4. auditSeq <= auditSeq'
    BY <1>1, <1>5 DEF TypeOK
  <2>5. QED
    BY <1>1, <1>5, <2>1, <2>3, <2>4, WrittenUnchanged DEF ListInv
<1>8. {a.after : a \in audit'} = invoices'
  BY <1>5 DEF ListInv, AuditListsInvoices
<1>9. \A a \in audit : a.after.year = year[r] =>
         a.id < new.id /\ a.after.seq < new.after.seq
  <2> SUFFICES ASSUME NEW a \in audit, a.after.year = year[r]
               PROVE  a.after.seq < number[r]
    BY <1>2, <1>4
  <2>1. a.after \in OfYear(year[r])
    BY DEF ListInv, AuditListsInvoices, OfYear
  <2>2. a.after.seq \in 1 .. counter[year[r]]
    BY <1>1, <2>1 DEF NumberInv, CounterInv
  <2>3. QED
    BY <1>1, <2>2
<1>10. ASSUME NEW a \in audit', NEW b \in audit',
              a.after.year = b.after.year, a.id <= b.id
       PROVE  a.after.seq <= b.after.seq /\ (a.id = b.id => a = b)
  <2>0. /\ a.id \in Nat /\ b.id \in Nat
        /\ a.after.seq \in Nat /\ b.after.seq \in Nat
    BY DEF TypeOK, AuditRow, Invoice
  <2>1. CASE a \in audit /\ b \in audit
    BY <1>10, <2>1 DEF ListInv, AuditListsInvoices
  <2>2. CASE a = new /\ b = new
    BY <2>0, <2>2
  <2>3. CASE a \in audit /\ b = new
    BY <1>4, <1>9, <1>10, <2>0, <2>3
  <2>4. CASE a = new /\ b \in audit
    <3>1. b.id < a.id
      BY <1>4, <1>9, <1>10, <2>4
    <3>2. QED
      BY <1>10, <2>0, <3>1
  <2>5. QED
    BY <1>5, <2>1, <2>2, <2>3, <2>4
<1>11. AuditListsInvoices'
  BY <1>8, <1>10 DEF AuditListsInvoices
<1>12. QED
  BY <1>6, <1>7, <1>11 DEF ListInv

LEMMA StepList == NumberInv /\ TypeOK' /\ ListInv /\ [Next]_vars => ListInv'
<1> SUFFICES ASSUME NumberInv, TypeOK', ListInv, [Next]_vars
             PROVE  ListInv'
  OBVIOUS
<1>0. TypeOK /\ WrittenInv /\ auditSeq \in Nat
  BY DEF NumberInv, ListInv, TypeOK
<1>1. ASSUME NEW r \in Requests, Commit(r)
      PROVE  ListInv'
  BY <1>1, CommitList
<1>2. ASSUME NEW r \in Requests, Log(r)
      PROVE  ListInv'
  <2>1. /\ auditSeq' = auditSeq + 1 /\ audit' = audit /\ invoices' = invoices
        /\ bill' = bill /\ year' = year /\ number' = number
        /\ entry'[r] = {[id |-> auditSeq', after |-> NewInvoice(r)]}
        /\ \A q \in Requests \ {r} : pc'[q] = pc[q] /\ entry'[q] = entry[q]
    BY <1>0, <1>2 DEF Log, TypeOK
  <2>2. NewInvoice(r)' = NewInvoice(r)
    BY <2>1 DEF NewInvoice, Cents
  <2>3. /\ auditSeq' \in 1 .. auditSeq'
        /\ \A a \in audit' : a.id < auditSeq'
    BY <1>0, <2>1 DEF ListInv, IdsInv, TypeOK, AuditRow
  <2>4. ASSUME NEW q \in Requests \ {r}, pc'[q] = "logged"
        PROVE  \E i \in 1 .. auditSeq' :
                 /\ entry'[q] = {[id |-> i, after |-> NewInvoice(q)']}
                 /\ \A a \in audit' : a.after.year = year'[q] => a.id < i
    BY <1>0, <2>1, <2>4, WrittenUnchanged
  <2>5. WrittenInv'
    BY <2>1, <2>2, <2>3, <2>4 DEF WrittenInv, NewInvoice, Cents
  <2>6. QED
    BY <1>0, <2>1, <2>5, ListUnchanged
<1>3. ASSUME NEW r \in Requests,
             /\ pc'[r] # "logged"
             /\ \A q \in Requests \ {r} : /\ pc'[q] = pc[q]
                                          /\ entry'[q] = entry[q]
                                          /\ year'[q] = year[q]
                                          /\ number'[q] = number[q],
             bill' = bill, audit' = audit, auditSeq' = auditSeq,
             invoices' = invoices
      PROVE  ListInv'
  <2>1. ASSUME NEW q \in Requests, pc'[q] = "logged"
        PROVE  \E i \in 1 .. auditSeq' :
                 /\ entry'[q] = {[id |-> i, after |-> NewInvoice(q)']}
                 /\ \A a \in audit' : a.after.year = year'[q] => a.id < i
    BY <1>0, <1>3, <2>1, WrittenUnchanged
  <2>2. WrittenInv'
    BY <2>1 DEF WrittenInv, NewInvoice, Cents
  <2>3. QED
    BY <1>0, <1>3, <2>2, ListUnchanged
<1>4. ASSUME NEW r \in Requests, Submit(r)
      PROVE  ListInv'
  BY <1>0, <1>3, <1>4 DEF Submit, TypeOK, trail
<1>5. ASSUME NEW r \in Requests, EnsureCounter(r)
      PROVE  ListInv'
  BY <1>0, <1>3, <1>5 DEF EnsureCounter, TypeOK, trail
<1>6. ASSUME NEW r \in Requests, LockCounter(r)
      PROVE  ListInv'
  BY <1>0, <1>3, <1>6 DEF LockCounter, TypeOK, trail
<1>7. ASSUME NEW r \in Requests, InsertInvoice(r)
      PROVE  ListInv'
  BY <1>0, <1>3, <1>7 DEF InsertInvoice, TypeOK, trail
<1>8. ASSUME NEW r \in Requests, NEW outcome \in Ended, Rollback(r, outcome)
      PROVE  ListInv'
  BY <1>0, <1>3, <1>8 DEF Rollback, TypeOK, Ended
<1>9. ASSUME NEW r \in Requests, InsertFails(r) \/ Abort(r)
      PROVE  ListInv'
  BY <1>8, <1>9 DEF InsertFails, Abort, Ended
<1>10. CASE NewYear \/ UNCHANGED vars
  <2>1. /\ pc' = pc /\ entry' = entry /\ year' = year /\ number' = number
        /\ bill' = bill /\ audit' = audit /\ auditSeq' = auditSeq
        /\ invoices' = invoices
    BY <1>10 DEF NewYear, vars, trail
  <2>2. WrittenInv'
    BY <1>0, <2>1 DEF WrittenInv, NewInvoice, Cents
  <2>3. QED
    BY <1>0, <2>1, <2>2, ListUnchanged
<1>11. QED
  BY <1>1, <1>2, <1>4, <1>5, <1>6, <1>7, <1>9, <1>10 DEF Next, Step, Terminating

\* The audit log tells of exactly the invoices there are, each once, and of
\* those of a year in the order of their numbers.
THEOREM LogListsInvoices == Spec => []AuditListsInvoices
<1>1. NumberInv => TypeOK
  BY DEF NumberInv
<1>2. ListInv => AuditListsInvoices
  BY DEF ListInv
<1>3. QED
  BY <1>1, <1>2, InitNumbers, StepNumbers, InitList, StepList, PTL DEF Spec

-----------------------------------------------------------------------------
(* Refinement *)

\* Only a commit moves the numbering, and it takes the next number.
LEMMA StepTakes ==
    NumberInv /\ [Next]_vars => [Numbering!Next]_(Numbering!vars)
<1> SUFFICES ASSUME NumberInv, [Next]_vars
             PROVE  [Numbering!Next]_(Numbering!vars)
  OBVIOUS
<1>1. ASSUME NEW r \in Requests, Commit(r)
      PROVE  Numbering!Take(year[r])
  <2>1. number[r] = counter[year[r]] + 1 /\ year[r] \in Years
    BY <1>1 DEF Commit, NumberInv, TypeOK, HolderInv, NumberFrom, Numbered, Inserted
  <2>2. counter' = [counter EXCEPT ![year[r]] = @ + 1]
    BY <1>1, <2>1 DEF Commit
  <2>3. /\ invoices' = invoices \union {NewInvoice(r)}
        /\ <<NewInvoice(r).year, NewInvoice(r).seq>>
              = <<year[r], counter[year[r]] + 1>>
    BY <1>1, <2>1 DEF Commit, NewInvoice
  <2>4. {<<inv.year, inv.seq>> : inv \in invoices'}
           = {<<inv.year, inv.seq>> : inv \in invoices}
             \union {<<year[r], counter[year[r]] + 1>>}
    BY <2>3
  <2>5. QED
    BY <2>2, <2>4 DEF Numbering!Take
<1>2. ASSUME NEW r \in Requests, Commit(r)
      PROVE  Numbering!Next
  <2>1. year[r] \in Years
    BY <1>2 DEF NumberInv, TypeOK
  <2>2. Numbering!Take(year[r])
    BY <1>1, <1>2
  <2>3. QED
    BY <2>1, <2>2 DEF Numbering!Next, Numbering!Take
<1>3. CASE \/ NewYear
           \/ \E r \in Requests : \/ Submit(r) \/ EnsureCounter(r)
                                 \/ LockCounter(r) \/ InsertInvoice(r)
                                 \/ InsertFails(r) \/ Log(r) \/ Abort(r)
           \/ UNCHANGED vars
  <2>1. counter' = counter /\ invoices' = invoices
    BY <1>3 DEF NewYear, Submit, EnsureCounter, LockCounter, InsertInvoice,
                InsertFails, Log, Abort, Rollback, vars
  <2>2. QED
    BY <2>1 DEF Numbering!vars
<1>4. QED
  BY <1>2, <1>3 DEF Next, Step, Terminating

\* Creating invoices implements the abstract numbering: each commit hands out
\* the successor of the year's last number, and nothing takes one back.
THEOREM NumberingImplemented == Spec => ImplementsNumbering
<1>1. Init => Numbering!Init
  BY DEF Init, Numbering!Init
<1>2. QED
  BY <1>1, InitNumbers, StepNumbers, StepTakes, PTL
     DEF Spec, ImplementsNumbering, Numbering!Spec
=============================================================================
