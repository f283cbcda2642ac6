---------------------------- MODULE InvoicesProofs ----------------------------
(* Theorems about Invoices, for any requests, invoices, amounts and payments. *)
EXTENDS Invoices, LedgerEntriesProofs, SequenceTheorems

-----------------------------------------------------------------------------
(* The inductive invariant *)

Named(r) == task[r].invoice # NoInvoice

Pays(r) == task[r].kind \in {"receipt", "expense"}

\* Past its posting, and past its check of the invoice's row.
Past == {"pdf", "update", "record", "commit"}
Holding == {"post"} \union Past

\* Which operations come to which places.
PathInv ==
    \A r \in Requests :
        /\ pc[r] \in {"lock", "pdf", "update", "cutoff"} => Named(r)
        /\ pc[r] \in {"pdf", "cutoff"} => task[r].kind = "issue"
        /\ pc[r] = "record" => Pays(r)

\* From its check to its end a request has the lock of the row it read: the
\* row is still what it read, and still as the check wants it.
HoldsRow(r) ==
    LET i == task[r].invoice
    IN  /\ rowLock[i] = r
        /\ before[r] = invoice[i]
        /\ invoice[i].status \in MayStartFrom(task[r].kind)
        /\ task[r].kind = "receipt" => task[r].amount = billed[i].total

HolderInv ==
    /\ \A r \in Requests : Named(r) /\ pc[r] \in Holding => HoldsRow(r)
    /\ \A i \in Invoices, r \in Requests :
          rowLock[i] = r => task[r].invoice = i /\ pc[r] \in Holding

\* A request has posted once it holds the tip, except for the void of a draft.
PostedFor(r) ==
    /\ tipLock = r <=> posted[r] # {}
    /\ posted[r] # {} => pc[r] \in Past
    /\ pc[r] = "post" => ~ (task[r].kind = "void" /\ before[r].status = "draft")
    /\ \A p \in posted[r] : /\ p.by = r /\ p.kind = task[r].kind
                            /\ p.invoice = task[r].invoice
    /\ \A p, q \in posted[r] : p = q
    /\ pc[r] \in Past =>
          (posted[r] = {} <=> task[r].kind = "void" /\ before[r].status = "draft")

PostedInv == \A r \in Requests : PostedFor(r)

LedgerInv ==
    \A p \in ledger : pc[p.by] \in {"done", "lost"} /\ p.kind = task[p.by].kind

\* The audit row about a request's invoice, which will come last in its trail.
TellsOfInvoice(r, a) ==
    /\ Named(r) /\ a.about = task[r].invoice
    /\ a.before = SnapshotOf(before[r])
    /\ a.after = SnapshotOf(NewRow(r, before[r]))
    /\ \A b \in audit : b.about = a.about => b.id < a.id

ChangedFor(r) ==
    /\ \A a \in changed[r] : a.id <= auditSeq
    /\ changed[r] # {} => pc[r] \in {"record", "commit"}
    /\ \A a \in changed[r] : \/ TellsOfInvoice(r, a)
                             \/ Pays(r) /\ pc[r] = "commit" /\ a.about = r
    /\ \A a, b \in changed[r] : a.about = b.about => a = b
    /\ Named(r) /\ pc[r] \in {"record", "commit"} =>
          \E a \in changed[r] : a.about = task[r].invoice
    /\ Pays(r) /\ pc[r] = "commit" => \E a \in changed[r] : a.about = r

ChangedInv ==
    /\ \A a \in audit : a.id <= auditSeq
    /\ \A r \in Requests : ChangedFor(r)

RowsInv == \A i \in Invoices : invoice[i].status = "draft" => invoice[i] = DraftRow

\* The PDF on disk is the one of this issue, or a handler without connection
\* has replaced it.
DrawnBy(i, issue) == disk[i] = issue \/ \E r \in Requests : disk[i] = r /\ pc[r] = "cut"

DiskInv ==
    \A r \in Requests :
        task[r].kind = "issue" /\ pc[r] \in {"update", "commit"} => DrawnBy(task[r].invoice, r)

AllStored(entries) == [k \in DOMAIN entries |-> Stored(entries[k])]

TypeInv == TypeOK /\ PathInv

LockInv == TypeInv /\ HolderInv /\ PostedInv /\ RowsInv

TrailInv == LockInv /\ LedgerInv /\ ChangedInv /\ AuditTrailConnected

BookInv == TrailInv /\ PostingsMatchStatus /\ PaymentsAudited

FilesInv == DiskInv /\ PdfOfIssueUnlessCut

-----------------------------------------------------------------------------
(* Types *)

LEMMA TaskTyping ==
    ASSUME TypeOK, NEW r \in Requests
    PROVE  /\ task[r] \in Task
           /\ Named(r) => task[r].invoice \in Invoices /\ task[r].kind \in {"issue", "void", "receipt"}
           /\ ~Named(r) => Pays(r)
           /\ Pays(r) => task[r].kind \notin {"issue", "void"}
<1>1. task[r] \in Tasks
  BY DEF TypeOK
<1>2. CASE task[r] \in [kind : {"issue", "void"}, invoice : Invoices, amount : {0}]
  BY <1>2, NoInvoiceAssumption DEF Task, Named, Pays
<1>3. CASE task[r] \in [kind : {"receipt"}, invoice : Invoices \union {NoInvoice},
                        amount : Payments]
  BY <1>3, PaymentsAssumption DEF Task, Named, Pays
<1>4. CASE task[r] \in [kind : {"expense"}, invoice : {NoInvoice}, amount : Payments]
  BY <1>4, PaymentsAssumption DEF Task, Named, Pays
<1> QED BY <1>1, <1>2, <1>3, <1>4 DEF Tasks

LEMMA NewRowTyping ==
    ASSUME TypeOK, NEW r \in Requests, Named(r), NEW row \in Row
    PROVE  /\ NewRow(r, row) \in Row
           /\ NewRow(r, row).status = LeadsTo(task[r].kind)
           /\ SnapshotOf(row) \in Snapshot
           /\ SnapshotOf(NewRow(r, row)) \in Snapshot
<1>1. task[r].kind \in {"issue", "void", "receipt"}
  BY TaskTyping
<1>2. NewRow(r, row) \in Row /\ NewRow(r, row).status = LeadsTo(task[r].kind)
  BY <1>1 DEF NewRow, Row, LeadsTo
<1> QED BY <1>2 DEF SnapshotOf, Row, Snapshot

\* The amounts that reach the ledger are whole in the column's last decimal.
WholeEntry == {e \in Entry : \E a \in Int : e.amount = 10 * a}

LEMMA StoredWhole ==
    ASSUME NEW e \in WholeEntry, e.amount > 0
    PROVE  Stored(e) \in StoredEntry /\ 10 * Stored(e).amount = e.amount
<1>1. PICK a \in Int : e.amount = 10 * a
  BY DEF WholeEntry
<1>2. Round(e.amount) = a /\ a > 0
  BY <1>1 DEF Round
<1>3. e \in Entry
  BY DEF WholeEntry
<1>4. Stored(e) = [account |-> e.account, direction |-> e.direction, amount |-> a,
                   currency |-> e.currency]
  BY <1>2, <1>3 DEF Stored, Entry
<1> QED BY <1>1, <1>2, <1>3, <1>4 DEF StoredEntry, Entry

LEMMA LineWhole ==
    ASSUME NEW account \in AccountCodes, NEW direction \in Directions, NEW cents \in Int,
           HomeCurrency \in CurrencyCodes
    PROVE  Line(account, direction, cents) \in WholeEntry
<1>1. 1000 * cents = 10 * (100 * cents) /\ 100 * cents \in Int
  OBVIOUS
<1>2. Line(account, direction, cents).amount = 10 * (100 * cents)
  BY <1>1 DEF Line
<1>3. Line(account, direction, cents) \in Entry
  BY <1>1 DEF Line, Entry
<1> QED BY <1>1, <1>2, <1>3 DEF WholeEntry

\* The lines of the lists of entries.
LEMMA IssueLines ==
    ASSUME NEW amounts, amounts.tax \in Nat
    PROVE  LET entries == IssueEntries(amounts)
           IN  /\ DOMAIN entries = IF amounts.tax > 0 THEN {1, 2, 3} ELSE {1, 2}
               /\ Len(entries) = IF amounts.tax > 0 THEN 3 ELSE 2
               /\ entries[1] = Line("1000", "debit", amounts.total)
               /\ entries[2] = Line("4000", "credit", amounts.subtotal)
               /\ amounts.tax > 0 => entries[3] = Line("2000", "credit", amounts.tax)
<1> DEFINE a == Line("1000", "debit", amounts.total)
           b == Line("4000", "credit", amounts.subtotal)
           c == Line("2000", "credit", amounts.tax)
<1> HIDE DEF a, b, c
<1>1. <<a, b>> \o <<c>> = <<a, b, c>> /\ <<a, b>> \o <<>> = <<a, b>>
  <2> DEFINE S == {a, b, c}
             s == <<a, b>> \o <<c>>
  <2>1. /\ <<a, b>> \in Seq(S) /\ <<c>> \in Seq(S) /\ <<a, b, c>> \in Seq(S)
        /\ Len(<<a, b>>) = 2 /\ Len(<<c>>) = 1 /\ Len(<<a, b, c>>) = 3
    OBVIOUS
  <2> HIDE DEF S
  <2>2. /\ s \in Seq(S) /\ Len(s) = 2 + 1
        /\ \A i \in 1 .. 2 + 1 : s[i] = IF i <= 2 THEN <<a, b>>[i] ELSE <<c>>[i - 2]
    BY <2>1, ConcatProperties
  <2>3. s[1] = a /\ s[2] = b /\ s[3] = c
    BY <2>2
  <2> HIDE DEF s
  <2>4. \A i \in 1 .. Len(s) : s[i] = <<a, b, c>>[i]
    BY <2>2, <2>3
  <2>5. s = <<a, b, c>>
    BY <2>1, <2>2, <2>4, SeqEqual
  <2> QED BY <2>1, <2>5, ConcatEmptySeq DEF s
<1>2. IssueEntries(amounts) = IF amounts.tax > 0 THEN <<a, b, c>> ELSE <<a, b>>
  BY <1>1 DEF IssueEntries, a, b, c
<1>3. /\ DOMAIN <<a, b, c>> = {1, 2, 3} /\ Len(<<a, b, c>>) = 3
      /\ DOMAIN <<a, b>> = {1, 2} /\ Len(<<a, b>>) = 2
      /\ <<a, b, c>>[1] = a /\ <<a, b, c>>[2] = b /\ <<a, b, c>>[3] = c
      /\ <<a, b>>[1] = a /\ <<a, b>>[2] = b
  OBVIOUS
<1>4. CASE amounts.tax > 0
  BY <1>2, <1>3, <1>4 DEF a, b, c
<1>5. CASE ~ (amounts.tax > 0)
  BY <1>2, <1>3, <1>5 DEF a, b, c
<1> QED BY <1>4, <1>5


\* What can be posted is stored as entries of the table.
LEMMA EntriesTyping ==
    ASSUME TypeOK, NEW r \in Requests, NEW entries \in Postable(r)
    PROVE  /\ DOMAIN entries \in {{1, 2}, {1, 2, 3}} \union {1 .. n : n \in Nat}
           /\ \A k \in DOMAIN entries : /\ entries[k] \in WholeEntry
                                        /\ entries[k].amount > 0
<1>1. /\ entries \in EntriesOf(r)
      /\ \A k \in DOMAIN entries : /\ entries[k].account \in AccountCodes
                                   /\ entries[k].currency \in CurrencyCodes
                                   /\ entries[k].amount > 0
  BY ChartAssumption DEF Postable, ValidEntries, Resolvable
<1>2. task[r] \in Task
  BY TaskTyping
<1>3. CASE task[r].kind = "issue"
  <2> DEFINE amounts == billed[task[r].invoice]
  <2>1. /\ task[r].invoice \in Invoices /\ entries = IssueEntries(amounts)
    BY <1>1, <1>2, <1>3, TaskTyping DEF EntriesOf, Pays
  <2>2. amounts.tax \in Nat /\ amounts.total \in Nat /\ amounts.subtotal \in Nat
    BY <2>1, AmountsAssumption DEF TypeOK
  <2> HIDE DEF amounts
  <2>3. /\ DOMAIN entries = IF amounts.tax > 0 THEN {1, 2, 3} ELSE {1, 2}
        /\ entries[1] = Line("1000", "debit", amounts.total)
        /\ entries[2] = Line("4000", "credit", amounts.subtotal)
        /\ amounts.tax > 0 => entries[3] = Line("2000", "credit", amounts.tax)
    BY <2>1, <2>2, IssueLines
  <2>4. ASSUME NEW account, NEW direction \in Directions, NEW cents \in Nat,
               NEW k \in DOMAIN entries, entries[k] = Line(account, direction, cents)
        PROVE  entries[k] \in WholeEntry
    <3>1. account \in AccountCodes /\ HomeCurrency \in CurrencyCodes
      BY <1>1, <2>4 DEF Line
    <3> QED BY <2>4, <3>1, LineWhole
  <2>5. entries[1] \in WholeEntry /\ entries[2] \in WholeEntry
    BY <2>2, <2>3, <2>4 DEF Directions
  <2>6. amounts.tax > 0 => entries[3] \in WholeEntry
    BY <2>2, <2>3, <2>4 DEF Directions
  <2> QED BY <1>1, <2>3, <2>5, <2>6
<1>4. CASE task[r].kind = "void"
  <2>1. PICK p \in Originals(task[r].invoice) : entries = ReversalEntries(p)
    BY <1>1, <1>4 DEF EntriesOf
  <2>2. p \in Posting
    BY <2>1 DEF Originals, TypeOK
  <2>3. /\ DOMAIN entries = 1 .. Len(p.entries) /\ Len(p.entries) \in Nat
        /\ \A k \in DOMAIN entries : p.entries[k] \in StoredEntry /\ entries[k] = Flip(p.entries[k])
    BY <2>1, <2>2, LenProperties, ElementOfSeq DEF ReversalEntries, Posting
  <2>4. ASSUME NEW e \in StoredEntry PROVE Flip(e) \in WholeEntry
    <3>1. Flip(e) \in Entry /\ Flip(e).amount = 10 * e.amount /\ e.amount \in Int
      BY DEF Flip, Entry, StoredEntry, Directions
    <3> QED BY <3>1 DEF WholeEntry
  <2> QED BY <1>1, <2>3, <2>4
<1>5. CASE Pays(r)
  <2> DEFINE cents == task[r].amount
  <2>1. PICK from, to : entries = <<Line(to, "debit", cents), Line(from, "credit", cents)>>
    BY <1>1, <1>5 DEF EntriesOf, Pays, ReceiptEntries, ExpenseEntries
  <2>2. cents \in Nat
    BY <1>2 DEF Task
  <2> HIDE DEF cents
  <2>3. /\ DOMAIN entries = {1, 2}
        /\ entries[1] = Line(to, "debit", cents) /\ entries[2] = Line(from, "credit", cents)
    BY <2>1
  <2>4. ASSUME NEW account, NEW direction \in Directions,
               NEW k \in DOMAIN entries, entries[k] = Line(account, direction, cents)
        PROVE  entries[k] \in WholeEntry
    <3>1. account \in AccountCodes /\ HomeCurrency \in CurrencyCodes
      BY <1>1, <2>4 DEF Line
    <3> QED BY <2>2, <2>4, <3>1, LineWhole
  <2>5. entries[1] \in WholeEntry /\ entries[2] \in WholeEntry
    BY <2>3, <2>4 DEF Directions
  <2> QED BY <1>1, <2>3, <2>5
<1> QED BY <1>2, <1>3, <1>4, <1>5 DEF Task, Pays

LEMMA PostingTyping ==
    ASSUME TypeOK, NEW r \in Requests, NEW entries \in Postable(r)
    PROVE  NewPosting(r, entries) \in Posting
<1> DEFINE D == DOMAIN entries
<1>1. D \in {{1, 2}, {1, 2, 3}} \union {1 .. n : n \in Nat}
  BY EntriesTyping
<1>2. PICK n \in Nat : D = 1 .. n
  <2>1. {1, 2} = 1 .. 2 /\ {1, 2, 3} = 1 .. 3
    OBVIOUS
  <2> QED BY <1>1, <2>1
<1>3. \A k \in 1 .. n : Stored(entries[k]) \in StoredEntry
  BY <1>2, EntriesTyping, StoredWhole
<1>4. [k \in DOMAIN entries |-> Stored(entries[k])] \in Seq(StoredEntry)
  BY <1>2, <1>3
<1>5. task[r] \in Task
  BY TaskTyping
<1> QED BY <1>4, <1>5 DEF NewPosting, Posting, Task

-----------------------------------------------------------------------------
(* Every step keeps the types *)

LEMMA InitTyping == Init => TypeInv
<1> SUFFICES ASSUME Init PROVE TypeInv
  OBVIOUS
<1>1. DraftRow \in Row
  BY DEF DraftRow, Row
<1> QED BY <1>1 DEF Init, TypeInv, TypeOK, PathInv

LEMMA BeginTyping ==
    ASSUME TypeInv, NEW r \in Requests, Begin(r)
    PROVE  TypeInv'
<1>1. pc' \in [Requests -> {"idle"} \union Active \union Ended]
  BY DEF Begin, TypeInv, TypeOK, Active
<1>2. TypeOK'
  BY <1>1 DEF Begin, TypeInv, TypeOK, tables
<1>3. PathInv'
  BY DEF Begin, TypeInv, TypeOK, PathInv, Named, Pays
<1> QED BY <1>2, <1>3 DEF TypeInv

LEMMA LockTyping ==
    ASSUME TypeInv, NEW r \in Requests, LockInvoice(r)
    PROVE  TypeInv'
<1>1. /\ Named(r) /\ task[r].invoice \in Invoices
      /\ task[r].kind \in {"issue", "void", "receipt"}
  BY TaskTyping DEF LockInvoice, TypeInv, PathInv
<1>2. /\ pc' \in [Requests -> {"idle"} \union Active \union Ended]
      /\ pc'[r] \in {"post", "update", "rejected"}
      /\ \A q \in Requests \ {r} : pc'[q] = pc[q]
  BY DEF LockInvoice, TypeInv, TypeOK, Active, Ended, AfterLock
<1>3. before' \in [Requests -> Row] /\ rowLock' \in [Invoices -> Requests \union {Nobody}]
  BY <1>1 DEF LockInvoice, TypeInv, TypeOK
<1>4. TypeOK'
  BY <1>2, <1>3 DEF LockInvoice, TypeInv, TypeOK, tables
<1>5. PathInv'
  BY <1>1, <1>2 DEF LockInvoice, TypeInv, PathInv, Named, Pays
<1> QED BY <1>4, <1>5 DEF TypeInv

LEMMA PostTyping ==
    ASSUME TypeInv, NEW r \in Requests, PostLedger(r)
    PROVE  TypeInv'
<1>1. /\ pc' \in [Requests -> {"idle"} \union Active \union Ended]
      /\ pc'[r] = AfterPosting(r) /\ \A q \in Requests \ {r} : pc'[q] = pc[q]
  BY DEF PostLedger, TypeInv, TypeOK, Active, Ended, AfterPosting
<1>2. PICK entries \in Postable(r) : posted' = [posted EXCEPT ![r] = {NewPosting(r, entries)}]
  BY DEF PostLedger
<1>3. posted' \in [Requests -> SUBSET Posting]
  BY <1>2, PostingTyping DEF TypeInv, TypeOK
<1>4. TypeOK'
  BY <1>1, <1>3 DEF PostLedger, TypeInv, TypeOK, tables
<1>5. task' = task
  BY DEF PostLedger
<1>6. /\ pc'[r] \in {"lock", "pdf", "update", "cutoff"} => Named(r)
      /\ pc'[r] \in {"pdf", "cutoff"} => task[r].kind = "issue"
      /\ pc'[r] = "record" => Pays(r)
  BY <1>1, TaskTyping DEF AfterPosting, Named, TypeInv
<1>7. PathInv'
  BY <1>1, <1>5, <1>6 DEF TypeInv, PathInv, Named, Pays
<1> QED BY <1>4, <1>7 DEF TypeInv

\* A transaction that ends without a commit.
LEMMA UndoTyping ==
    ASSUME TypeInv, NEW r \in Requests, Undo(r),
           NEW place \in Ended \union {"cutoff"}, pc' = [pc EXCEPT ![r] = place],
           place = "cutoff" => Named(r) /\ task[r].kind = "issue"
    PROVE  TypeInv'
<1>1. pc' \in [Requests -> {"idle"} \union Active \union Ended]
  BY DEF TypeInv, TypeOK, Active, Ended
<1>2. /\ rowLock' \in [Invoices -> Requests \union {Nobody}]
      /\ tipLock' \in Requests \union {Nobody}
      /\ posted' \in [Requests -> SUBSET Posting]
      /\ changed' \in [Requests -> SUBSET AuditRow]
  BY DEF Undo, TypeInv, TypeOK
<1>3. TypeOK'
  BY <1>1, <1>2 DEF Undo, TypeInv, TypeOK, tables
<1>4. PathInv'
  BY DEF Undo, TypeInv, TypeOK, PathInv, Named, Pays, Ended
<1> QED BY <1>3, <1>4 DEF TypeInv

LEMMA WriteTyping ==
    ASSUME TypeInv, NEW r \in Requests, WritePdf(r)
    PROVE  TypeInv'
<1>1. /\ pc' \in [Requests -> {"idle"} \union Active \union Ended]
      /\ disk' \in [Invoices -> Requests \union {Nobody}]
  BY DEF WritePdf, TypeInv, TypeOK, Active, Ended
<1>2. TypeOK'
  BY <1>1 DEF WritePdf, TypeInv, TypeOK, tables
<1>3. PathInv'
  BY DEF WritePdf, TypeInv, TypeOK, PathInv, Named, Pays
<1> QED BY <1>2, <1>3 DEF TypeInv

LEMMA UpdateTyping ==
    ASSUME TypeInv, NEW r \in Requests, UpdateInvoice(r)
    PROVE  TypeInv'
<1>1. /\ Named(r) /\ task[r].invoice \in Invoices
      /\ task[r].kind \in {"issue", "void", "receipt"}
  BY TaskTyping DEF UpdateInvoice, TypeInv, PathInv
<1>2. /\ pc' \in [Requests -> {"idle"} \union Active \union Ended]
      /\ pc'[r] = IF task[r].kind = "receipt" THEN "record" ELSE "commit"
      /\ \A q \in Requests \ {r} : pc'[q] = pc[q]
  BY DEF UpdateInvoice, TypeInv, TypeOK, Active
<1>3. rowLock' \in [Invoices -> Requests \union {Nobody}] /\ auditSeq' \in Nat
  <2>1. auditSeq \in Nat /\ auditSeq' = auditSeq + 1
    BY DEF UpdateInvoice, TypeInv, TypeOK
  <2>2. rowLock' \in [Invoices -> Requests \union {Nobody}]
    BY DEF UpdateInvoice, TypeInv, TypeOK
  <2> QED BY <2>1, <2>2
<1>4. [id |-> auditSeq', about |-> task[r].invoice, before |-> SnapshotOf(before[r]),
       after |-> SnapshotOf(NewRow(r, before[r]))] \in AuditRow
  BY <1>1, <1>3, NewRowTyping DEF TypeInv, TypeOK, AuditRow
<1>5. changed' \in [Requests -> SUBSET AuditRow]
  BY <1>4 DEF UpdateInvoice, TypeInv, TypeOK
<1>6. TypeOK'
  BY <1>2, <1>3, <1>5 DEF UpdateInvoice, TypeInv, TypeOK, tables
<1>7. PathInv'
  BY <1>1, <1>2 DEF UpdateInvoice, TypeInv, PathInv, Named, Pays
<1> QED BY <1>6, <1>7 DEF TypeInv

LEMMA RecordTyping ==
    ASSUME TypeInv, NEW r \in Requests, Record(r)
    PROVE  TypeInv'
<1>1. pc' \in [Requests -> {"idle"} \union Active \union Ended] /\ auditSeq' \in Nat
  BY DEF Record, TypeInv, TypeOK, Active
<1>2. RecordOf(r, auditSeq') \in AuditRow
  BY <1>1 DEF RecordOf, AuditRow
<1>3. changed' \in [Requests -> SUBSET AuditRow]
  BY <1>2 DEF Record, TypeInv, TypeOK
<1>4. TypeOK'
  BY <1>1, <1>3 DEF Record, TypeInv, TypeOK, tables
<1>5. PathInv'
  BY DEF Record, TypeInv, TypeOK, PathInv, Named, Pays
<1> QED BY <1>4, <1>5 DEF TypeInv

LEMMA CommitTyping ==
    ASSUME TypeInv, NEW r \in Requests, NEW outcome \in {"done", "lost"}, Commit(r, outcome)
    PROVE  TypeInv'
<1>1. pc' \in [Requests -> {"idle"} \union Active \union Ended]
  BY DEF Commit, TypeInv, TypeOK, Ended
<1>2. /\ ledger' \subseteq Posting /\ audit' \subseteq AuditRow
      /\ rowLock' \in [Invoices -> Requests \union {Nobody}]
      /\ tipLock' \in Requests \union {Nobody}
      /\ posted' \in [Requests -> SUBSET Posting]
      /\ changed' \in [Requests -> SUBSET AuditRow]
  BY DEF Commit, TypeInv, TypeOK
<1>3. invoice' \in [Invoices -> Row]
  <2>1. ASSUME NEW i \in Invoices, i = task[r].invoice PROVE NewRow(r, invoice[i]) \in Row
    <3>1. Named(r)
      BY <2>1, NoInvoiceAssumption DEF Named
    <3> QED BY <3>1, NewRowTyping DEF TypeInv, TypeOK
  <2> QED BY <2>1 DEF Commit, TypeInv, TypeOK
<1>4. TypeOK'
  BY <1>1, <1>2, <1>3 DEF Commit, TypeInv, TypeOK
<1>5. PathInv'
  BY DEF Commit, TypeInv, TypeOK, PathInv, Named, Pays
<1> QED BY <1>4, <1>5 DEF TypeInv

\* The steps that change nothing but their request's own transaction end it,
\* or leave it without a connection.
LEMMA UndoSteps ==
    ASSUME TypeInv, NEW r \in Requests, PostRejected(r) \/ LoseConnection(r) \/ Abort(r)
    PROVE  /\ Undo(r) /\ pc[r] \in Active
           /\ \E place \in {"rejected", "cutoff", "lost"} :
                 /\ pc' = [pc EXCEPT ![r] = place]
                 /\ place = "cutoff" => Named(r) /\ task[r].kind = "issue"
BY DEF PostRejected, LoseConnection, Abort, Active, TypeInv, PathInv

LEMMA StepTyping == TypeInv /\ [Next]_vars => TypeInv'
<1> SUFFICES ASSUME TypeInv, [Next]_vars PROVE TypeInv'
  OBVIOUS
<1>1. ASSUME NEW r \in Requests, PostRejected(r) \/ LoseConnection(r) \/ Abort(r)
      PROVE  TypeInv'
  BY <1>1, UndoSteps, UndoTyping DEF Ended
<1>2. ASSUME NEW r \in Requests, Finish(r) \/ FinishUnanswered(r)
      PROVE  TypeInv'
  BY <1>2, CommitTyping DEF Finish, FinishUnanswered
<1>3. CASE UNCHANGED vars
  BY <1>3 DEF TypeInv, TypeOK, PathInv, Named, Pays, vars, tables
<1> QED BY <1>1, <1>2, <1>3, BeginTyping, LockTyping, PostTyping, WriteTyping,
           UpdateTyping, RecordTyping DEF Next, Step, Terminating

\* Statuses, rows, postings and audit rows stay what their columns allow, for
\* any invoices and requests: what is posted has positive amounts as stored.
THEOREM TypeCorrect == Spec => []TypeOK
<1>1. TypeInv => TypeOK
  BY DEF TypeInv
<1> QED BY <1>1, InitTyping, StepTyping, PTL DEF Spec
-----------------------------------------------------------------------------
(* Locks: from its check to its end a request has its row to itself *)

\* A step of r takes and gives back locks that nobody else has, and changes no
\* row that it has not locked.
LEMMA HolderStep ==
    ASSUME TypeInv, TypeInv', HolderInv, NEW r \in Requests, task' = task, billed' = billed,
           \A q \in Requests \ {r} : pc'[q] = pc[q] /\ before'[q] = before[q],
           \A i \in Invoices : \/ rowLock'[i] = rowLock[i]
                               \/ rowLock[i] \in {Nobody, r} /\ rowLock'[i] \in {Nobody, r},
           \A i \in Invoices : invoice'[i] = invoice[i] \/ rowLock[i] = r,
           (Named(r) /\ pc[r] \in Holding => HoldsRow(r))',
           \A i \in Invoices : rowLock'[i] = r => task[r].invoice = i /\ pc'[r] \in Holding
    PROVE  HolderInv'
<1>1. ASSUME NEW q \in Requests, q # r, Named(q), pc[q] \in Holding
      PROVE  HoldsRow(q)'
  <2> DEFINE i == task[q].invoice
  <2>1. i \in Invoices /\ HoldsRow(q)
    BY <1>1, TaskTyping DEF TypeInv, HolderInv
  <2>2. rowLock[i] = q /\ q # Nobody
    BY <2>1, NobodyAssumption DEF HoldsRow
  <2>3. rowLock'[i] = rowLock[i] /\ invoice'[i] = invoice[i]
    BY <1>1, <2>1, <2>2
  <2> QED BY <1>1, <2>1, <2>3 DEF HoldsRow
<1>2. ASSUME NEW q \in Requests, q # r, NEW i \in Invoices, rowLock'[i] = q
      PROVE  task[q].invoice = i /\ pc[q] \in Holding
  BY <1>2, NobodyAssumption DEF HolderInv
<1>3. \A q \in Requests : (Named(q) /\ pc[q] \in Holding => HoldsRow(q))'
  BY <1>1 DEF Named
<1>4. \A i \in Invoices, q \in Requests :
         rowLock'[i] = q => task'[q].invoice = i /\ pc'[q] \in Holding
  BY <1>2
<1> QED BY <1>3, <1>4 DEF HolderInv

LEMMA PostedStep ==
    ASSUME TypeInv, PostedInv, NEW r \in Requests, task' = task,
           \A q \in Requests \ {r} :
              pc'[q] = pc[q] /\ before'[q] = before[q] /\ posted'[q] = posted[q],
           \/ tipLock' = tipLock
           \/ tipLock \in {Nobody, r} /\ tipLock' \in {Nobody, r},
           PostedFor(r)'
    PROVE  PostedInv'
<1>1. ASSUME NEW q \in Requests, q # r
      PROVE  PostedFor(q)'
  <2>1. tipLock' = q <=> tipLock = q
    BY <1>1, NobodyAssumption
  <2> QED BY <1>1, <2>1 DEF PostedInv, PostedFor
<1> QED BY <1>1 DEF PostedInv

LEMMA InitLocks == Init => LockInv
<1> SUFFICES ASSUME Init PROVE HolderInv /\ PostedInv /\ RowsInv
  BY InitTyping DEF LockInv
<1>1. \A r \in Requests : pc[r] = "idle" /\ posted[r] = {}
  BY DEF Init
<1>2. HolderInv
  BY <1>1, NobodyAssumption DEF Init, HolderInv, Holding, Past
<1>3. PostedInv
  BY <1>1, NobodyAssumption DEF Init, PostedInv, PostedFor, Past
<1>4. RowsInv
  BY DEF Init, RowsInv
<1> QED BY <1>2, <1>3, <1>4

LEMMA BeginLocks ==
    ASSUME LockInv, TypeInv', NEW r \in Requests, Begin(r)
    PROVE  LockInv'
<1>0. TypeInv /\ HolderInv /\ PostedInv /\ RowsInv
  BY DEF LockInv
<1>1. /\ pc[r] = "idle" /\ \A q \in Requests \ {r} : pc'[q] = pc[q]
      /\ pc'[r] = IF Named(r) THEN "lock" ELSE "post"
      /\ invoice' = invoice /\ rowLock' = rowLock /\ tipLock' = tipLock /\ billed' = billed
      /\ task' = task /\ before' = before /\ posted' = posted
  BY <1>0 DEF Begin, TypeInv, TypeOK, Named, tables
<1>2. \A i \in Invoices : rowLock[i] # r
  BY <1>0, <1>1 DEF HolderInv, Holding, Past
<1>3. HolderInv'
  BY <1>0, <1>1, <1>2, HolderStep DEF Named, Holding, Past
<1>4. PostedFor(r)'
  BY <1>0, <1>1, TaskTyping DEF TypeInv, PostedInv, PostedFor, Past
<1>5. PostedInv'
  BY <1>0, <1>1, <1>4, PostedStep
<1> QED BY <1>0, <1>1, <1>3, <1>5 DEF LockInv, RowsInv

LEMMA LockLocks ==
    ASSUME LockInv, TypeInv', NEW r \in Requests, LockInvoice(r)
    PROVE  LockInv'
<1> DEFINE i == task[r].invoice
<1>0. TypeInv /\ HolderInv /\ PostedInv /\ RowsInv
  BY DEF LockInv
<1>1. /\ Named(r) /\ i \in Invoices /\ task[r].kind \in {"issue", "void", "receipt"}
      /\ pc[r] = "lock" /\ \A q \in Requests \ {r} : pc'[q] = pc[q] /\ before'[q] = before[q]
      /\ before'[r] = invoice[i]
      /\ invoice' = invoice /\ tipLock' = tipLock /\ billed' = billed
      /\ task' = task /\ posted' = posted
  BY <1>0, TaskTyping DEF LockInvoice, TypeInv, TypeOK, PathInv, tables
<1>2. \A j \in Invoices : rowLock[j] # r
  BY <1>0, <1>1 DEF HolderInv, Holding, Past
<1>3. CASE Acceptable(r)
  <2>1. /\ rowLock[i] \in {Nobody, r} /\ rowLock' = [rowLock EXCEPT ![i] = r]
        /\ rowLock'[i] = r /\ \A j \in Invoices \ {i} : rowLock'[j] = rowLock[j]
        /\ pc'[r] = AfterLock(r) /\ pc'[r] \in Holding
    BY <1>0, <1>1, <1>3
       DEF LockInvoice, RowFree, TypeInv, TypeOK, AfterLock, Holding, Past
  <2>2. HoldsRow(r)'
    BY <1>1, <1>3, <2>1 DEF HoldsRow, Acceptable
  <2>3. HolderInv'
    BY <1>0, <1>1, <1>2, <2>1, <2>2, HolderStep
  <2>4. PostedFor(r)'
    BY <1>0, <1>1, <2>1 DEF PostedInv, PostedFor, Past, AfterLock
  <2> QED BY <1>0, <1>1, <2>3, <2>4, PostedStep DEF LockInv, RowsInv
<1>4. CASE ~Acceptable(r)
  <2>1. rowLock' = rowLock /\ pc'[r] = "rejected"
    BY <1>0, <1>4 DEF LockInvoice, TypeInv, TypeOK
  <2>2. HolderInv'
    BY <1>0, <1>1, <1>2, <2>1, HolderStep DEF Holding, Past
  <2>3. PostedFor(r)'
    BY <1>0, <1>1, <2>1 DEF PostedInv, PostedFor, Past
  <2> QED BY <1>0, <1>1, <2>2, <2>3, PostedStep DEF LockInv, RowsInv
<1> QED BY <1>3, <1>4

LEMMA PostLocks ==
    ASSUME LockInv, TypeInv', NEW r \in Requests, PostLedger(r)
    PROVE  LockInv'
<1>0. TypeInv /\ HolderInv /\ PostedInv /\ RowsInv
  BY DEF LockInv
<1>1. /\ pc[r] = "post" /\ \A q \in Requests \ {r} : pc'[q] = pc[q] /\ posted'[q] = posted[q]
      /\ pc'[r] = AfterPosting(r) /\ pc'[r] \in Past
      /\ tipLock \in {Nobody, r} /\ tipLock' = r
      /\ invoice' = invoice /\ rowLock' = rowLock /\ billed' = billed
      /\ task' = task /\ before' = before
  BY <1>0 DEF PostLedger, TypeInv, TypeOK, tables, TipFree, AfterPosting, Past
<1>2. PICK entries \in Postable(r) : posted'[r] = {NewPosting(r, entries)}
  BY <1>0 DEF PostLedger, TypeInv, TypeOK
<1>3. HoldsRow(r)' <=> HoldsRow(r)
  BY <1>1 DEF HoldsRow
<1>4. HolderInv'
  <2>1. (Named(r) /\ pc[r] \in Holding => HoldsRow(r))'
    BY <1>0, <1>1, <1>3 DEF HolderInv, Holding, Named
  <2>2. \A i \in Invoices : rowLock'[i] = r => task[r].invoice = i /\ pc'[r] \in Holding
    BY <1>0, <1>1 DEF HolderInv, Holding
  <2> QED BY <1>0, <1>1, <2>1, <2>2, HolderStep
<1>5. ~ (task[r].kind = "void" /\ before[r].status = "draft")
  BY <1>0, <1>1 DEF PostedInv, PostedFor
<1>6. PostedFor(r)'
  <2> DEFINE p == NewPosting(r, entries)
  <2>1. p.by = r /\ p.kind = task[r].kind /\ p.invoice = task[r].invoice
    BY DEF NewPosting
  <2> HIDE DEF p
  <2>2. pc'[r] \in Past /\ pc'[r] # "post" /\ posted'[r] = {p}
    BY <1>1, <1>2 DEF Past, p
  <2> QED BY <1>1, <1>5, <2>1, <2>2 DEF PostedFor
<1> QED BY <1>0, <1>1, <1>4, <1>6, PostedStep DEF LockInv, RowsInv

\* Whatever ends a transaction without a commit frees its locks.
LEMMA UndoLocks ==
    ASSUME LockInv, TypeInv', NEW r \in Requests, Undo(r),
           NEW place \in {"rejected", "cutoff", "lost"}, pc' = [pc EXCEPT ![r] = place]
    PROVE  LockInv'
<1>0. TypeInv /\ HolderInv /\ PostedInv /\ RowsInv
  BY DEF LockInv
<1>1. /\ \A q \in Requests \ {r} : pc'[q] = pc[q] /\ posted'[q] = posted[q]
      /\ pc'[r] = place /\ place \notin Holding /\ posted'[r] = {}
      /\ invoice' = invoice /\ billed' = billed /\ task' = task /\ before' = before
      /\ \A i \in Invoices : rowLock'[i] = IF rowLock[i] = r THEN Nobody ELSE rowLock[i]
      /\ tipLock' = IF tipLock = r THEN Nobody ELSE tipLock
  BY <1>0 DEF Undo, TypeInv, TypeOK, tables, Holding, Past
<1>2. HolderInv'
  BY <1>0, <1>1, NobodyAssumption, HolderStep
<1>3. PostedFor(r)'
  BY <1>1, NobodyAssumption DEF PostedFor, Holding, Past
<1> QED BY <1>0, <1>1, <1>2, <1>3, PostedStep DEF LockInv, RowsInv

\* A step that keeps its request past its check or short of it.
LEMMA StayLocks ==
    ASSUME LockInv, TypeInv', NEW r \in Requests, task' = task, billed' = billed,
           invoice' = invoice, rowLock' = rowLock, tipLock' = tipLock, before' = before,
           posted' = posted, NEW place, pc' = [pc EXCEPT ![r] = place],
           \/ pc[r] \in Past /\ place \in Past
           \/ pc[r] \notin Holding /\ place \notin Holding
    PROVE  LockInv'
<1>0. TypeInv /\ HolderInv /\ PostedInv /\ RowsInv
  BY DEF LockInv
<1>1. pc'[r] = place /\ \A q \in Requests \ {r} : pc'[q] = pc[q]
  BY <1>0 DEF TypeInv, TypeOK
<1>2. (Named(r) /\ pc[r] \in Holding => HoldsRow(r))'
  BY <1>0, <1>1 DEF HolderInv, HoldsRow, Named, Holding
<1>3. HolderInv'
  <2>1. \A i \in Invoices : rowLock'[i] = r => task[r].invoice = i /\ pc'[r] \in Holding
    BY <1>0, <1>1 DEF HolderInv, Holding
  <2> QED BY <1>0, <1>1, <1>2, <2>1, HolderStep
<1>4. PostedFor(r)'
  BY <1>0, <1>1 DEF PostedInv, PostedFor, Past, Holding
<1> QED BY <1>0, <1>1, <1>3, <1>4, PostedStep DEF LockInv, RowsInv

LEMMA WriteLocks ==
    ASSUME LockInv, TypeInv', NEW r \in Requests, WritePdf(r)
    PROVE  LockInv'
<1>1. \/ pc[r] = "pdf" /\ pc' = [pc EXCEPT ![r] = "update"]
      \/ pc[r] = "cutoff" /\ pc' = [pc EXCEPT ![r] = "cut"]
  BY DEF WritePdf, LockInv, TypeInv, TypeOK
<1> QED BY <1>1, StayLocks DEF WritePdf, Past, Holding, tables

LEMMA UpdateLocks ==
    ASSUME LockInv, TypeInv', NEW r \in Requests, UpdateInvoice(r)
    PROVE  LockInv'
<1>1. Named(r) /\ task[r].invoice \in Invoices /\ pc[r] = "update"
  BY TaskTyping DEF UpdateInvoice, LockInv, TypeInv, PathInv
<1>2. rowLock[task[r].invoice] = r
  BY <1>1 DEF LockInv, HolderInv, HoldsRow, Holding, Past
<1>3. rowLock' = rowLock
  BY <1>1, <1>2 DEF UpdateInvoice, LockInv, TypeInv, TypeOK
<1>4. PICK place \in {"record", "commit"} : pc' = [pc EXCEPT ![r] = place]
  BY DEF UpdateInvoice
<1> QED BY <1>1, <1>3, <1>4, StayLocks DEF UpdateInvoice, Past, Holding, tables

LEMMA RecordLocks ==
    ASSUME LockInv, TypeInv', NEW r \in Requests, Record(r)
    PROVE  LockInv'
BY StayLocks DEF Record, Past, Holding, tables

LEMMA CommitLocks ==
    ASSUME LockInv, TypeInv', NEW r \in Requests, NEW outcome \in {"done", "lost"},
           Commit(r, outcome)
    PROVE  LockInv'
<1>0. TypeInv /\ HolderInv /\ PostedInv /\ RowsInv
  BY DEF LockInv
<1>1. /\ \A q \in Requests \ {r} : pc'[q] = pc[q] /\ posted'[q] = posted[q]
      /\ pc[r] = "commit" /\ pc'[r] = outcome /\ outcome \notin Holding /\ posted'[r] = {}
      /\ billed' = billed /\ task' = task /\ before' = before
      /\ \A i \in Invoices : rowLock'[i] = IF rowLock[i] = r THEN Nobody ELSE rowLock[i]
      /\ tipLock' = IF tipLock = r THEN Nobody ELSE tipLock
      /\ \A i \in Invoices : invoice'[i] = IF i = task[r].invoice
                                           THEN NewRow(r, invoice[i]) ELSE invoice[i]
  BY <1>0 DEF Commit, TypeInv, TypeOK, Holding, Past
<1>2. ASSUME NEW i \in Invoices, i = task[r].invoice
      PROVE  Named(r) /\ rowLock[i] = r
  <2>1. Named(r)
    BY <1>2, NoInvoiceAssumption DEF Named
  <2> QED BY <1>0, <1>1, <1>2, <2>1 DEF HolderInv, HoldsRow, Holding, Past
<1>3. HolderInv'
  BY <1>0, <1>1, <1>2, NobodyAssumption, HolderStep
<1>4. PostedFor(r)'
  BY <1>1, NobodyAssumption DEF PostedFor, Holding, Past
<1>5. PostedInv'
  BY <1>0, <1>1, <1>4, PostedStep
<1>6. RowsInv'
  <2>1. ASSUME NEW i \in Invoices, i = task[r].invoice
        PROVE  invoice'[i].status # "draft"
    <3>1. invoice[i] \in Row /\ task[r].kind \in {"issue", "void", "receipt"}
      BY <1>0, <1>2, <2>1, TaskTyping DEF TypeInv, TypeOK
    <3>2. invoice'[i].status = LeadsTo(task[r].kind)
      BY <1>0, <1>1, <1>2, <2>1, <3>1, NewRowTyping DEF TypeInv
    <3> QED BY <3>1, <3>2 DEF LeadsTo
  <2> QED BY <1>0, <1>1, <2>1 DEF RowsInv
<1> QED BY <1>3, <1>5, <1>6 DEF LockInv

LEMMA StepLocks == LockInv /\ [Next]_vars => LockInv'
<1> SUFFICES ASSUME LockInv, [Next]_vars PROVE LockInv'
  OBVIOUS
<1>0. TypeInv /\ TypeInv'
  BY StepTyping DEF LockInv
<1>1. ASSUME NEW r \in Requests, PostRejected(r) \/ LoseConnection(r) \/ Abort(r)
      PROVE  LockInv'
  BY <1>0, <1>1, UndoSteps, UndoLocks
<1>2. ASSUME NEW r \in Requests, Finish(r) \/ FinishUnanswered(r)
      PROVE  LockInv'
  BY <1>0, <1>2, CommitLocks DEF Finish, FinishUnanswered
<1>3. CASE UNCHANGED vars
  BY <1>0, <1>3 DEF LockInv, HolderInv, HoldsRow, PostedInv, PostedFor, RowsInv, Named, vars,
                    tables
<1> QED BY <1>0, <1>1, <1>2, <1>3, BeginLocks, LockLocks, PostLocks, WriteLocks,
           UpdateLocks, RecordLocks DEF Next, Step, Terminating
-----------------------------------------------------------------------------
(* What the locks give *)

\* Past its posting, a request has every lock it will need.
LEMMA PastRuns ==
    ASSUME LockInv, NEW r \in Requests, pc[r] \in Past
    PROVE  Running(r)
<1>1. pc[r] = "update" => rowLock[task[r].invoice] = r
  BY DEF LockInv, TypeInv, PathInv, HolderInv, HoldsRow, Holding, Past
<1> QED BY <1>1 DEF Running, Waiting, RowFree, Past, Active

LEMMA WaitsSuffice == LockInv => WaitsEnd
<1> SUFFICES ASSUME LockInv, NEW r \in Requests, Waiting(r)
             PROVE  \/ Running(HolderFor(r))
                    \/ Waiting(HolderFor(r)) /\ Running(HolderFor(HolderFor(r)))
  BY DEF WaitsEnd
<1>0. TypeInv /\ HolderInv /\ PostedInv
  BY DEF LockInv
<1>1. ASSUME NEW q \in Requests, pc[q] = "post", ~TipFree(q)
      PROVE  Running(HolderFor(q))
  <2>1. tipLock \in Requests /\ HolderFor(q) = tipLock
    BY <1>0, <1>1 DEF TipFree, HolderFor, TypeInv, TypeOK
  <2>2. pc[tipLock] \in Past
    BY <1>0, <2>1 DEF PostedInv, PostedFor
  <2> QED BY <2>1, <2>2, PastRuns
<1>2. CASE pc[r] \in {"lock", "update"} /\ ~RowFree(r)
  <2> DEFINE i == task[r].invoice
             h == rowLock[i]
  <2>1. i \in Invoices
    BY <1>0, <1>2, TaskTyping DEF TypeInv, PathInv
  <2>2. h \in Requests /\ HolderFor(r) = h
    BY <1>0, <1>2, <2>1 DEF RowFree, HolderFor, TypeInv, TypeOK
  <2>3. pc[h] \in Holding
    BY <1>0, <2>1, <2>2 DEF HolderInv
  <2> HIDE DEF h
  <2>4. CASE pc[h] \in Past
    BY <2>2, <2>4, PastRuns
  <2>5. CASE pc[h] = "post" /\ TipFree(h)
    BY <2>2, <2>5 DEF Running, Waiting, Active
  <2>6. CASE pc[h] = "post" /\ ~TipFree(h)
    BY <1>1, <2>2, <2>6 DEF Waiting
  <2> QED BY <2>3, <2>4, <2>5, <2>6 DEF Holding
<1> QED BY <1>1, <1>2 DEF Waiting

\* Whoever waits, waits for a request that can go on, or for one that waits
\* for such a one: there is no deadlock among any number of requests.
THEOREM NobodyWaitsInACircle == Spec => []WaitsEnd
<1> QED BY InitLocks, StepLocks, WaitsSuffice, PTL DEF Spec

\* Only a commit changes a row, and only the one it was made for.
LEMMA RowsChange ==
    ASSUME LockInv, [Next]_vars, NEW i \in Invoices, invoice'[i] # invoice[i]
    PROVE  \E r \in Requests :
              /\ Commit(r, "done") \/ Commit(r, "lost")
              /\ Named(r) /\ i = task[r].invoice
              /\ task[r].kind \in {"issue", "void", "receipt"}
              /\ invoice[i].status \in MayStartFrom(task[r].kind)
              /\ invoice'[i] = NewRow(r, invoice[i])
              /\ invoice'[i].status = LeadsTo(task[r].kind)
<1>1. PICK r \in Requests : Commit(r, "done") \/ Commit(r, "lost")
  BY DEF Next, Step, Terminating, vars, tables, Begin, LockInvoice, PostLedger, PostRejected,
         WritePdf, UpdateInvoice, Record, Finish, FinishUnanswered, LoseConnection, Abort, Undo
<1>2. i = task[r].invoice /\ invoice'[i] = NewRow(r, invoice[i]) /\ pc[r] = "commit"
  BY <1>1 DEF Commit, LockInv, TypeInv, TypeOK
<1>3. Named(r)
  BY <1>2, NoInvoiceAssumption DEF Named
<1>4. task[r].kind \in {"issue", "void", "receipt"} /\ invoice[i] \in Row
  BY <1>3, TaskTyping DEF LockInv, TypeInv, TypeOK
<1>5. invoice[i].status \in MayStartFrom(task[r].kind)
  BY <1>2, <1>3 DEF LockInv, HolderInv, HoldsRow, Holding, Past
<1>6. invoice'[i].status = LeadsTo(task[r].kind)
  BY <1>2, <1>3, <1>4, NewRowTyping DEF LockInv, TypeInv
<1> QED BY <1>1, <1>2, <1>3, <1>4, <1>5, <1>6

\* Statuses go one way, however the requests interleave: a handler never acts
\* on a row that has moved since it looked.
THEOREM StatusesGoOneWay == Spec => StatusOneWay
<1> DEFINE OneWay ==
              \A i \in Invoices :
                 \/ invoice'[i].status = invoice[i].status
                 \/ invoice[i].status = "draft" /\ invoice'[i].status \in {"issued", "void"}
                 \/ invoice[i].status = "issued" /\ invoice'[i].status \in {"paid", "void"}
<1>1. LockInv /\ [Next]_vars => OneWay
  BY RowsChange DEF MayStartFrom, LeadsTo
<1>2. LockInv /\ [Next]_vars => [OneWay]_vars
  BY <1>1
<1> QED BY <1>2, InitLocks, StepLocks, PTL DEF Spec, StatusOneWay

-----------------------------------------------------------------------------
(* The audit trail *)

TrailOf(i) == {a \in audit : a.about = i}

LastOf(rows) == CHOOSE b \in rows : \A c \in rows : c.id <= b.id

Connected(rows, row) ==
    /\ \A a \in rows :
          LET previous == {b \in rows : b.id < a.id}
          IN  a.before = IF previous = {} THEN SnapshotOf(DraftRow) ELSE LastOf(previous).after
    /\ SnapshotOf(row) = IF rows = {} THEN SnapshotOf(DraftRow) ELSE LastOf(rows).after

LEMMA TrailsConnected ==
    AuditTrailConnected <=> \A i \in Invoices : Connected(TrailOf(i), invoice[i])
BY DEF AuditTrailConnected, Connected, TrailOf, LastOf

\* A row that tells of the move from one state to the next, with the highest
\* id so far, continues a connected trail.
LEMMA TrailGrows ==
    ASSUME NEW rows, NEW a, NEW old, NEW new, Connected(rows, old),
           a.id \in Int, \A b \in rows : b.id \in Int /\ b.id < a.id,
           a.before = SnapshotOf(old), a.after = SnapshotOf(new)
    PROVE  Connected(rows \union {a}, new)
<1> DEFINE all == rows \union {a}
           Previous(x) == {b \in all : b.id < x.id}
<1>1. LastOf(all) = a
  <2>1. \A c \in all : c.id <= a.id
    OBVIOUS
  <2>2. \A b \in rows : ~ (\A c \in all : c.id <= b.id)
    OBVIOUS
  <2> HIDE DEF all
  <2>3. \A b \in all : (\A c \in all : c.id <= b.id) <=> b = a
    BY <2>1, <2>2 DEF all
  <2> QED BY <2>3 DEF LastOf, all
<1>2. Previous(a) = rows
  OBVIOUS
<1>3. \A x \in rows : Previous(x) = {b \in rows : b.id < x.id}
  OBVIOUS
<1>4. a.before = IF rows = {} THEN SnapshotOf(DraftRow) ELSE LastOf(rows).after
  BY DEF Connected
<1>5. \A x \in all :
         x.before = IF Previous(x) = {} THEN SnapshotOf(DraftRow) ELSE LastOf(Previous(x)).after
  BY <1>2, <1>3, <1>4 DEF Connected
<1> QED BY <1>1, <1>5 DEF Connected

LEMMA ChangedStep ==
    ASSUME TrailInv, NEW r \in Requests, task' = task, audit' = audit,
           auditSeq' \in Nat, auditSeq <= auditSeq',
           \A q \in Requests \ {r} :
              pc'[q] = pc[q] /\ before'[q] = before[q] /\ changed'[q] = changed[q],
           ChangedFor(r)'
    PROVE  ChangedInv'
<1>1. auditSeq \in Nat /\ audit \subseteq AuditRow /\ changed \in [Requests -> SUBSET AuditRow]
  BY DEF TrailInv, LockInv, TypeInv, TypeOK
<1>2. \A a \in AuditRow : a.id \in Nat
  BY DEF AuditRow
<1>3. \A a \in audit : a.id <= auditSeq'
  BY <1>1, <1>2 DEF TrailInv, ChangedInv
<1>4. ASSUME NEW q \in Requests, q # r
      PROVE  ChangedFor(q)'
  <2>1. \A a : TellsOfInvoice(q, a)' <=> TellsOfInvoice(q, a)
    BY <1>4 DEF TellsOfInvoice, Named, NewRow
  <2>2. ChangedFor(q) /\ \A a \in changed[q] : a.id \in Nat
    BY <1>1, <1>2 DEF TrailInv, ChangedInv
  <2>3. \A a \in changed'[q] : a.id <= auditSeq'
    BY <1>1, <1>4, <2>2 DEF ChangedFor
  <2> QED BY <1>4, <2>1, <2>2, <2>3 DEF ChangedFor, Named, Pays
<1> QED BY <1>3, <1>4 DEF ChangedInv

LEMMA LedgerStep ==
    ASSUME TrailInv, NEW r \in Requests, task' = task, ledger' = ledger,
           pc[r] \notin {"done", "lost"}, \A q \in Requests \ {r} : pc'[q] = pc[q]
    PROVE  LedgerInv'
<1>1. \A p \in ledger : p.by \in Requests
  BY DEF TrailInv, LockInv, TypeInv, TypeOK, Posting
<1> QED BY <1>1 DEF TrailInv, LedgerInv

\* Without a commit, trails and rows stay.
LEMMA TrailStay ==
    ASSUME TrailInv, audit' = audit, invoice' = invoice
    PROVE  AuditTrailConnected'
BY DEF TrailInv, AuditTrailConnected

LEMMA InitTrail == Init => TrailInv
<1> SUFFICES ASSUME Init PROVE LedgerInv /\ ChangedInv /\ AuditTrailConnected
  BY InitLocks DEF TrailInv
<1>1. ChangedInv
  BY DEF Init, ChangedInv, ChangedFor
<1>2. AuditTrailConnected
  BY DEF Init, AuditTrailConnected
<1> QED BY <1>1, <1>2 DEF Init, LedgerInv
\* A step after which its request has no audit row to commit.
LEMMA QuietTrail ==
    ASSUME TrailInv, LockInv', NEW r \in Requests, task' = task, audit' = audit,
           ledger' = ledger, invoice' = invoice, auditSeq' = auditSeq,
           pc[r] \notin {"done", "lost"}, before' \in [Requests -> Row],
           \A q \in Requests \ {r} :
              pc'[q] = pc[q] /\ before'[q] = before[q] /\ changed'[q] = changed[q],
           changed'[r] = {}, pc'[r] # "commit", pc'[r] = "record" => ~Named(r)
    PROVE  TrailInv'
<1>1. auditSeq \in Nat
  BY DEF TrailInv, LockInv, TypeInv, TypeOK
<1>2. ChangedFor(r)'
  BY DEF ChangedFor, Named
<1>3. ChangedInv'
  BY <1>1, <1>2, ChangedStep
<1> QED BY <1>3, LedgerStep, TrailStay DEF TrailInv

LEMMA QuietSteps ==
    ASSUME TrailInv, LockInv', NEW r \in Requests,
           Begin(r) \/ LockInvoice(r) \/ PostLedger(r) \/ WritePdf(r)
    PROVE  TrailInv'
<1>0. TypeInv /\ TypeInv' /\ LockInv
  BY DEF TrailInv, LockInv
<1>1. /\ pc[r] \notin {"done", "lost", "record", "commit"}
      /\ task' = task /\ audit' = audit /\ ledger' = ledger /\ invoice' = invoice
      /\ auditSeq' = auditSeq /\ changed' = changed
      /\ \A q \in Requests \ {r} : pc'[q] = pc[q] /\ before'[q] = before[q]
  BY <1>0 DEF Begin, LockInvoice, PostLedger, WritePdf, tables, TypeInv, TypeOK
<1>2. changed'[r] = {}
  BY <1>1 DEF TrailInv, ChangedInv, ChangedFor
<1>3. pc'[r] # "commit" /\ (pc'[r] = "record" => ~Named(r))
  BY <1>0 DEF Begin, LockInvoice, PostLedger, WritePdf, TypeInv, TypeOK, AfterLock,
              AfterPosting, Named
<1>4. before' \in [Requests -> Row]
  BY <1>0 DEF TypeInv, TypeOK
<1> QED BY <1>1, <1>2, <1>3, <1>4, QuietTrail

LEMMA UndoTrail ==
    ASSUME TrailInv, LockInv', NEW r \in Requests,
           PostRejected(r) \/ LoseConnection(r) \/ Abort(r)
    PROVE  TrailInv'
<1>0. TypeInv /\ TypeInv'
  BY DEF TrailInv, LockInv
<1>1. PICK place \in {"rejected", "cutoff", "lost"} : pc' = [pc EXCEPT ![r] = place]
  BY <1>0, UndoSteps
<1>2. Undo(r) /\ pc[r] \in Active
  BY <1>0, UndoSteps
<1>3. /\ pc[r] \notin {"done", "lost"} /\ pc'[r] \notin {"commit", "record"}
      /\ task' = task /\ audit' = audit /\ ledger' = ledger /\ invoice' = invoice
      /\ auditSeq' = auditSeq /\ changed'[r] = {} /\ before' = before
      /\ \A q \in Requests \ {r} : pc'[q] = pc[q] /\ changed'[q] = changed[q]
  BY <1>0, <1>1, <1>2 DEF Undo, Active, tables, TypeInv, TypeOK
<1>4. before' \in [Requests -> Row]
  BY <1>0 DEF TypeInv, TypeOK
<1> QED BY <1>3, <1>4, QuietTrail

LEMMA UpdateTrail ==
    ASSUME TrailInv, LockInv', NEW r \in Requests, UpdateInvoice(r)
    PROVE  TrailInv'
<1> PICK a : a = [id |-> auditSeq', about |-> task[r].invoice,
                  before |-> SnapshotOf(before[r]),
                  after |-> SnapshotOf(NewRow(r, before[r]))]
  OBVIOUS
<1>0. TypeInv /\ TypeInv' /\ LockInv
  BY DEF TrailInv, LockInv
<1>1. Named(r) /\ task[r].kind \in {"issue", "void", "receipt"} /\ pc[r] = "update"
  BY <1>0, TaskTyping DEF UpdateInvoice, TypeInv, PathInv
<1>2. /\ task' = task /\ audit' = audit /\ ledger' = ledger /\ invoice' = invoice
      /\ auditSeq \in Nat /\ auditSeq' = auditSeq + 1 /\ before' = before
      /\ changed'[r] = {a}
      /\ \A q \in Requests \ {r} : pc'[q] = pc[q] /\ changed'[q] = changed[q]
      /\ pc'[r] = IF task[r].kind = "receipt" THEN "record" ELSE "commit"
  BY <1>0 DEF UpdateInvoice, tables, TypeInv, TypeOK
<1>3. /\ a.id = auditSeq' /\ a.about = task[r].invoice
      /\ a.before = SnapshotOf(before[r]) /\ a.after = SnapshotOf(NewRow(r, before[r]))
  OBVIOUS
<1>4. TellsOfInvoice(r, a)'
  <2>1. \A b \in audit : b.id \in Nat /\ b.id <= auditSeq
    BY <1>0 DEF TrailInv, ChangedInv, TypeInv, TypeOK, AuditRow
  <2>2. \A b \in audit : b.id < a.id
    BY <1>2, <1>3, <2>1
  <2>3. NewRow(r, before[r])' = NewRow(r, before[r])
    BY <1>2 DEF NewRow
  <2> QED BY <1>1, <1>2, <1>3, <2>2, <2>3 DEF TellsOfInvoice, Named
<1>5. ChangedFor(r)'
  <2>1. ~ (Pays(r) /\ pc'[r] = "commit") /\ pc'[r] \in {"record", "commit"}
    BY <1>1, <1>2 DEF Pays
  <2> QED BY <1>2, <1>3, <1>4, <2>1 DEF ChangedFor, Pays
<1>6. ChangedInv'
  BY <1>2, <1>5, ChangedStep
<1> QED BY <1>1, <1>2, <1>6, LedgerStep, TrailStay DEF TrailInv

LEMMA RecordTrail ==
    ASSUME TrailInv, LockInv', NEW r \in Requests, Record(r)
    PROVE  TrailInv'
<1> PICK a : a = RecordOf(r, auditSeq')
  OBVIOUS
<1>0. TypeInv /\ TypeInv' /\ LockInv
  BY DEF TrailInv, LockInv
<1>1. Pays(r) /\ pc[r] = "record"
  BY <1>0 DEF Record, TypeInv, PathInv
<1>2. /\ task' = task /\ audit' = audit /\ ledger' = ledger /\ invoice' = invoice
      /\ auditSeq \in Nat /\ auditSeq' = auditSeq + 1 /\ before' = before
      /\ changed'[r] = changed[r] \union {a}
      /\ \A q \in Requests \ {r} : pc'[q] = pc[q] /\ changed'[q] = changed[q]
      /\ pc'[r] = "commit"
  BY <1>0 DEF Record, tables, TypeInv, TypeOK
<1>3. a.id = auditSeq' /\ a.about = r
  BY DEF RecordOf
<1>4. \A b \in changed[r] : TellsOfInvoice(r, b) /\ TellsOfInvoice(r, b)'
  <2>1. \A b \in changed[r] : TellsOfInvoice(r, b)
    BY <1>1 DEF TrailInv, ChangedInv, ChangedFor
  <2> QED BY <1>2, <2>1 DEF TellsOfInvoice, Named, NewRow
<1>5. \A b \in changed[r] : b.about # r
  <2>1. Named(r) => task[r].invoice \in Invoices
    BY <1>0, TaskTyping DEF TypeInv
  <2> QED BY <1>4, <2>1, NamesAssumption DEF TellsOfInvoice
<1>6. \A b \in changed[r] : b.id \in Nat /\ b.id <= auditSeq
  BY <1>0 DEF TrailInv, ChangedInv, ChangedFor, TypeInv, TypeOK, AuditRow
<1>7. ChangedFor(r)'
  <2>1. \A b \in changed'[r] : b.id <= auditSeq'
    BY <1>2, <1>3, <1>6
  <2>2. \A b \in changed'[r] : TellsOfInvoice(r, b)' \/ b.about = r
    BY <1>2, <1>3, <1>4
  <2>3. \A b, c \in changed'[r] : b.about = c.about => b = c
    BY <1>2, <1>3, <1>5 DEF TrailInv, ChangedInv, ChangedFor
  <2>4. Named(r) => \E b \in changed'[r] : b.about = task[r].invoice
    BY <1>1, <1>2 DEF TrailInv, ChangedInv, ChangedFor
  <2> QED BY <1>1, <1>2, <1>3, <2>1, <2>2, <2>3, <2>4 DEF ChangedFor, Named, Pays
<1>8. ChangedInv'
  BY <1>2, <1>7, ChangedStep
<1> QED BY <1>1, <1>2, <1>8, LedgerStep, TrailStay DEF TrailInv

\* What is special about the rows a request commits.
LEMMA OwnRows ==
    ASSUME TrailInv, NEW r \in Requests
    PROVE  \A a \in changed[r] :
              /\ a.id \in Nat
              /\ a.about \in Invoices => TellsOfInvoice(r, a) /\ a.about = task[r].invoice
              /\ a.about \in Requests => a.about = r /\ Pays(r) /\ pc[r] = "commit"
              /\ a.about \in Invoices \union Requests
<1>0. TypeOK
  BY DEF TrailInv, LockInv, TypeInv
<1>1. \A a \in changed[r] : a.id \in Nat /\ a.about \in Invoices \union Requests
  BY <1>0 DEF TypeOK, AuditRow
<1>2. \A a \in changed[r] : \/ TellsOfInvoice(r, a)
                            \/ Pays(r) /\ pc[r] = "commit" /\ a.about = r
  BY DEF TrailInv, ChangedInv, ChangedFor
<1>3. Named(r) => task[r].invoice \in Invoices
  BY <1>0, TaskTyping
<1> QED BY <1>1, <1>2, <1>3, NamesAssumption DEF TellsOfInvoice

LEMMA CommitTrail ==
    ASSUME TrailInv, LockInv', NEW r \in Requests, NEW outcome \in {"done", "lost"},
           Commit(r, outcome)
    PROVE  TrailInv'
<1>0. TypeInv /\ TypeInv' /\ LockInv /\ HolderInv /\ PostedInv
  BY DEF TrailInv, LockInv
<1>1. /\ task' = task /\ audit' = audit \union changed[r] /\ ledger' = ledger \union posted[r]
      /\ auditSeq' = auditSeq /\ before' = before /\ pc[r] = "commit" /\ pc'[r] = outcome
      /\ changed'[r] = {}
      /\ \A q \in Requests \ {r} : pc'[q] = pc[q] /\ changed'[q] = changed[q]
      /\ \A i \in Invoices : invoice'[i] = IF i = task[r].invoice
                                           THEN NewRow(r, invoice[i]) ELSE invoice[i]
  BY <1>0 DEF Commit, TypeInv, TypeOK
<1>2. LedgerInv'
  <2>1. \A p \in ledger : p.by \in Requests /\ p.by # r
    BY <1>0, <1>1 DEF TrailInv, LedgerInv, TypeInv, TypeOK, Posting
  <2>2. \A p \in posted[r] : p.by = r /\ p.kind = task[r].kind
    BY <1>0 DEF PostedInv, PostedFor
  <2> QED BY <1>1, <2>1, <2>2 DEF TrailInv, LedgerInv
<1>3. ASSUME NEW q \in Requests, q # r
      PROVE  ChangedFor(q)'
  <2>1. ASSUME NEW a \in changed[q], TellsOfInvoice(q, a) PROVE TellsOfInvoice(q, a)'
    <3>1. Named(q) /\ pc[q] \in Holding /\ task[q].invoice \in Invoices
      BY <1>0, <2>1, TaskTyping
         DEF TrailInv, ChangedInv, ChangedFor, TellsOfInvoice, Holding, Past, TypeInv
    <3>2. rowLock[task[q].invoice] = q
      BY <1>0, <3>1 DEF HolderInv, HoldsRow
    <3>3. Named(r) => rowLock[task[r].invoice] = r
      BY <1>0, <1>1 DEF HolderInv, HoldsRow, Holding, Past
    <3>4. \A b \in changed[r] : b.about # task[q].invoice
      BY <1>3, <3>1, <3>2, <3>3, OwnRows DEF TellsOfInvoice
    <3> QED BY <1>1, <2>1, <3>4 DEF TellsOfInvoice, Named, NewRow
  <2>2. ChangedFor(q)
    BY DEF TrailInv, ChangedInv
  <2>3. \A a \in changed[q] : TellsOfInvoice(q, a)' \/ (Pays(q) /\ pc[q] = "commit" /\ a.about = q)
    BY <2>1, <2>2 DEF ChangedFor
  <2> QED BY <1>1, <1>3, <2>2, <2>3 DEF ChangedFor, Named, Pays
<1>4. ChangedInv'
  <2>1. \A a \in audit' : a.id <= auditSeq
    BY <1>1 DEF TrailInv, ChangedInv, ChangedFor
  <2>2. ChangedFor(r)'
    BY <1>1 DEF ChangedFor
  <2> QED BY <1>1, <1>3, <2>1, <2>2 DEF ChangedInv
<1>5. ASSUME NEW i \in Invoices
      PROVE  Connected(TrailOf(i)', invoice'[i])
  <2>1. Connected(TrailOf(i), invoice[i])
    BY TrailsConnected DEF TrailInv
  <2>2. CASE i # task[r].invoice
    <3>1. TrailOf(i)' = TrailOf(i)
      BY <1>1, <2>2, OwnRows DEF TrailOf
    <3> QED BY <1>1, <2>1, <2>2, <3>1
  <2>3. CASE i = task[r].invoice
    <3>1. Named(r)
      BY <2>3, NoInvoiceAssumption DEF Named
    <3>2. PICK a \in changed[r] : a.about = i
      BY <1>1, <2>3, <3>1 DEF TrailInv, ChangedInv, ChangedFor
    <3>3. TrailOf(i)' = TrailOf(i) \union {a}
      BY <1>1, <3>2 DEF TrailOf, TrailInv, ChangedInv, ChangedFor
    <3>4. TellsOfInvoice(r, a) /\ before[r] = invoice[i]
      BY <1>0, <1>1, <2>3, <3>1, <3>2, OwnRows DEF HolderInv, HoldsRow, Holding, Past
    <3>5. /\ a.id \in Int /\ \A b \in TrailOf(i) : b.id \in Int /\ b.id < a.id
          /\ a.before = SnapshotOf(invoice[i])
          /\ a.after = SnapshotOf(NewRow(r, invoice[i]))
      BY <1>0, <3>2, <3>4, OwnRows DEF TellsOfInvoice, TrailOf, TypeInv, TypeOK, AuditRow
    <3>6. Connected(TrailOf(i) \union {a}, NewRow(r, invoice[i]))
      BY <2>1, <3>5, TrailGrows
    <3> QED BY <1>1, <2>3, <3>3, <3>6
  <2> QED BY <2>2, <2>3
<1>6. AuditTrailConnected'
  <2>1. (\A i \in Invoices : Connected(TrailOf(i), invoice[i]))'
    BY <1>5
  <2> QED BY <2>1 DEF AuditTrailConnected, Connected, TrailOf, LastOf
<1> QED BY <1>2, <1>4, <1>6 DEF TrailInv

LEMMA StepTrail == TrailInv /\ [Next]_vars => TrailInv'
<1> SUFFICES ASSUME TrailInv, [Next]_vars PROVE TrailInv'
  OBVIOUS
<1>0. LockInv'
  BY StepLocks DEF TrailInv
<1>1. ASSUME NEW r \in Requests, Finish(r) \/ FinishUnanswered(r)
      PROVE  TrailInv'
  BY <1>0, <1>1, CommitTrail DEF Finish, FinishUnanswered
<1>2. CASE UNCHANGED vars
  <2>1. \A r \in Requests : ChangedFor(r)' <=> ChangedFor(r)
    BY <1>2 DEF ChangedFor, TellsOfInvoice, Named, NewRow, Pays, vars, tables
  <2>2. ChangedInv'
    BY <1>2, <2>1 DEF TrailInv, ChangedInv, vars, tables
  <2>3. LedgerInv'
    BY <1>2 DEF TrailInv, LedgerInv, vars, tables
  <2> QED BY <1>0, <1>2, <2>2, <2>3, TrailStay DEF TrailInv, vars, tables
<1> QED BY <1>0, <1>1, <1>2, QuietSteps, UndoTrail, UpdateTrail, RecordTrail
        DEF Next, Step, Terminating

\* Whatever the order in which requests draw audit ids and commit, the trail
\* of every invoice tells one unbroken history that ends at the row.
THEOREM TrailsUnbroken == Spec => []AuditTrailConnected
<1>1. TrailInv => AuditTrailConnected
  BY DEF TrailInv
<1> QED BY <1>1, InitTrail, StepTrail, PTL DEF Spec
-----------------------------------------------------------------------------
(* The books and the log *)

Committing(r) == Commit(r, "done") \/ Commit(r, "lost")

\* The tables change by commits only.
LEMMA OnlyCommits ==
    ASSUME [Next]_vars
    PROVE  \/ \E r \in Requests : Committing(r)
           \/ invoice' = invoice /\ ledger' = ledger /\ audit' = audit
BY DEF Next, Step, Terminating, vars, tables, Begin, LockInvoice, PostLedger, PostRejected,
       WritePdf, UpdateInvoice, Record, Finish, FinishUnanswered, LoseConnection, Abort, Undo,
       Committing

LEMMA CommitEffect ==
    ASSUME TypeInv, NEW r \in Requests, Committing(r)
    PROVE  /\ pc[r] = "commit" /\ pc'[r] \in {"done", "lost"} /\ task' = task
           /\ billed' = billed /\ disk' = disk
           /\ ledger' = ledger \union posted[r] /\ audit' = audit \union changed[r]
           /\ \A q \in Requests \ {r} : pc'[q] = pc[q] /\ posted'[q] = posted[q]
           /\ posted'[r] = {}
           /\ \A i \in Invoices : invoice'[i] = IF i = task[r].invoice
                                                THEN NewRow(r, invoice[i]) ELSE invoice[i]
BY DEF Committing, Commit, TypeInv, TypeOK

\* What a request that commits has about its invoice.
LEMMA CommitOf ==
    ASSUME LockInv, NEW r \in Requests, pc[r] = "commit", NEW i \in Invoices,
           i = task[r].invoice
    PROVE  /\ Named(r) /\ task[r].kind \in {"issue", "void", "receipt"}
           /\ rowLock[i] = r /\ invoice[i] \in Row /\ before[r] = invoice[i]
           /\ invoice[i].status \in MayStartFrom(task[r].kind)
           /\ NewRow(r, invoice[i]).status = LeadsTo(task[r].kind)
           /\ task[r].kind = "receipt" => task[r].amount = billed[i].total
<1>1. Named(r)
  BY NoInvoiceAssumption DEF Named
<1>2. HoldsRow(r) /\ TypeOK /\ invoice[i] \in Row
  BY <1>1 DEF LockInv, TypeInv, TypeOK, HolderInv, Holding, Past
<1>3. task[r].kind \in {"issue", "void", "receipt"}
  BY <1>1, <1>2, TaskTyping
<1>4. NewRow(r, invoice[i]).status = LeadsTo(task[r].kind)
  BY <1>1, <1>2, NewRowTyping
<1> QED BY <1>1, <1>2, <1>3, <1>4 DEF HoldsRow

Match(status, postings) ==
    LET kinds == {p.kind : p \in postings}
    IN  /\ CASE status = "draft" -> kinds = {}
             [] status = "issued" -> kinds = {"issue"}
             [] status = "paid" -> kinds = {"issue", "receipt"}
             [] status = "void" -> kinds \in {{}, {"issue", "void"}}
        /\ \A p, q \in postings : p.kind = q.kind => p = q

LEMMA MatchStep ==
    ASSUME NEW status, NEW postings, NEW new, NEW kind \in {"issue", "void", "receipt"},
           Match(status, postings), status \in MayStartFrom(kind),
           \A p \in new : p.kind = kind, \A p, q \in new : p = q,
           new = {} <=> kind = "void" /\ status = "draft"
    PROVE  Match(LeadsTo(kind), postings \union new)
<1> DEFINE all == postings \union new
           kinds == {p.kind : p \in postings}
           after == {p.kind : p \in all}
<1>1. after = IF new = {} THEN kinds ELSE kinds \union {kind}
  OBVIOUS
<1>2. /\ \A p, q \in postings : p.kind = q.kind => p = q
      /\ status = "draft" => kinds = {}
      /\ status = "issued" => kinds = {"issue"}
  BY DEF Match
<1>3. \A p \in postings : p.kind \in kinds
  OBVIOUS
<1> HIDE DEF kinds
<1>4. CASE kind = "issue"
  <2>1. status = "draft" /\ new # {}
    BY <1>4 DEF MayStartFrom
  <2>2. after = {"issue"} /\ postings = {}
    BY <1>1, <1>2, <1>3, <1>4, <2>1
  <2> QED BY <1>4, <2>2 DEF Match, LeadsTo
<1>5. CASE kind = "receipt"
  <2>1. status = "issued" /\ new # {}
    BY <1>5 DEF MayStartFrom
  <2>2. after = {"issue", "receipt"} /\ \A p \in postings : p.kind = "issue"
    BY <1>1, <1>2, <1>3, <1>5, <2>1
  <2>3. \A p, q \in all : p.kind = q.kind => p = q
    BY <1>2, <1>5, <2>2
  <2> QED BY <1>5, <2>2, <2>3 DEF Match, LeadsTo
<1>6. CASE kind = "void" /\ status = "issued"
  <2>1. after = {"issue", "void"} /\ \A p \in postings : p.kind = "issue"
    BY <1>1, <1>2, <1>3, <1>6
  <2>2. \A p, q \in all : p.kind = q.kind => p = q
    BY <1>2, <1>6, <2>1
  <2> QED BY <1>6, <2>1, <2>2 DEF Match, LeadsTo
<1>7. CASE kind = "void" /\ status = "draft"
  <2>1. all = postings /\ after = {}
    BY <1>1, <1>2, <1>7
  <2> QED BY <1>2, <1>7, <2>1 DEF Match, LeadsTo
<1> QED BY <1>4, <1>5, <1>6, <1>7 DEF MayStartFrom

LEMMA MatchKept ==
    ASSUME LockInv, PostingsMatchStatus, NEW r \in Requests, Committing(r)
    PROVE  PostingsMatchStatus'
<1>0. TypeInv /\ \A i \in Invoices : Match(invoice[i].status, PostingsOf(i))
  BY DEF LockInv, PostingsMatchStatus, Match
<1>1. /\ pc[r] = "commit" /\ ledger' = ledger \union posted[r]
      /\ \A i \in Invoices : invoice'[i] = IF i = task[r].invoice
                                           THEN NewRow(r, invoice[i]) ELSE invoice[i]
  BY <1>0, CommitEffect
<1>2. PostedFor(r)
  BY DEF LockInv, PostedInv
<1>3. ASSUME NEW i \in Invoices
      PROVE  Match(invoice'[i].status, PostingsOf(i)')
  <2>1. CASE i # task[r].invoice
    <3>1. PostingsOf(i)' = PostingsOf(i)
      BY <1>1, <1>2, <2>1 DEF PostingsOf, PostedFor
    <3> QED BY <1>0, <1>1, <2>1, <3>1
  <2>2. CASE i = task[r].invoice
    <3>1. PostingsOf(i)' = PostingsOf(i) \union posted[r]
      BY <1>1, <1>2, <2>2 DEF PostingsOf, PostedFor
    <3>2. /\ task[r].kind \in {"issue", "void", "receipt"}
          /\ invoice[i].status \in MayStartFrom(task[r].kind) /\ before[r] = invoice[i]
          /\ invoice'[i].status = LeadsTo(task[r].kind)
      BY <1>1, <2>2, CommitOf
    <3>3. /\ \A p \in posted[r] : p.kind = task[r].kind
          /\ \A p, q \in posted[r] : p = q
          /\ posted[r] = {} <=> task[r].kind = "void" /\ invoice[i].status = "draft"
      BY <1>1, <1>2, <3>2 DEF PostedFor, Past
    <3>4. Match(invoice[i].status, PostingsOf(i))
      BY <1>0
    <3>5. Match(LeadsTo(task[r].kind), PostingsOf(i) \union posted[r])
      BY <3>2, <3>3, <3>4, MatchStep
    <3> QED BY <3>1, <3>2, <3>5
  <2> QED BY <2>1, <2>2
<1>4. (\A i \in Invoices : Match(invoice[i].status, PostingsOf(i)))'
  BY <1>3
<1> QED BY <1>4 DEF PostingsMatchStatus, Match

LEMMA PaymentsKept ==
    ASSUME TrailInv, PaymentsAudited, NEW r \in Requests, Committing(r)
    PROVE  PaymentsAudited'
<1> DEFINE payments == {p.by : p \in {q \in ledger : q.kind \in {"receipt", "expense"}}}
           rows == {a \in audit : a.about \in Requests}
           mine == {a \in changed[r] : a.about = r}
<1>0. TypeInv /\ PostedFor(r) /\ ChangedFor(r)
  BY DEF TrailInv, LockInv, PostedInv, ChangedInv
<1>1. /\ pc[r] = "commit"
      /\ ledger' = ledger \union posted[r] /\ audit' = audit \union changed[r]
  BY <1>0, CommitEffect
<1>2. {a.about : a \in rows} = payments /\ \A a, b \in rows : a.about = b.about => a = b
  BY DEF PaymentsAudited
<1>3. r \notin payments
  BY <1>1 DEF TrailInv, LedgerInv
<1>4. rows' = rows \union mine
  BY <1>1, OwnRows
<1>5. \A a, b \in rows' : a.about = b.about => a = b
  BY <1>0, <1>2, <1>3, <1>4 DEF ChangedFor
<1>6. CASE Pays(r)
  <2>1. {a.about : a \in mine} = {r}
    BY <1>0, <1>1, <1>6 DEF ChangedFor
  <2>2. posted[r] # {} /\ \A p \in posted[r] : p.by = r /\ p.kind \in {"receipt", "expense"}
    BY <1>0, <1>1, <1>6 DEF PostedFor, Past, Pays
  <2>3. payments' = payments \union {r}
    BY <1>1, <2>2
  <2>4. {a.about : a \in rows'} = {a.about : a \in rows} \union {a.about : a \in mine}
    BY <1>4
  <2>5. {a.about : a \in rows'} = payments'
    BY <1>2, <2>1, <2>3, <2>4
  <2> QED BY <1>5, <2>5 DEF PaymentsAudited
<1>7. CASE ~Pays(r)
  <2>1. mine = {}
    BY <1>7, OwnRows
  <2>2. \A p \in posted[r] : p.kind \notin {"receipt", "expense"}
    BY <1>0, <1>7 DEF PostedFor, Pays
  <2>3. payments' = payments
    BY <1>1, <2>2
  <2>4. {a.about : a \in rows'} = payments'
    BY <1>2, <1>4, <2>1, <2>3
  <2> QED BY <1>5, <2>4 DEF PaymentsAudited
<1> QED BY <1>6, <1>7

LEMMA InitBooks == Init => BookInv
<1> SUFFICES ASSUME Init PROVE PostingsMatchStatus /\ PaymentsAudited
  BY InitTrail DEF BookInv
<1>1. PostingsMatchStatus
  BY DEF Init, PostingsMatchStatus, PostingsOf, DraftRow
<1>2. PaymentsAudited
  BY DEF Init, PaymentsAudited
<1> QED BY <1>1, <1>2

LEMMA StepBooks == BookInv /\ [Next]_vars => BookInv'
<1> SUFFICES ASSUME BookInv, [Next]_vars PROVE BookInv'
  OBVIOUS
<1>1. TrailInv /\ TrailInv' /\ LockInv
  BY StepTrail DEF BookInv, TrailInv
<1>2. ASSUME NEW r \in Requests, Committing(r)
      PROVE  BookInv'
  BY <1>1, <1>2, MatchKept, PaymentsKept DEF BookInv
<1>3. CASE invoice' = invoice /\ ledger' = ledger /\ audit' = audit
  BY <1>1, <1>3 DEF BookInv, PostingsMatchStatus, PostingsOf, PaymentsAudited
<1> QED BY <1>2, <1>3, OnlyCommits

\* The books say of each invoice what its row says: issued once, paid once,
\* reversed once, for any number of requests about it.
THEOREM BooksMatchRows == Spec => []PostingsMatchStatus
<1>1. BookInv => PostingsMatchStatus
  BY DEF BookInv
<1> QED BY <1>1, InitBooks, StepBooks, PTL DEF Spec

\* The books and the log tell of the same receipts and expenses, each once.
THEOREM PaymentsInLog == Spec => []PaymentsAudited
<1>1. BookInv => PaymentsAudited
  BY DEF BookInv
<1> QED BY <1>1, InitBooks, StepBooks, PTL DEF Spec
-----------------------------------------------------------------------------
(* The PDF *)

\* A handler that drew without a connection has ended.
LEMMA CutsStay ==
    ASSUME TypeInv, [Next]_vars, NEW q \in Requests, pc[q] = "cut"
    PROVE  pc'[q] = "cut"
<1>1. ASSUME NEW r \in Requests,
             \/ Begin(r) \/ LockInvoice(r) \/ PostLedger(r) \/ PostRejected(r) \/ WritePdf(r)
             \/ UpdateInvoice(r) \/ Record(r) \/ Finish(r) \/ FinishUnanswered(r)
             \/ LoseConnection(r) \/ Abort(r)
      PROVE  pc[r] # "cut" /\ pc'[q] = IF q = r THEN pc'[q] ELSE pc[q]
  BY <1>1 DEF TypeInv, TypeOK, Begin, LockInvoice, PostLedger, PostRejected, WritePdf,
              UpdateInvoice, Record, Finish, FinishUnanswered, Commit, LoseConnection, Abort,
              Active
<1>2. CASE UNCHANGED vars
  BY <1>2 DEF vars
<1> QED BY <1>1, <1>2 DEF Next, Step, Terminating

\* Only WritePdf changes a file.
LEMMA OnlyWrites ==
    ASSUME [Next]_vars
    PROVE  (\E r \in Requests : WritePdf(r)) \/ disk' = disk
BY DEF Next, Step, Terminating, vars, Begin, LockInvoice, PostLedger, PostRejected, Commit,
       UpdateInvoice, Record, Finish, FinishUnanswered, LoseConnection, Abort, Undo

\* How a request comes to the end of an issue.
LEMMA IssueEnds ==
    ASSUME LockInv, [Next]_vars, NEW r \in Requests, task[r].kind = "issue",
           pc'[r] \in {"update", "commit"}
    PROVE  pc[r] \in {"update", "commit"} \/ WritePdf(r)
<1>0. TypeInv /\ Named(r)
  BY TaskTyping DEF LockInv, TypeInv, Pays
<1>1. ASSUME NEW q \in Requests, q # r,
             \/ Begin(q) \/ LockInvoice(q) \/ PostLedger(q) \/ PostRejected(q) \/ WritePdf(q)
             \/ UpdateInvoice(q) \/ Record(q) \/ Finish(q) \/ FinishUnanswered(q)
             \/ LoseConnection(q) \/ Abort(q)
      PROVE  pc'[r] = pc[r]
  BY <1>0, <1>1 DEF TypeInv, TypeOK, Begin, LockInvoice, PostLedger, PostRejected, WritePdf,
              UpdateInvoice, Record, Finish, FinishUnanswered, Commit, LoseConnection, Abort
<1>2. ASSUME \/ Begin(r) \/ LockInvoice(r) \/ PostLedger(r) \/ PostRejected(r)
             \/ Finish(r) \/ FinishUnanswered(r) \/ LoseConnection(r) \/ Abort(r)
      PROVE  FALSE
  BY <1>0, <1>2 DEF TypeInv, TypeOK, Named, Begin, LockInvoice, AfterLock, PostLedger,
       AfterPosting, PostRejected, Finish, FinishUnanswered, Commit, LoseConnection, Abort
<1>3. ASSUME UpdateInvoice(r) \/ Record(r) PROVE pc[r] = "update"
  BY <1>0, <1>3 DEF UpdateInvoice, Record, TypeInv, PathInv, Pays
<1>4. CASE UNCHANGED vars
  BY <1>4 DEF vars
<1> QED BY <1>1, <1>2, <1>3, <1>4 DEF Next, Step, Terminating

LEMMA InitFiles == Init => FilesInv
BY DEF Init, FilesInv, DiskInv, PdfOfIssueUnlessCut, DraftRow

LEMMA PdfKept ==
    ASSUME LockInv, LockInv', FilesInv, [Next]_vars
    PROVE  PdfOfIssueUnlessCut'
<1>0. TypeInv /\ DiskInv /\ PdfOfIssueUnlessCut
  BY DEF LockInv, FilesInv
<1> SUFFICES ASSUME NEW i \in Invoices
             PROVE  /\ invoice'[i].status \in {"issued", "paid"} => invoice'[i].pdf
                    /\ invoice'[i].pdf => DrawnBy(i, invoice[i].issued_at)'
  BY DEF PdfOfIssueUnlessCut, DrawnBy
<1>1. /\ invoice[i].status \in {"issued", "paid"} => invoice[i].pdf
      /\ invoice[i].pdf => DrawnBy(i, invoice[i].issued_at)
  BY <1>0 DEF PdfOfIssueUnlessCut, DrawnBy
<1>2. ASSUME NEW issue, disk'[i] = disk[i], DrawnBy(i, issue)
      PROVE  disk'[i] = issue \/ \E q \in Requests : disk'[i] = q /\ pc'[q] = "cut"
  BY <1>0, <1>2, CutsStay DEF DrawnBy
<1>3. CASE invoice'[i] = invoice[i] /\ disk'[i] = disk[i]
  BY <1>1, <1>2, <1>3 DEF DrawnBy
<1>4. CASE invoice'[i] # invoice[i]
  <2>1. PICK r \in Requests :
           /\ Commit(r, "done") \/ Commit(r, "lost")
           /\ Named(r) /\ i = task[r].invoice
           /\ task[r].kind \in {"issue", "void", "receipt"}
           /\ invoice[i].status \in MayStartFrom(task[r].kind)
           /\ invoice'[i] = NewRow(r, invoice[i])
           /\ invoice'[i].status = LeadsTo(task[r].kind)
    BY <1>4, RowsChange
  <2>2. disk' = disk /\ pc[r] = "commit"
    BY <2>1 DEF Commit
  <2>3. CASE task[r].kind = "issue"
    <3>1. DrawnBy(i, r)
      BY <1>0, <2>1, <2>2, <2>3 DEF DiskInv
    <3>2. invoice'[i].pdf /\ invoice'[i].issued_at = r
      BY <2>1, <2>3 DEF NewRow
    <3> QED BY <1>2, <2>2, <3>1, <3>2 DEF DrawnBy
  <2>4. CASE task[r].kind # "issue"
    <3>1. invoice[i] \in Row
      BY <1>0 DEF TypeInv, TypeOK
    <3>2. invoice'[i].pdf = invoice[i].pdf /\ invoice'[i].issued_at = invoice[i].issued_at
      BY <2>1, <2>4, <3>1 DEF NewRow, Row
    <3>3. invoice'[i].status = "paid" => invoice[i].status = "issued"
      BY <2>1, <2>4 DEF LeadsTo, MayStartFrom
    <3>4. invoice'[i].status # "issued"
      BY <2>1, <2>4 DEF LeadsTo
    <3> QED BY <1>1, <1>2, <2>2, <3>2, <3>3, <3>4 DEF DrawnBy
  <2> QED BY <2>3, <2>4
<1>5. CASE invoice'[i] = invoice[i] /\ disk'[i] # disk[i]
  <2>1. PICK r \in Requests : WritePdf(r)
    BY <1>5, OnlyWrites
  <2>2. i = task[r].invoice /\ disk'[i] = r
    BY <1>0, <1>5, <2>1 DEF WritePdf, TypeInv, TypeOK
  <2>3. CASE pc[r] = "cutoff"
    <3>1. pc'[r] = "cut"
      BY <1>0, <2>1, <2>3 DEF WritePdf, TypeInv, TypeOK
    <3> QED BY <1>1, <1>5, <2>2, <3>1 DEF DrawnBy
  <2>4. CASE pc[r] = "pdf"
    <3>1. task[r].kind = "issue" /\ Named(r) /\ HoldsRow(r)
      BY <1>0, <2>4 DEF TypeInv, PathInv, LockInv, HolderInv, Holding, Past
    <3>2. invoice[i] = DraftRow
      BY <2>2, <3>1 DEF HoldsRow, MayStartFrom, LockInv, RowsInv
    <3> QED BY <1>5, <3>2 DEF DraftRow
  <2> QED BY <2>1, <2>3, <2>4 DEF WritePdf
<1> QED BY <1>3, <1>4, <1>5

LEMMA DrawnKept ==
    ASSUME LockInv, LockInv', FilesInv, [Next]_vars
    PROVE  DiskInv'
<1>0. TypeInv /\ DiskInv /\ HolderInv
  BY DEF LockInv, FilesInv
<1>1. task' = task
  BY DEF Next, Step, Terminating, vars, Begin, LockInvoice, PostLedger, PostRejected, WritePdf,
         UpdateInvoice, Record, Finish, FinishUnanswered, Commit, LoseConnection, Abort, Undo
<1> SUFFICES ASSUME NEW r \in Requests, task[r].kind = "issue", pc'[r] \in {"update", "commit"},
                    NEW i, i = task[r].invoice
             PROVE  disk'[i] = r \/ \E q \in Requests : disk'[i] = q /\ pc'[q] = "cut"
  BY <1>1 DEF DiskInv, DrawnBy
<1>2. i \in Invoices /\ Named(r)
  BY <1>0, TaskTyping DEF TypeInv, Pays
<1>3. CASE WritePdf(r)
  BY <1>0, <1>2, <1>3 DEF WritePdf, TypeInv, TypeOK
<1>4. CASE ~WritePdf(r) /\ disk'[i] = disk[i]
  <2>1. DrawnBy(i, r)
    BY <1>0, <1>4, IssueEnds DEF DiskInv
  <2> QED BY <1>0, <1>4, <2>1, CutsStay DEF DrawnBy
<1>5. CASE ~WritePdf(r) /\ disk'[i] # disk[i]
  <2>1. PICK q \in Requests : WritePdf(q)
    BY <1>5, OnlyWrites
  <2>2. q # r /\ i = task[q].invoice /\ disk'[i] = q
    BY <1>0, <1>2, <1>5, <2>1 DEF WritePdf, TypeInv, TypeOK
  <2>3. pc[r] \in {"update", "commit"} /\ HoldsRow(r)
    BY <1>0, <1>2, <1>5, IssueEnds DEF HolderInv, Holding, Past
  <2>4. pc[q] # "pdf"
    <3>1. Named(q)
      BY <1>2, <2>2 DEF Named
    <3> QED BY <1>0, <2>2, <2>3, <3>1 DEF HolderInv, HoldsRow, Holding, Past
  <2>5. pc'[q] = "cut"
    BY <1>0, <2>1, <2>4 DEF WritePdf, TypeInv, TypeOK
  <2> QED BY <2>2, <2>5
<1> QED BY <1>3, <1>4, <1>5

LEMMA StepFiles == LockInv /\ LockInv' /\ FilesInv /\ [Next]_vars => FilesInv'
BY PdfKept, DrawnKept DEF FilesInv

\* An issued invoice has the PDF of its own issue, unless a handler drew one
\* after its connection was gone.
THEOREM PdfIsOfIssue == Spec => []PdfOfIssueUnlessCut
<1>1. FilesInv => PdfOfIssueUnlessCut
  BY DEF FilesInv
<1> QED BY <1>1, InitLocks, StepLocks, InitFiles, StepFiles, PTL DEF Spec
-----------------------------------------------------------------------------
(* The abstract life cycle *)

\* A posting's part of an account: debits minus credits, as they are stored.
LinesIn(p) == {[txn |-> p.by, line |-> k, entry |-> p.entries[k]] : k \in DOMAIN p.entries}

OnAccount(lines, account) ==
    {x \in lines : x.entry.account = account /\ x.entry.currency = HomeCurrency}

Share(p, account) == Sum(OnAccount(LinesIn(p), account))

LEMMA LinesSummable ==
    ASSUME NEW p \in Posting, NEW account
    PROVE  /\ Summable(OnAccount(LinesIn(p), account))
           /\ Share(p, account) \in Int
<1> DEFINE D == DOMAIN p.entries
           f == [k \in D |-> [txn |-> p.by, line |-> k, entry |-> p.entries[k]]]
<1>1. D = 1 .. Len(p.entries) /\ Len(p.entries) \in Nat
  BY LenProperties DEF Posting
<1>2. IsFiniteSet(D)
  BY <1>1, FS_Interval
<1>3. LinesIn(p) = {f[k] : k \in D}
  BY DEF LinesIn
<1>4. f \in Surjection(D, LinesIn(p))
  BY <1>3 DEF Surjection
<1>5. IsFiniteSet(LinesIn(p))
  BY <1>2, <1>4, FS_Surjection
<1>6. \A x \in LinesIn(p) : Signed(x.entry) \in Int
  BY <1>1, ElementOfSeq, SignedTyping DEF LinesIn, Posting
<1>7. Summable(LinesIn(p)) /\ OnAccount(LinesIn(p), account) \subseteq LinesIn(p)
  BY <1>5, <1>6 DEF Summable, OnAccount
<1>8. Summable(OnAccount(LinesIn(p), account))
  BY <1>7, SubsetSummable
<1> QED BY <1>8, SumType DEF Share

\* The account has one line of the posting, or none.
LEMMA OneLine ==
    ASSUME NEW p \in Posting, NEW account, NEW n \in DOMAIN p.entries,
           \A k \in DOMAIN p.entries :
              p.entries[k].account = account /\ p.entries[k].currency = HomeCurrency <=> k = n
    PROVE  Share(p, account) = Signed(p.entries[n])
<1> DEFINE x == [txn |-> p.by, line |-> n, entry |-> p.entries[n]]
<1>1. OnAccount(LinesIn(p), account) = {x}
  BY DEF OnAccount, LinesIn
<1>2. x.entry = p.entries[n] /\ p.entries[n] \in StoredEntry
  BY LenProperties, ElementOfSeq DEF Posting
<1> HIDE DEF x
<1>3. Signed(x.entry) \in Int
  BY <1>2, SignedTyping
<1> QED BY <1>1, <1>2, <1>3, SumSingle DEF Share

LEMMA NoLine ==
    ASSUME NEW p \in Posting, NEW account,
           \A k \in DOMAIN p.entries : p.entries[k].account # account
    PROVE  Share(p, account) = 0
<1>1. OnAccount(LinesIn(p), account) = {}
  BY DEF OnAccount, LinesIn
<1> QED BY <1>1, SumEmpty DEF Share

\* What the ledger stores for a line of so many cents.
LEMMA StoredLine ==
    ASSUME NEW account, NEW direction \in Directions, NEW cents \in Nat
    PROVE  LET line == Stored(Line(account, direction, cents))
           IN  /\ line.account = account /\ line.currency = HomeCurrency
               /\ Signed(line) = IF direction = "debit" THEN 100 * cents ELSE -(100 * cents)
<1>1. Round(1000 * cents) = 100 * cents
  BY DEF Round
<1>2. Stored(Line(account, direction, cents)) =
         [account |-> account, direction |-> direction, amount |-> 100 * cents,
          currency |-> HomeCurrency]
  BY <1>1 DEF Stored, Line
<1> QED BY <1>2 DEF Signed

LEMMA IssueShare ==
    ASSUME NEW p \in Posting, NEW amounts \in [subtotal : Nat, tax : Nat, total : Nat],
           p.entries = AllStored(IssueEntries(amounts))
    PROVE  /\ Share(p, "1000") = 100 * amounts.total
           /\ Share(p, "4000") = -(100 * amounts.subtotal)
           /\ Share(p, "2000") = -(100 * amounts.tax)
           /\ Share(p, "1010") = 0
<1> DEFINE e == p.entries
           taxed == amounts.tax > 0
<1>1. /\ amounts.tax \in Nat /\ amounts.total \in Nat /\ amounts.subtotal \in Nat
      /\ "debit" \in Directions /\ "credit" \in Directions
  BY DEF Directions
<1>2. /\ DOMAIN e = IF taxed THEN {1, 2, 3} ELSE {1, 2}
      /\ e[1] = Stored(Line("1000", "debit", amounts.total))
      /\ e[2] = Stored(Line("4000", "credit", amounts.subtotal))
      /\ taxed => e[3] = Stored(Line("2000", "credit", amounts.tax))
  BY <1>1, IssueLines DEF AllStored
<1>3. /\ e[1].account = "1000" /\ e[1].currency = HomeCurrency
      /\ Signed(e[1]) = 100 * amounts.total
  BY <1>1, <1>2, StoredLine
<1>4. /\ e[2].account = "4000" /\ e[2].currency = HomeCurrency
      /\ Signed(e[2]) = -(100 * amounts.subtotal)
  BY <1>1, <1>2, StoredLine
<1>5. taxed => /\ e[3].account = "2000" /\ e[3].currency = HomeCurrency
               /\ Signed(e[3]) = -(100 * amounts.tax)
  BY <1>1, <1>2, StoredLine
<1> HIDE DEF e
<1>6. Share(p, "1000") = Signed(e[1]) /\ Share(p, "4000") = Signed(e[2])
  <2>1. 1 \in DOMAIN e /\ \A k \in DOMAIN e :
           e[k].account = "1000" /\ e[k].currency = HomeCurrency <=> k = 1
    BY <1>2, <1>3, <1>4, <1>5
  <2>2. 2 \in DOMAIN e /\ \A k \in DOMAIN e :
           e[k].account = "4000" /\ e[k].currency = HomeCurrency <=> k = 2
    BY <1>2, <1>3, <1>4, <1>5
  <2> QED BY <2>1, <2>2, OneLine DEF e
<1>7. Share(p, "1010") = 0
  <2>1. \A k \in DOMAIN e : e[k].account # "1010"
    BY <1>2, <1>3, <1>4, <1>5
  <2> QED BY <2>1, NoLine DEF e
<1>8. Share(p, "2000") = -(100 * amounts.tax)
  <2>1. CASE taxed
    <3>1. 3 \in DOMAIN e /\ \A k \in DOMAIN e :
             e[k].account = "2000" /\ e[k].currency = HomeCurrency <=> k = 3
      BY <1>2, <1>3, <1>4, <1>5, <2>1
    <3>2. Share(p, "2000") = Signed(e[3])
      BY <3>1, OneLine DEF e
    <3> QED BY <1>5, <2>1, <3>2
  <2>2. CASE ~taxed
    <3>1. \A k \in DOMAIN e : e[k].account # "2000"
      BY <1>2, <1>3, <1>4, <2>2
    <3>2. Share(p, "2000") = 0
      BY <3>1, NoLine DEF e
    <3> QED BY <1>1, <2>2, <3>2
  <2> QED BY <2>1, <2>2
<1> QED BY <1>3, <1>4, <1>6, <1>7, <1>8

LEMMA ReceiptShare ==
    ASSUME NEW p \in Posting, NEW cents \in Nat,
           p.entries = AllStored(ReceiptEntries(cents))
    PROVE  /\ Share(p, "1010") = 100 * cents
           /\ Share(p, "1000") = -(100 * cents)
           /\ Share(p, "4000") = 0 /\ Share(p, "2000") = 0
<1> DEFINE e == p.entries
<1>1. /\ DOMAIN e = {1, 2}
      /\ e[1] = Stored(Line("1010", "debit", cents))
      /\ e[2] = Stored(Line("1000", "credit", cents))
  BY DEF AllStored, ReceiptEntries
<1>2. e[1].account = "1010" /\ e[1].currency = HomeCurrency /\ Signed(e[1]) = 100 * cents
  BY <1>1, StoredLine DEF Directions
<1>3. e[2].account = "1000" /\ e[2].currency = HomeCurrency /\ Signed(e[2]) = -(100 * cents)
  BY <1>1, StoredLine DEF Directions
<1> HIDE DEF e
<1>4. 1 \in DOMAIN e /\ \A k \in DOMAIN e :
         e[k].account = "1010" /\ e[k].currency = HomeCurrency <=> k = 1
  BY <1>1, <1>2, <1>3
<1>5. 2 \in DOMAIN e /\ \A k \in DOMAIN e :
         e[k].account = "1000" /\ e[k].currency = HomeCurrency <=> k = 2
  BY <1>1, <1>2, <1>3
<1>6. \A k \in DOMAIN e : e[k].account # "4000" /\ e[k].account # "2000"
  BY <1>1, <1>2, <1>3
<1>7. Share(p, "1010") = Signed(e[1]) /\ Share(p, "1000") = Signed(e[2])
  BY <1>4, <1>5, OneLine DEF e
<1>8. Share(p, "4000") = 0 /\ Share(p, "2000") = 0
  BY <1>6, NoLine DEF e
<1> QED BY <1>2, <1>3, <1>7, <1>8

\* A reversal takes back, on every account, what its original put there.
LEMMA ReversalShare ==
    ASSUME NEW o \in Posting, NEW p \in Posting, NEW account,
           p.entries = AllStored(ReversalEntries(o))
    PROVE  Share(p, account) = -Share(o, account)
<1> DEFINE A == OnAccount(LinesIn(o), account)
           B == OnAccount(LinesIn(p), account)
           f == [x \in A |-> [txn |-> p.by, line |-> x.line, entry |-> p.entries[x.line]]]
<1>1. /\ DOMAIN p.entries = DOMAIN o.entries
      /\ \A k \in DOMAIN o.entries : p.entries[k] = Stored(Flip(o.entries[k]))
  BY DEF AllStored, ReversalEntries
<1>2. \A k \in DOMAIN o.entries : o.entries[k] \in StoredEntry
  BY LenProperties, ElementOfSeq DEF Posting
<1>3. \A k \in DOMAIN o.entries :
         /\ p.entries[k].account = o.entries[k].account
         /\ p.entries[k].currency = o.entries[k].currency
         /\ Signed(o.entries[k]) \in Int
         /\ Signed(p.entries[k]) = -Signed(o.entries[k])
  BY <1>1, <1>2, StoredFlip, SignedTyping
<1>4. \A x \in A : x.line \in DOMAIN o.entries /\ x.entry = o.entries[x.line] /\ x.txn = o.by
                   /\ x = [txn |-> o.by, line |-> x.line, entry |-> o.entries[x.line]]
  BY DEF OnAccount, LinesIn
<1>5. \A x \in A : f[x] \in B
  <2> SUFFICES ASSUME NEW x \in A PROVE f[x] \in B
    OBVIOUS
  <2>1. x.line \in DOMAIN o.entries /\ o.entries[x.line].account = account
        /\ o.entries[x.line].currency = HomeCurrency
    BY <1>4 DEF OnAccount
  <2>2. f[x] \in LinesIn(p)
    BY <1>1, <2>1 DEF LinesIn
  <2>3. f[x].entry = p.entries[x.line]
    OBVIOUS
  <2> QED BY <1>3, <2>1, <2>2, <2>3 DEF OnAccount
<1>6. \A x, y \in A : f[x] = f[y] => x = y
  BY <1>4
<1>7. \A y \in B : \E x \in A : f[x] = y
  <2> SUFFICES ASSUME NEW y \in B PROVE \E x \in A : f[x] = y
    OBVIOUS
  <2>1. PICK k \in DOMAIN p.entries : y = [txn |-> p.by, line |-> k, entry |-> p.entries[k]]
    BY DEF OnAccount, LinesIn
  <2> DEFINE x == [txn |-> o.by, line |-> k, entry |-> o.entries[k]]
  <2>2. p.entries[k].account = account /\ p.entries[k].currency = HomeCurrency
    BY <2>1 DEF OnAccount
  <2>3. x \in A
    BY <1>1, <1>3, <2>1, <2>2 DEF OnAccount, LinesIn
  <2>4. f[x] = y
    BY <2>1, <2>3
  <2> QED BY <2>3, <2>4
<1>8. f \in Bijection(A, B)
  BY <1>5, <1>6, <1>7 DEF Bijection, Injection, Surjection, IsInjective
<1> DEFINE sign == -1
<1>9. sign \in {1, -1} /\ \A x \in A : Signed(f[x].entry) = sign * Signed(x.entry)
  <2> SUFFICES ASSUME NEW x \in A PROVE Signed(f[x].entry) = sign * Signed(x.entry)
    OBVIOUS
  <2>1. x.line \in DOMAIN o.entries /\ x.entry = o.entries[x.line]
    BY <1>4
  <2>2. f[x].entry = p.entries[x.line]
    OBVIOUS
  <2> QED BY <1>3, <2>1, <2>2
<1>10. Summable(A) /\ Summable(B)
  BY LinesSummable
<1> HIDE DEF A, B, f, sign
<1>11. Sum(B) = sign * Sum(A) /\ Sum(A) \in Int
  BY <1>8, <1>9, <1>10, SumAlong, SumType
<1>12. Sum(B) = -Sum(A)
  BY <1>11 DEF sign
<1> QED BY <1>12 DEF Share, A, B

\* An account of an invoice with no posting, with one and with two.
LEMMA BalanceOfNone ==
    ASSUME NEW i, NEW account, PostingsOf(i) = {}
    PROVE  Balance(i, account) = 0
<1> DEFINE lines == {x \in LinesFor(i) : x.entry.account = account}
<1>1. LinesFor(i) = {}
  BY DEF LinesFor
<1>2. {x \in lines : x.entry.currency = HomeCurrency} = {}
  BY <1>1
<1>3. Imbalance(lines, HomeCurrency) = 0
  BY <1>2, ImbalanceIsSum, SumEmpty
<1> QED BY <1>3 DEF Balance

LEMMA BalanceOfOne ==
    ASSUME NEW i, NEW account, NEW p, PostingsOf(i) = {p}
    PROVE  Balance(i, account) = Share(p, account) \div 100
<1> DEFINE lines == {x \in LinesFor(i) : x.entry.account = account}
<1>1. LinesFor(i) = LinesIn(p)
  BY DEF LinesFor, LinesIn
<1>2. {x \in lines : x.entry.currency = HomeCurrency} = OnAccount(LinesIn(p), account)
  BY <1>1 DEF OnAccount
<1>3. Imbalance(lines, HomeCurrency) = Share(p, account)
  BY <1>2, ImbalanceIsSum DEF Share
<1> QED BY <1>3 DEF Balance

LEMMA BalanceOfTwo ==
    ASSUME NEW i, NEW account, NEW p \in Posting, NEW q \in Posting, p.by # q.by,
           PostingsOf(i) = {p, q}
    PROVE  Balance(i, account) = (Share(p, account) + Share(q, account)) \div 100
<1> DEFINE lines == {x \in LinesFor(i) : x.entry.account = account}
           A == OnAccount(LinesIn(p), account)
           B == OnAccount(LinesIn(q), account)
<1>1. LinesFor(i) = LinesIn(p) \union LinesIn(q)
  BY DEF LinesFor, LinesIn
<1>2. {x \in lines : x.entry.currency = HomeCurrency} = A \union B
  BY <1>1 DEF OnAccount
<1>3. A \intersect B = {}
  BY DEF OnAccount, LinesIn
<1>4. Summable(A) /\ Summable(B)
  BY LinesSummable
<1> HIDE DEF A, B
<1>5. Summable(A \union B)
  BY <1>4, FS_Union DEF Summable
<1>6. Sum(A \union B) = Sum(A) + Sum(B)
  BY <1>3, <1>5, SumUnion
<1>7. Imbalance(lines, HomeCurrency) = Share(p, account) + Share(q, account)
  BY <1>2, <1>6, ImbalanceIsSum DEF Share, A, B
<1> QED BY <1>7 DEF Balance

\* A posting about an invoice has the entries that its kind calls for, and
\* those of an issue were found valid.
EntriesFit(p) ==
    p.invoice \in Invoices =>
       /\ p.kind = "issue" => /\ p.entries = AllStored(IssueEntries(billed[p.invoice]))
                              /\ ValidEntries(IssueEntries(billed[p.invoice]))
       /\ p.kind = "receipt" =>
             p.entries = AllStored(ReceiptEntries(billed[p.invoice].total))
       /\ p.kind = "void" =>
             \E o \in Originals(p.invoice) : p.entries = AllStored(ReversalEntries(o))

EntriesInv ==
    /\ \A p \in ledger : EntriesFit(p)
    /\ \A r \in Requests : \A p \in posted[r] : EntriesFit(p)

ShareInv == BookInv /\ EntriesInv

LEMMA StillFit ==
    ASSUME billed' = billed, ledger \subseteq ledger', NEW p, EntriesFit(p)
    PROVE  EntriesFit(p)'
<1>1. \A o \in Originals(p.invoice) : o \in Originals(p.invoice)'
  BY DEF Originals
<1> QED BY <1>1 DEF EntriesFit

LEMMA NewPostingFits ==
    ASSUME LockInv, NEW r \in Requests, pc[r] = "post", NEW entries \in Postable(r)
    PROVE  EntriesFit(NewPosting(r, entries))
<1> DEFINE p == NewPosting(r, entries)
           i == task[r].invoice
<1>1. p.kind = task[r].kind /\ p.invoice = i /\ p.entries = AllStored(entries)
  BY DEF NewPosting, AllStored
<1>2. entries \in EntriesOf(r) /\ ValidEntries(entries)
  BY DEF Postable
<1> HIDE DEF p
<1> SUFFICES ASSUME i \in Invoices PROVE EntriesFit(p)
  BY <1>1 DEF EntriesFit, p
<1>3. HoldsRow(r)
  BY NoInvoiceAssumption DEF LockInv, HolderInv, Holding, Named
<1>4. task[r].kind = "issue" => entries = IssueEntries(billed[i])
  BY <1>2 DEF EntriesOf
<1>5. task[r].kind = "receipt" => entries = ReceiptEntries(billed[i].total)
  BY <1>2, <1>3 DEF EntriesOf, HoldsRow
<1>6. task[r].kind = "void" => \E o \in Originals(i) : entries = ReversalEntries(o)
  BY <1>2 DEF EntriesOf
<1> HIDE DEF i
<1> QED BY <1>1, <1>2, <1>4, <1>5, <1>6 DEF EntriesFit

\* Only PostLedger makes postings.
LEMMA OnlyPosts ==
    ASSUME TypeInv, [Next]_vars
    PROVE  /\ billed' = billed /\ ledger \subseteq ledger'
           /\ \A p \in ledger' : p \in ledger \/ \E r \in Requests : p \in posted[r]
           /\ \/ \A q \in Requests : posted'[q] \subseteq posted[q]
              \/ \E r \in Requests : PostLedger(r)
<1>1. CASE \E r \in Requests : Committing(r)
  BY <1>1, CommitEffect
<1>2. CASE \E r \in Requests : PostLedger(r)
  BY <1>2 DEF PostLedger, tables
<1>3. CASE \E r \in Requests : PostRejected(r) \/ LoseConnection(r) \/ Abort(r)
  BY <1>3 DEF PostRejected, LoseConnection, Abort, Undo, tables, TypeInv, TypeOK
<1>4. CASE \E r \in Requests : \/ Begin(r) \/ LockInvoice(r) \/ WritePdf(r)
                               \/ UpdateInvoice(r) \/ Record(r)
  BY <1>4 DEF Begin, LockInvoice, WritePdf, UpdateInvoice, Record, tables
<1>5. CASE UNCHANGED vars
  BY <1>5 DEF vars, tables
<1> QED BY <1>1, <1>2, <1>3, <1>4, <1>5
        DEF Next, Step, Terminating, Finish, FinishUnanswered, Committing

LEMMA EntriesKept ==
    ASSUME LockInv, EntriesInv, [Next]_vars
    PROVE  EntriesInv'
<1>0. TypeInv
  BY DEF LockInv
<1>1. /\ billed' = billed /\ ledger \subseteq ledger'
      /\ \A p \in ledger' : p \in ledger \/ \E r \in Requests : p \in posted[r]
  BY <1>0, OnlyPosts
<1>2. ASSUME NEW p, EntriesFit(p)
      PROVE  EntriesFit(p)'
  BY <1>1, <1>2, StillFit
<1>3. \A p \in ledger' : EntriesFit(p)'
  BY <1>1, <1>2 DEF EntriesInv
<1>4. ASSUME NEW q \in Requests, NEW p \in posted'[q]
      PROVE  EntriesFit(p)'
  <2>1. CASE p \in posted[q]
    BY <1>2, <2>1 DEF EntriesInv
  <2>2. CASE p \notin posted[q]
    <3>1. PICK r \in Requests : PostLedger(r)
      BY <1>0, <1>4, <2>2, OnlyPosts
    <3>2. PICK entries \in Postable(r) :
             posted' = [posted EXCEPT ![r] = {NewPosting(r, entries)}]
      BY <3>1 DEF PostLedger
    <3>3. pc[r] = "post" /\ p = NewPosting(r, entries)
      BY <1>0, <1>4, <2>2, <3>1, <3>2 DEF PostLedger, TypeInv, TypeOK
    <3> QED BY <1>2, <3>3, NewPostingFits
  <2> QED BY <2>1, <2>2
<1> QED BY <1>3, <1>4 DEF EntriesInv

-----------------------------------------------------------------------------
(* What is issued *)

\* _validate_entries accepts the entries of an issue only if the amounts of
\* the invoice add up, and its subtotal is not zero.
LEMMA ValidBill ==
    ASSUME NEW amounts \in [subtotal : Nat, tax : Nat, total : Nat],
           ValidEntries(IssueEntries(amounts))
    PROVE  amounts.subtotal > 0 /\ amounts.total = amounts.subtotal + amounts.tax
<1> DEFINE e == IssueEntries(amounts)
           taxed == amounts.tax > 0
           At(k) == [line |-> k, entry |-> e[k]]
<1>1. amounts.tax \in Nat /\ amounts.total \in Nat /\ amounts.subtotal \in Nat
  OBVIOUS
<1>2. /\ DOMAIN e = IF taxed THEN {1, 2, 3} ELSE {1, 2}
      /\ e[1] = Line("1000", "debit", amounts.total)
      /\ e[2] = Line("4000", "credit", amounts.subtotal)
      /\ taxed => e[3] = Line("2000", "credit", amounts.tax)
  BY <1>1, IssueLines
<1>3. /\ e[1].currency = HomeCurrency /\ Signed(e[1]) = 1000 * amounts.total
      /\ e[2].currency = HomeCurrency /\ Signed(e[2]) = -(1000 * amounts.subtotal)
      /\ taxed => e[3].currency = HomeCurrency /\ Signed(e[3]) = -(1000 * amounts.tax)
      /\ e[2].amount = 1000 * amounts.subtotal
  BY <1>2 DEF Line, Signed
<1>4. e[2].amount > 0 /\ Imbalance(LinesOf(e), HomeCurrency) = 0
  <2>1. 1 \in DOMAIN e /\ 2 \in DOMAIN e
    BY <1>2
  <2> QED BY <1>3, <2>1 DEF ValidEntries
<1> HIDE DEF e
<1>5. \A k \in {1, 2, 3} : At(k).entry = e[k] /\ At(k).line = k
  OBVIOUS
<1>6. LinesOf(e) = IF taxed THEN {At(1), At(2)} \union {At(3)} ELSE {At(1), At(2)}
  BY <1>2 DEF LinesOf
<1>7. \A k \in DOMAIN e : At(k).entry.currency = HomeCurrency
  BY <1>2, <1>3
<1>8. Sum(LinesOf(e)) = 0
  <2>1. {x \in LinesOf(e) : x.entry.currency = HomeCurrency} = LinesOf(e)
    BY <1>7 DEF LinesOf
  <2> QED BY <1>4, <2>1, ImbalanceIsSum
<1> DEFINE x == At(1)
           y == At(2)
           z == At(3)
<1>9. /\ Signed(x.entry) \in Int /\ Signed(y.entry) \in Int
      /\ taxed => Signed(z.entry) \in Int
      /\ x # y /\ z \notin {x, y}
  <2>1. x.line # y.line /\ z.line # x.line /\ z.line # y.line
    BY <1>5
  <2>2. x # y /\ z # x /\ z # y
    BY <2>1
  <2>3. /\ 1000 * amounts.total \in Int /\ -(1000 * amounts.subtotal) \in Int
        /\ -(1000 * amounts.tax) \in Int
    BY <1>1
  <2>4. /\ Signed(e[1]) \in Int /\ Signed(e[2]) \in Int
        /\ taxed => Signed(e[3]) \in Int
    BY <1>3, <2>3
  <2>5. x.entry = e[1] /\ y.entry = e[2] /\ z.entry = e[3]
    BY <1>5
  <2> QED BY <2>2, <2>4, <2>5
<1>10. Signed(x.entry) = Signed(e[1]) /\ Signed(y.entry) = Signed(e[2])
       /\ Signed(z.entry) = Signed(e[3])
  BY <1>5
<1> HIDE DEF x, y, z
<1>11. /\ {x} \union {y} = {x, y}
       /\ IsFiniteSet({x, y}) /\ IsFiniteSet({x, y} \union {z})
  <2>1. {x} \union {y} = {x, y} /\ IsFiniteSet({x})
    BY FS_Singleton
  <2>2. IsFiniteSet({x} \union {y})
    BY <2>1, FS_AddElement
  <2>3. IsFiniteSet({x, y})
    BY <2>1, <2>2
  <2>4. IsFiniteSet({x, y} \union {z})
    BY <2>3, FS_AddElement
  <2> QED BY <2>1, <2>3, <2>4
<1>12. Sum({x, y}) = Signed(y.entry) + Signed(x.entry)
  <2>1. Summable({x} \union {y}) /\ y \notin {x}
    BY <1>9, <1>11 DEF Summable
  <2> QED BY <1>9, <1>11, <2>1, SumAdd, SumSingle
<1>13. CASE taxed
  <2>1. Summable({x, y} \union {z})
    BY <1>9, <1>11, <1>13 DEF Summable
  <2>2. Sum({x, y} \union {z}) = Signed(z.entry) + Sum({x, y})
    BY <1>9, <2>1, SumAdd
  <2>3. LinesOf(e) = {x, y} \union {z}
    BY <1>6, <1>13 DEF x, y, z
  <2>4. Signed(e[3]) + (Signed(e[2]) + Signed(e[1])) = 0
    BY <1>8, <1>10, <1>12, <2>2, <2>3
  <2>5. -(1000 * amounts.tax) + (-(1000 * amounts.subtotal) + 1000 * amounts.total) = 0
    BY <1>3, <1>13, <2>4
  <2> QED BY <1>1, <1>3, <1>4, <2>5
<1>14. CASE ~taxed
  <2>1. LinesOf(e) = {x, y}
    BY <1>6, <1>14 DEF x, y
  <2>2. -(1000 * amounts.subtotal) + 1000 * amounts.total = 0
    BY <1>3, <1>8, <1>10, <1>12, <2>1
  <2> QED BY <1>1, <1>3, <1>4, <1>14, <2>2
<1> QED BY <1>13, <1>14

LEMMA InitShares == Init => ShareInv
BY InitBooks DEF ShareInv, EntriesInv, Init

LEMMA StepShares == ShareInv /\ [Next]_vars => ShareInv'
BY StepBooks, EntriesKept DEF ShareInv, BookInv, TrailInv

\* No draft that bills nothing, or whose stored amounts do not add up, is ever
\* issued: an issued or paid invoice has a posting, and the ledger accepted it.
THEOREM IssuedBillsSound == Spec => []SoundBillsIssued
<1>1. ShareInv => SoundBillsIssued
  <2> SUFFICES ASSUME ShareInv, NEW i \in Invoices, invoice[i].status \in {"issued", "paid"}
               PROVE  /\ billed[i].subtotal > 0
                      /\ billed[i].total = billed[i].subtotal + billed[i].tax
    BY DEF SoundBillsIssued, ShareInv, BookInv, TrailInv, LockInv, TypeInv
  <2>1. billed[i] \in [subtotal : Nat, tax : Nat, total : Nat]
    BY AmountsAssumption DEF ShareInv, BookInv, TrailInv, LockInv, TypeInv, TypeOK
  <2>2. PostingsMatchStatus /\ EntriesInv
    BY DEF ShareInv, BookInv
  <2>3. Match(invoice[i].status, PostingsOf(i))
    BY <2>2 DEF PostingsMatchStatus, Match
  <2>4. {p.kind : p \in PostingsOf(i)} \in {{"issue"}, {"issue", "receipt"}}
    BY <2>3 DEF Match
  <2>5. PICK p \in PostingsOf(i) : p.kind = "issue"
    BY <2>4
  <2>6. ValidEntries(IssueEntries(billed[i]))
    BY <2>2, <2>5 DEF EntriesInv, EntriesFit, PostingsOf
  <2> QED BY <2>1, <2>6, ValidBill
<1> QED BY <1>1, InitShares, StepShares, PTL DEF Spec
-----------------------------------------------------------------------------
(* Refinement *)

BooksOf(i) ==
    [receivable |-> Balance(i, "1000"), revenue |-> -Balance(i, "4000"),
     tax |-> -Balance(i, "2000"), cash |-> Balance(i, "1010")]

\* What the abstract life cycle has for a status.
Due(i, status) ==
    CASE status = "issued" -> Lifecycle!Owed(i)
      [] status = "paid" -> Lifecycle!Paid(i)
      [] OTHER -> Lifecycle!Nothing

BooksDue == \A i \in Invoices : BooksOf(i) = Due(i, invoice[i].status)

LEMMA DueAre ==
    ASSUME NEW i
    PROVE  /\ Lifecycle!Owed(i) = [receivable |-> billed[i].total, revenue |-> billed[i].subtotal,
                                   tax |-> billed[i].tax, cash |-> 0]
           /\ Lifecycle!Paid(i) = [receivable |-> 0, revenue |-> billed[i].subtotal,
                                   tax |-> billed[i].tax, cash |-> billed[i].total]
<1>1. Lifecycle!Earned(i) = [receivable |-> 0, revenue |-> billed[i].subtotal,
                             tax |-> billed[i].tax, cash |-> 0]
  <2> DEFINE earning == [receivable |-> 0, revenue |-> billed[i].subtotal, tax |-> 0, cash |-> 0]
  <2>1. [Lifecycle!Nothing EXCEPT !.revenue = billed[i].subtotal] = earning
    BY DEF Lifecycle!Nothing
  <2>2. Lifecycle!Earned(i) = [earning EXCEPT !.tax = billed[i].tax]
    BY <2>1 DEF Lifecycle!Earned
  <2> QED BY <2>2
<1>2. Lifecycle!Owed(i) = [receivable |-> billed[i].total, revenue |-> billed[i].subtotal,
                           tax |-> billed[i].tax, cash |-> 0]
  <2>1. Lifecycle!Owed(i) = [[receivable |-> 0, revenue |-> billed[i].subtotal,
                              tax |-> billed[i].tax, cash |-> 0]
                              EXCEPT !.receivable = billed[i].total]
    BY <1>1 DEF Lifecycle!Owed
  <2> QED BY <2>1
<1>3. Lifecycle!Paid(i) = [receivable |-> 0, revenue |-> billed[i].subtotal,
                           tax |-> billed[i].tax, cash |-> billed[i].total]
  <2>1. Lifecycle!Paid(i) = [[receivable |-> 0, revenue |-> billed[i].subtotal,
                              tax |-> billed[i].tax, cash |-> 0]
                              EXCEPT !.cash = billed[i].total]
    BY <1>1 DEF Lifecycle!Paid
  <2> QED BY <2>1
<1> QED BY <1>2, <1>3

LEMMA SharesAddUp == ShareInv => BooksDue
<1> SUFFICES ASSUME ShareInv, NEW i \in Invoices
             PROVE  BooksOf(i) = Due(i, invoice[i].status)
  BY DEF BooksDue
<1> DEFINE b == billed[i]
           status == invoice[i].status
           P == PostingsOf(i)
<1>1. /\ TypeOK /\ LedgerInv /\ Match(status, P) /\ EntriesInv
  BY DEF ShareInv, BookInv, TrailInv, LockInv, TypeInv, PostingsMatchStatus, Match
<1>2. /\ b \in [subtotal : Nat, tax : Nat, total : Nat]
      /\ b.subtotal \in Nat /\ b.tax \in Nat /\ b.total \in Nat
      /\ status \in {"draft", "issued", "paid", "void"}
  BY <1>1, AmountsAssumption DEF TypeOK, Row
<1>3. \A p \in P : p \in ledger /\ p \in Posting /\ p.invoice = i /\ EntriesFit(p)
  BY <1>1 DEF PostingsOf, TypeOK, EntriesInv
<1>4. \A p, q \in P : p.kind # q.kind => p.by # q.by
  BY <1>1, <1>3 DEF LedgerInv
<1>5. \A p, q \in P : p.kind = q.kind => p = q
  BY <1>1 DEF Match
<1>6. Originals(i) \subseteq {p \in P : p.kind = "issue"}
  BY DEF Originals, PostingsOf
<1>7. ASSUME NEW p \in P, p.kind = "issue"
      PROVE  /\ Share(p, "1000") = 100 * b.total
             /\ Share(p, "4000") = -(100 * b.subtotal)
             /\ Share(p, "2000") = -(100 * b.tax)
             /\ Share(p, "1010") = 0
  BY <1>2, <1>3, <1>7, IssueShare DEF EntriesFit
<1>8. ASSUME NEW p \in P, p.kind = "receipt"
      PROVE  /\ Share(p, "1010") = 100 * b.total
             /\ Share(p, "1000") = -(100 * b.total)
             /\ Share(p, "4000") = 0 /\ Share(p, "2000") = 0
  BY <1>2, <1>3, <1>8, ReceiptShare DEF EntriesFit
<1>9. ASSUME NEW p \in P, NEW q \in P, p.kind = "issue", q.kind = "void", NEW account
      PROVE  Share(q, account) = -Share(p, account)
  <2>1. PICK o \in Originals(i) : q.entries = AllStored(ReversalEntries(o))
    BY <1>3, <1>9 DEF EntriesFit
  <2>2. o = p
    BY <1>5, <1>6, <1>9, <2>1
  <2> QED BY <1>3, <2>1, <2>2, ReversalShare
<1>10. Match(status, P) => /\ status = "draft" => {p.kind : p \in P} = {}
                           /\ status = "issued" => {p.kind : p \in P} = {"issue"}
                           /\ status = "paid" => {p.kind : p \in P} = {"issue", "receipt"}
                           /\ status = "void" => {p.kind : p \in P} \in {{}, {"issue", "void"}}
  BY DEF Match
<1> HIDE DEF b, P, status
<1>11. CASE {p.kind : p \in P} = {}
  <2>1. P = {} /\ status \in {"draft", "void"}
    BY <1>1, <1>2, <1>10, <1>11
  <2>2. Balance(i, "1000") = 0 /\ Balance(i, "4000") = 0
        /\ Balance(i, "2000") = 0 /\ Balance(i, "1010") = 0
    BY <2>1, BalanceOfNone DEF P
  <2>3. BooksOf(i) = Lifecycle!Nothing
    BY <2>2 DEF BooksOf, Lifecycle!Nothing
  <2> QED BY <2>1, <2>3 DEF Due, status
<1>12. CASE {p.kind : p \in P} = {"issue"}
  <2>1. status = "issued"
    BY <1>1, <1>2, <1>10, <1>12
  <2>2. PICK p \in P : p.kind = "issue"
    BY <1>12
  <2>3. PostingsOf(i) = {p}
    BY <1>5, <1>12, <2>2 DEF P
  <2>4. /\ Balance(i, "1000") = (100 * b.total) \div 100
        /\ Balance(i, "4000") = (-(100 * b.subtotal)) \div 100
        /\ Balance(i, "2000") = (-(100 * b.tax)) \div 100
        /\ Balance(i, "1010") = 0 \div 100
    BY <1>7, <2>2, <2>3, BalanceOfOne
  <2>5. /\ Balance(i, "1000") = b.total /\ -Balance(i, "4000") = b.subtotal
        /\ -Balance(i, "2000") = b.tax /\ Balance(i, "1010") = 0
    BY <1>2, <2>4
  <2>6. BooksOf(i) = Lifecycle!Owed(i)
    BY <2>5, DueAre DEF BooksOf, b
  <2> QED BY <2>1, <2>6 DEF Due, status
<1>13. CASE {p.kind : p \in P} = {"issue", "receipt"}
  <2>1. status = "paid"
    <3>1. {p.kind : p \in P} # {} /\ {p.kind : p \in P} # {"issue"}
          /\ {p.kind : p \in P} # {"issue", "void"}
      BY <1>13
    <3> QED BY <1>1, <1>2, <1>10, <3>1
  <2>2. PICK p \in P, q \in P : p.kind = "issue" /\ q.kind = "receipt"
    BY <1>13
  <2>3. PostingsOf(i) = {p, q}
    BY <1>5, <1>13, <2>2 DEF P
  <2>4. \A account : Balance(i, account) = (Share(p, account) + Share(q, account)) \div 100
    BY <1>3, <1>4, <2>2, <2>3, BalanceOfTwo
  <2>5. /\ Balance(i, "1000") = (100 * b.total + -(100 * b.total)) \div 100
        /\ Balance(i, "4000") = (-(100 * b.subtotal) + 0) \div 100
        /\ Balance(i, "2000") = (-(100 * b.tax) + 0) \div 100
        /\ Balance(i, "1010") = (0 + 100 * b.total) \div 100
    BY <1>7, <1>8, <2>2, <2>4
  <2>6. /\ Balance(i, "1000") = 0 /\ -Balance(i, "4000") = b.subtotal
        /\ -Balance(i, "2000") = b.tax /\ Balance(i, "1010") = b.total
    BY <1>2, <2>5
  <2>7. BooksOf(i) = Lifecycle!Paid(i)
    BY <2>6, DueAre DEF BooksOf, b
  <2> QED BY <2>1, <2>7 DEF Due, status
<1>14. CASE {p.kind : p \in P} = {"issue", "void"}
  <2>1. status = "void"
    BY <1>1, <1>2, <1>10, <1>14
  <2>2. PICK p \in P, q \in P : p.kind = "issue" /\ q.kind = "void"
    BY <1>14
  <2>3. PostingsOf(i) = {p, q}
    BY <1>5, <1>14, <2>2 DEF P
  <2>4. \A account : Balance(i, account) = (Share(p, account) + -Share(p, account)) \div 100
    BY <1>3, <1>4, <1>9, <2>2, <2>3, BalanceOfTwo
  <2>5. \A account : Share(p, account) \in Int
    BY <1>3, LinesSummable
  <2>6. \A account : Balance(i, account) = 0
    BY <2>4, <2>5
  <2>7. BooksOf(i) = Lifecycle!Nothing
    BY <2>6 DEF BooksOf, Lifecycle!Nothing
  <2> QED BY <2>1, <2>7 DEF Due, status
<1> QED BY <1>1, <1>2, <1>10, <1>11, <1>12, <1>13, <1>14

LEMMA CommitMoves ==
    ASSUME ShareInv, BooksDue, BooksDue', NEW r \in Requests, Committing(r)
    PROVE  [Lifecycle!Next]_(Lifecycle!vars)
<1>0. LockInv /\ TypeInv /\ PostedFor(r)
  BY DEF ShareInv, BookInv, TrailInv, LockInv, PostedInv
<1>1. /\ pc[r] = "commit" /\ ledger' = ledger \union posted[r] /\ billed' = billed
      /\ \A i \in Invoices : invoice'[i] = IF i = task[r].invoice
                                           THEN NewRow(r, invoice[i]) ELSE invoice[i]
  BY <1>0, CommitEffect
<1>2. ASSUME NEW i \in Invoices, i # task[r].invoice
      PROVE  invoice'[i].status = invoice[i].status /\ BooksOf(i)' = BooksOf(i)
  <2>1. PostingsOf(i)' = PostingsOf(i)
    BY <1>0, <1>1, <1>2 DEF PostingsOf, PostedFor
  <2> QED BY <1>1, <1>2, <2>1 DEF BooksOf, Balance, LinesFor
<1>3. CASE task[r].invoice \notin Invoices
  BY <1>1, <1>2, <1>3 DEF BooksOf, Lifecycle!vars
<1>4. CASE task[r].invoice \in Invoices
  <2>1. PICK i \in Invoices, to \in {LeadsTo(task[r].kind)} :
           i = task[r].invoice /\ to = LeadsTo(task[r].kind)
    BY <1>4
  <2> DEFINE status == [j \in Invoices |-> invoice[j].status]
             books == [j \in Invoices |-> BooksOf(j)]
  <2>2. /\ task[r].kind \in {"issue", "void", "receipt"}
        /\ status[i] \in MayStartFrom(task[r].kind) /\ invoice'[i].status = to
    BY <1>0, <1>1, <2>1, CommitOf
  <2>3. BooksOf(i)' = Due(i, to)
    <3>1. BooksOf(i)' = Due(i, invoice[i].status)'
      BY DEF BooksDue
    <3>2. Due(i, invoice[i].status)' = Due(i, to)
      BY <1>1, <2>2 DEF Due, Lifecycle!Owed, Lifecycle!Paid, Lifecycle!Earned,
                        Lifecycle!Nothing
    <3> QED BY <3>1, <3>2
  <2>4. status' = [status EXCEPT ![i] = to]
    BY <1>2, <2>1, <2>2
  <2>5. books' = [books EXCEPT ![i] = Due(i, to)]
    BY <1>2, <2>1, <2>3
  <2>6. Lifecycle!Move(i, MayStartFrom(task[r].kind), to, Due(i, to))
    BY <1>1, <2>2, <2>4, <2>5 DEF Lifecycle!Move, BooksOf
  <2>7. CASE task[r].kind = "issue"
    <3>1. to = "issued" /\ MayStartFrom(task[r].kind) = {"draft"}
          /\ Due(i, to) = Lifecycle!Owed(i)
      BY <2>1, <2>7 DEF LeadsTo, MayStartFrom, Due
    <3>2. Lifecycle!Issue(i)
      BY <2>6, <3>1 DEF Lifecycle!Issue, Lifecycle!Move
    <3> QED BY <3>2 DEF Lifecycle!Next
  <2>8. CASE task[r].kind = "receipt"
    <3>1. to = "paid" /\ MayStartFrom(task[r].kind) = {"issued"}
          /\ Due(i, to) = Lifecycle!Paid(i)
      BY <2>1, <2>8 DEF LeadsTo, MayStartFrom, Due
    <3>2. Lifecycle!Settle(i)
      BY <2>6, <3>1 DEF Lifecycle!Settle, Lifecycle!Move
    <3> QED BY <3>2 DEF Lifecycle!Next
  <2>9. CASE task[r].kind = "void"
    <3>1. to = "void" /\ MayStartFrom(task[r].kind) = {"draft", "issued"}
          /\ Due(i, to) = Lifecycle!Nothing
      BY <2>1, <2>9 DEF LeadsTo, MayStartFrom, Due
    <3>2. Lifecycle!Void(i)
      BY <2>6, <3>1 DEF Lifecycle!Void, Lifecycle!Move
    <3> QED BY <3>2 DEF Lifecycle!Next
  <2> QED BY <2>2, <2>7, <2>8, <2>9
<1> QED BY <1>3, <1>4

\* Every commit moves one invoice and its part of the books together: issued
\* and owed, paid and in cash, void and nothing left, whatever the amounts.
THEOREM LifecycleImplemented == Spec => ImplementsLifecycle
<1>1. Init => ShareInv
  BY InitShares
<1>2. ShareInv /\ [Next]_vars => ShareInv'
  BY StepShares
<1>3. Init /\ BooksDue => Lifecycle!Init
  <2> SUFFICES ASSUME Init, BooksDue PROVE Lifecycle!Init
    OBVIOUS
  <2>1. \A i \in Invoices : invoice[i].status = "draft"
    BY DEF Init, DraftRow
  <2>2. \A i \in Invoices : BooksOf(i) = Lifecycle!Nothing
    BY <2>1 DEF BooksDue, Due
  <2> QED BY <2>1, <2>2 DEF Lifecycle!Init, BooksOf
<1>4. ShareInv /\ BooksDue /\ BooksDue' /\ [Next]_vars => [Lifecycle!Next]_(Lifecycle!vars)
  <2> SUFFICES ASSUME ShareInv, BooksDue, BooksDue', [Next]_vars
               PROVE  [Lifecycle!Next]_(Lifecycle!vars)
    OBVIOUS
  <2>1. TypeInv
    BY DEF ShareInv, BookInv, TrailInv, LockInv
  <2>2. CASE \E r \in Requests : Committing(r)
    BY <2>2, CommitMoves
  <2>3. CASE invoice' = invoice /\ ledger' = ledger
    <3>1. \A i \in Invoices : BooksOf(i)' = BooksOf(i)
      BY <2>3 DEF BooksOf, Balance, LinesFor, PostingsOf
    <3>2. billed' = billed
      BY <2>1, OnlyPosts
    <3> QED BY <2>3, <3>1, <3>2 DEF Lifecycle!vars, BooksOf
  <2> QED BY <2>2, <2>3, OnlyCommits
<1> QED BY <1>1, <1>2, <1>3, <1>4, SharesAddUp, PTL DEF Spec, ImplementsLifecycle, Lifecycle!Spec
=============================================================================
