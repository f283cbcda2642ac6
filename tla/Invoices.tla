------------------------------- MODULE Invoices -------------------------------
(***************************************************************************)
(* The life of invoices after their creation: POST /invoices/{id}/issue,   *)
(* POST /invoices/{id}/void, POST /receipts and POST /expenses             *)
(* (app/main.py), with the ledger postings, the audit trail and the PDF    *)
(* they leave behind.                                                      *)
(*                                                                         *)
(* Each request is one database transaction; its statements interleave     *)
(* with those of others.  It locks the invoice's row first and the tip of  *)
(* the ledger's hash chain second, and holds both until it ends.  The PDF  *)
(* is written to disk in between and takes part in no transaction.         *)
(*                                                                         *)
(* Abstractions.  One posting is one step here (LedgerChain has its rows). *)
(* A posting is named by its request, and so is the moment of issue.       *)
(* Amounts of invoices and payments are whole cents; there is one          *)
(* currency, and a receipt in another one fails like a wrong amount.       *)
(***************************************************************************)
EXTENDS LedgerEntries

CONSTANTS
    Requests,        \* requests; each performs one operation
    Nobody,          \* no request
    Invoices,        \* the invoices that exist
    NoInvoice,       \* a receipt or an expense that names no invoice
    Amounts,         \* what create_invoice may have stored in a draft
    Payments,        \* the amounts of receipts and expenses, in cents
    HomeCurrency     \* the currency of them all

ASSUME NobodyAssumption == Nobody \notin Requests
ASSUME NoInvoiceAssumption == NoInvoice \notin Invoices
ASSUME AmountsAssumption ==
    Amounts \subseteq [subtotal : Nat, tax : Nat, total : Nat]
ASSUME PaymentsAssumption == Payments \subseteq Nat
ASSUME NamesAssumption == Invoices \intersect Requests = {}
ASSUME ChartAssumption ==
    ChartOfAccounts \subseteq AccountCodes /\ Currencies \subseteq CurrencyCodes

VARIABLES
    billed,    \* the amounts of each invoice (frozen: no endpoint sets them)
    invoice,   \* the committed rows: status, issued_at and pdf_object_key
    rowLock,   \* who holds the lock of each invoice row
    ledger,    \* the committed postings
    tipLock,   \* who holds the tip of the hash chain
    audit,     \* the committed audit rows about invoices, receipts and expenses
    auditSeq,  \* the last value of the sequence behind audit_log.id
    disk,      \* the issue that each PDF on disk reports, or Nobody
    pc,        \* where each request is
    task,      \* its operation
    before,    \* the row it read under its lock
    posted,    \* its uncommitted postings
    changed    \* its uncommitted audit rows

tables == <<billed, invoice, ledger, audit>>
vars == <<tables, rowLock, tipLock, auditSeq, disk, pc, task, before, posted, changed>>

Row == [status : {"draft", "issued", "paid", "void"},
        issued_at : Requests \union {Nobody}, pdf : BOOLEAN]

Task == [kind : {"issue", "void", "receipt", "expense"},
         invoice : Invoices \union {NoInvoice}, amount : Nat]

Tasks ==
    [kind : {"issue", "void"}, invoice : Invoices, amount : {0}]
    \union [kind : {"receipt"}, invoice : Invoices \union {NoInvoice}, amount : Payments]
    \union [kind : {"expense"}, invoice : {NoInvoice}, amount : Payments]

Posting == [by : Requests, kind : {"issue", "void", "receipt", "expense"},
            invoice : Invoices \union {NoInvoice}, entries : Seq(StoredEntry)]

Snapshot == [status : {"draft", "issued", "paid", "void"},
             issued_at : Requests \union {Nobody}]

NoSnapshot == [status |-> "none", issued_at |-> Nobody]

\* A row about an invoice, or about the receipt or the expense of a posting,
\* whose state is left out.
AuditRow == [id : Nat, about : Invoices, before : Snapshot, after : Snapshot]
            \union [id : Nat, about : Requests, before : {NoSnapshot}, after : {NoSnapshot}]

Active == {"lock", "post", "pdf", "update", "record", "commit", "cutoff"}
Ended == {"rejected", "done", "lost", "cut"}

-----------------------------------------------------------------------------
(* What each operation needs and does *)

\* The invoice row, as _INVOICE_COLUMNS show it to the audit log.
SnapshotOf(row) == [status |-> row.status, issued_at |-> row.issued_at]

DraftRow == [status |-> "draft", issued_at |-> Nobody, pdf |-> FALSE]

MayStartFrom(kind) ==
    CASE kind = "issue" -> {"draft"}
      [] kind = "void" -> {"draft", "issued"}
      [] kind = "receipt" -> {"issued"}

LeadsTo(kind) ==
    CASE kind = "issue" -> "issued" [] kind = "void" -> "void" [] kind = "receipt" -> "paid"

Line(account, direction, cents) ==
    [account |-> account, direction |-> direction,
     amount |-> 1000 * cents, currency |-> HomeCurrency]

IssueEntries(amounts) ==
    <<Line("1000", "debit", amounts.total), Line("4000", "credit", amounts.subtotal)>>
    \o IF amounts.tax > 0 THEN <<Line("2000", "credit", amounts.tax)>> ELSE <<>>

ReceiptEntries(cents) == <<Line("1010", "debit", cents), Line("1000", "credit", cents)>>

ExpenseEntries(cents) == <<Line("5000", "debit", cents), Line("1010", "credit", cents)>>

\* find_ledger_transaction_id(db, "invoice_issued", invoice_id).
Originals(i) == {p \in ledger : p.kind = "issue" /\ p.invoice = i}

ReversalEntries(p) == [k \in DOMAIN p.entries |-> Flip(p.entries[k])]

\* The entries a request may hand to the ledger: there is one choice, unless
\* a void finds no posting to reverse, or several.
EntriesOf(r) ==
    CASE task[r].kind = "issue" -> {IssueEntries(billed[task[r].invoice])}
      [] task[r].kind = "void" -> {ReversalEntries(p) : p \in Originals(task[r].invoice)}
      [] task[r].kind = "receipt" -> {ReceiptEntries(task[r].amount)}
      [] task[r].kind = "expense" -> {ExpenseEntries(task[r].amount)}

\* Mutant: the entries go to the ledger without _validate_entries.
PostableUnchecked(r) == {entries \in EntriesOf(r) : Resolvable(entries)}

Postable(r) == {entries \in EntriesOf(r) : ValidEntries(entries) /\ Resolvable(entries)}

-----------------------------------------------------------------------------
Init ==
    /\ billed \in [Invoices -> Amounts]
    /\ invoice = [i \in Invoices |-> DraftRow]
    /\ rowLock = [i \in Invoices |-> Nobody]
    /\ ledger = {}
    /\ tipLock = Nobody
    /\ audit = {}
    /\ auditSeq = 0
    /\ disk = [i \in Invoices |-> Nobody]
    /\ pc = [r \in Requests |-> "idle"]
    /\ task \in [Requests -> Tasks]
    /\ before = [r \in Requests |-> DraftRow]
    /\ posted = [r \in Requests |-> {}]
    /\ changed = [r \in Requests |-> {}]

Begin(r) ==
    /\ pc[r] = "idle"
    /\ pc' = [pc EXCEPT ![r] = IF task[r].invoice = NoInvoice THEN "post" ELSE "lock"]
    /\ UNCHANGED <<tables, rowLock, tipLock, auditSeq, disk, task, before, posted, changed>>

RowFree(r) == rowLock[task[r].invoice] \in {Nobody, r}
TipFree(r) == tipLock \in {Nobody, r}

\* The checks on the row just read: 409 for the status, 400 for a receipt
\* that is not for the whole amount.
Acceptable(r) ==
    /\ invoice[task[r].invoice].status \in MayStartFrom(task[r].kind)
    /\ task[r].kind = "receipt" => task[r].amount = billed[task[r].invoice].total

\* A draft has no posting to reverse.
AfterLock(r) ==
    IF task[r].kind = "void" /\ invoice[task[r].invoice].status = "draft"
    THEN "update" ELSE "post"

\* Mutant: the SELECT without FOR UPDATE.
ReadInvoice(r) ==
    /\ pc[r] = "lock"
    /\ before' = [before EXCEPT ![r] = invoice[task[r].invoice]]
    /\ pc' = [pc EXCEPT ![r] = IF Acceptable(r) THEN AfterLock(r) ELSE "rejected"]
    /\ UNCHANGED <<tables, rowLock, tipLock, auditSeq, disk, task, posted, changed>>

\* SELECT ... FROM invoices ... FOR UPDATE, and the checks; a request that
\* fails them gives the lock back at once.
LockInvoice(r) ==
    /\ pc[r] = "lock"
    /\ RowFree(r)
    /\ before' = [before EXCEPT ![r] = invoice[task[r].invoice]]
    /\ IF Acceptable(r)
       THEN /\ rowLock' = [rowLock EXCEPT ![task[r].invoice] = r]
            /\ pc' = [pc EXCEPT ![r] = AfterLock(r)]
       ELSE /\ pc' = [pc EXCEPT ![r] = "rejected"]
            /\ UNCHANGED rowLock
    /\ UNCHANGED <<tables, tipLock, auditSeq, disk, task, posted, changed>>

AfterPosting(r) ==
    CASE task[r].invoice = NoInvoice -> "record"
      [] task[r].kind = "issue" -> "pdf"
      [] OTHER -> "update"

NewPosting(r, entries) ==
    [by |-> r, kind |-> task[r].kind, invoice |-> task[r].invoice,
     entries |-> [k \in DOMAIN entries |-> Stored(entries[k])]]

\* post_ledger_transaction: its first row waits for the tip of the chain.
PostLedger(r) ==
    /\ pc[r] = "post"
    /\ TipFree(r)
    /\ \E entries \in Postable(r) :
          posted' = [posted EXCEPT ![r] = {NewPosting(r, entries)}]
    /\ tipLock' = r
    /\ pc' = [pc EXCEPT ![r] = AfterPosting(r)]
    /\ UNCHANGED <<tables, rowLock, auditSeq, disk, task, before, changed>>

\* Mutant: the rollback is forgotten, and the session keeps its locks.
LocksLeaked(r) ==
    /\ posted' = [posted EXCEPT ![r] = {}]
    /\ changed' = [changed EXCEPT ![r] = {}]
    /\ UNCHANGED <<tables, rowLock, tipLock, auditSeq, disk, task, before>>

\* What the server does when a transaction ends without a commit.
Undo(r) ==
    /\ rowLock' = [i \in Invoices |-> IF rowLock[i] = r THEN Nobody ELSE rowLock[i]]
    /\ tipLock' = IF tipLock = r THEN Nobody ELSE tipLock
    /\ posted' = [posted EXCEPT ![r] = {}]
    /\ changed' = [changed EXCEPT ![r] = {}]
    /\ UNCHANGED <<tables, auditSeq, disk, task, before>>

\* A ValueError becomes a 400: an entry of nothing, or entries that do not
\* balance.  (A void without an original would be a 500.)
PostRejected(r) ==
    /\ pc[r] = "post"
    /\ Postable(r) = {}
    /\ Undo(r)
    /\ pc' = [pc EXCEPT ![r] = "rejected"]

\* Mutant: a file that is already there is kept.
KeepPdf(r) ==
    /\ pc[r] \in {"pdf", "cutoff"}
    /\ disk' = [disk EXCEPT ![task[r].invoice] = IF @ = Nobody THEN r ELSE @]
    /\ pc' = [pc EXCEPT ![r] = IF @ = "pdf" THEN "update" ELSE "cut"]
    /\ UNCHANGED <<tables, rowLock, tipLock, auditSeq, task, before, posted, changed>>

\* store_invoice_pdf overwrites the invoice's file; a handler whose
\* connection is gone finds out only afterwards.
WritePdf(r) ==
    /\ pc[r] \in {"pdf", "cutoff"}
    /\ disk' = [disk EXCEPT ![task[r].invoice] = r]
    /\ pc' = [pc EXCEPT ![r] = IF @ = "pdf" THEN "update" ELSE "cut"]
    /\ UNCHANGED <<tables, rowLock, tipLock, auditSeq, task, before, posted, changed>>

\* The session dies while Python draws the PDF: the server rolls back.
LoseConnection(r) ==
    /\ pc[r] = "pdf"
    /\ Undo(r)
    /\ pc' = [pc EXCEPT ![r] = "cutoff"]

\* The columns that apply_partial_update sets, on the row as it is now.
NewRow(r, row) ==
    IF task[r].kind = "issue"
    THEN [status |-> "issued", issued_at |-> r, pdf |-> TRUE]
    ELSE [row EXCEPT !.status = LeadsTo(task[r].kind)]

\* guard_invoice_status_transitions: no way back to draft.
GuardsPass(old, new) == old.status # "draft" => new.status # "draft"

\* The UPDATE of the invoice and the audit row about it, whose two states
\* come from what the handler read and made of it.
UpdateInvoice(r) ==
    /\ pc[r] = "update"
    /\ RowFree(r)
    /\ LET row == invoice[task[r].invoice] IN GuardsPass(row, NewRow(r, row))
    /\ rowLock' = [rowLock EXCEPT ![task[r].invoice] = r]
    /\ auditSeq' = auditSeq + 1
    /\ changed' = [changed EXCEPT ![r] =
          {[id |-> auditSeq', about |-> task[r].invoice,
            before |-> SnapshotOf(before[r]),
            after |-> SnapshotOf(NewRow(r, before[r]))]}]
    /\ pc' = [pc EXCEPT ![r] = IF task[r].kind = "receipt" THEN "record" ELSE "commit"]
    /\ UNCHANGED <<tables, tipLock, disk, task, before, posted>>

RecordOf(r, id) == [id |-> id, about |-> r, before |-> NoSnapshot, after |-> NoSnapshot]

\* Mutant: the audit row goes through a connection of its own.
RecordApart(r) ==
    /\ pc[r] = "record"
    /\ auditSeq' = auditSeq + 1
    /\ audit' = audit \union {RecordOf(r, auditSeq')}
    /\ pc' = [pc EXCEPT ![r] = "commit"]
    /\ UNCHANGED <<billed, invoice, ledger, rowLock, tipLock, disk, task, before, posted,
                   changed>>

\* The audit row about a receipt or an expense, which is what was posted.
Record(r) ==
    /\ pc[r] = "record"
    /\ auditSeq' = auditSeq + 1
    /\ changed' = [changed EXCEPT ![r] = @ \union {RecordOf(r, auditSeq')}]
    /\ pc' = [pc EXCEPT ![r] = "commit"]
    /\ UNCHANGED <<tables, rowLock, tipLock, disk, task, before, posted>>

\* The commit makes the rows visible and frees the locks.
Commit(r, outcome) ==
    /\ pc[r] = "commit"
    /\ ledger' = ledger \union posted[r]
    /\ audit' = audit \union changed[r]
    /\ invoice' = [i \in Invoices |-> IF i = task[r].invoice
                                      THEN NewRow(r, invoice[i]) ELSE invoice[i]]
    /\ rowLock' = [i \in Invoices |-> IF rowLock[i] = r THEN Nobody ELSE rowLock[i]]
    /\ tipLock' = IF tipLock = r THEN Nobody ELSE tipLock
    /\ posted' = [posted EXCEPT ![r] = {}]
    /\ changed' = [changed EXCEPT ![r] = {}]
    /\ pc' = [pc EXCEPT ![r] = outcome]
    /\ UNCHANGED <<billed, auditSeq, disk, task, before>>

Finish(r) == Commit(r, "done")

\* The server commits and the answer is lost: the caller sees a failure.
FinishUnanswered(r) == Commit(r, "lost")

\* The handler raises, or its connection is lost where that changes nothing
\* else.
Abort(r) ==
    /\ pc[r] \in Active
    /\ Undo(r)
    /\ pc' = [pc EXCEPT ![r] = "lost"]

Step(r) == \/ LockInvoice(r)
           \/ PostLedger(r)
           \/ PostRejected(r)
           \/ WritePdf(r)
           \/ UpdateInvoice(r)
           \/ Record(r)
           \/ Finish(r)

Terminating ==
    /\ \A r \in Requests : pc[r] \in Ended
    /\ UNCHANGED vars

Next == \/ \E r \in Requests : \/ Begin(r)
                               \/ Step(r)
                               \/ FinishUnanswered(r)
                               \/ LoseConnection(r)
                               \/ Abort(r)
        \/ Terminating

Spec == Init /\ [][Next]_vars

-----------------------------------------------------------------------------
(* Properties *)

TypeOK ==
    /\ billed \in [Invoices -> Amounts]
    /\ invoice \in [Invoices -> Row]
    /\ rowLock \in [Invoices -> Requests \union {Nobody}]
    /\ ledger \subseteq Posting
    /\ tipLock \in Requests \union {Nobody}
    /\ audit \subseteq AuditRow
    /\ auditSeq \in Nat
    /\ disk \in [Invoices -> Requests \union {Nobody}]
    /\ pc \in [Requests -> {"idle"} \union Active \union Ended]
    /\ task \in [Requests -> Tasks]
    /\ before \in [Requests -> Row]
    /\ posted \in [Requests -> SUBSET Posting]
    /\ changed \in [Requests -> SUBSET AuditRow]

\* With the types: an invoice gets past its draft only if it bills something
\* and its stored amounts add up to the cent.  They were rounded one by one
\* when the draft was stored, and no endpoint looks at the sum again; all that
\* keeps such a draft from being issued and paid is what the ledger accepts.
SoundBillsIssued ==
    /\ TypeOK
    /\ \A i \in Invoices :
          invoice[i].status \in {"issued", "paid"} =>
              /\ billed[i].subtotal > 0
              /\ billed[i].total = billed[i].subtotal + billed[i].tax

PostingsOf(i) == {p \in ledger : p.invoice = i}

\* The status of an invoice says which postings the ledger has for it, and
\* it never has two of a kind: no double issue, no double payment, no void
\* without its reversal (there is "no unique constraint on (reference_type,
\* reference_id) to catch that after the fact", main.py says).
PostingsMatchStatus ==
    \A i \in Invoices :
        LET kinds == {p.kind : p \in PostingsOf(i)}
        IN  /\ CASE invoice[i].status = "draft" -> kinds = {}
                 [] invoice[i].status = "issued" -> kinds = {"issue"}
                 [] invoice[i].status = "paid" -> kinds = {"issue", "receipt"}
                 [] invoice[i].status = "void" -> kinds \in {{}, {"issue", "void"}}
            /\ \A p, q \in PostingsOf(i) : p.kind = q.kind => p = q

\* An invoice that has left draft, paid or void never goes back, whatever
\* request was working from an older copy of its row.
StatusOneWay ==
    [][\A i \in Invoices :
          \/ invoice'[i].status = invoice[i].status
          \/ invoice[i].status = "draft" /\ invoice'[i].status \in {"issued", "void"}
          \/ invoice[i].status = "issued" /\ invoice'[i].status \in {"paid", "void"}]_vars

\* The audit trail of an invoice, in the order of its ids, is one unbroken
\* history: it starts from the draft, every entry begins where the one
\* before ended, and the last one ends at the row as it is.
AuditTrailConnected ==
    \A i \in Invoices :
        LET trail == {a \in audit : a.about = i}
            Previous(a) == {b \in trail : b.id < a.id}
            Latest(rows) == CHOOSE b \in rows : \A c \in rows : c.id <= b.id
        IN  /\ \A a \in trail :
                  a.before = IF Previous(a) = {} THEN SnapshotOf(DraftRow)
                             ELSE Latest(Previous(a)).after
            /\ SnapshotOf(invoice[i]) =
                  IF trail = {} THEN SnapshotOf(DraftRow) ELSE Latest(trail).after

\* Every receipt and every expense in the books has one audit row, and no
\* audit row tells of one that is not in the books.
PaymentsAudited ==
    LET payments == {p.by : p \in {q \in ledger : q.kind \in {"receipt", "expense"}}}
        rows == {a \in audit : a.about \in Requests}
    IN  /\ {a.about : a \in rows} = payments
        /\ \A a, b \in rows : a.about = b.about => a = b

\* An invoice that has been issued has a PDF, and it reports the issue that
\* the row reports, whoever drew one before and was rolled back: only a
\* handler whose connection died while it was drawing may replace it.
PdfOfIssueUnlessCut ==
    \A i \in Invoices :
        /\ invoice[i].status \in {"issued", "paid"} => invoice[i].pdf
        /\ invoice[i].pdf =>
              \/ disk[i] = invoice[i].issued_at
              \/ \E r \in Requests : disk[i] = r /\ pc[r] = "cut"

\* What main.py says: "so the PDF reflects the invoice's real post-issuance
\* state (status=issued, the actual issued_at)", whatever happens.
PdfMatchesIssue ==
    \A i \in Invoices :
        invoice[i].pdf => disk[i] = invoice[i].issued_at

Waiting(r) ==
    \/ pc[r] \in {"lock", "update"} /\ ~RowFree(r)
    \/ pc[r] = "post" /\ ~TipFree(r)

Running(r) == pc[r] \in Active /\ ~Waiting(r)

HolderFor(r) == IF pc[r] = "post" THEN tipLock ELSE rowLock[task[r].invoice]

\* Nobody waits in a circle or for a request that has ended: whoever waits,
\* waits for one that can go on, or for one that waits for such a one.  The
\* two locks are always taken in the same order.
WaitsEnd ==
    \A r \in Requests :
        Waiting(r) =>
            LET holder == HolderFor(r)
            IN  \/ Running(holder)
                \/ Waiting(holder) /\ Running(HolderFor(holder))

\* The books as the ledger has them for one invoice, in cents.
LinesFor(i) ==
    UNION {{[txn |-> p.by, line |-> k, entry |-> p.entries[k]] : k \in DOMAIN p.entries} :
           p \in PostingsOf(i)}

Balance(i, account) ==
    Imbalance({x \in LinesFor(i) : x.entry.account = account}, HomeCurrency) \div 100

Lifecycle == INSTANCE InvoiceLifecycle
    WITH status <- [i \in Invoices |-> invoice[i].status],
         books <- [i \in Invoices |->
                     [receivable |-> Balance(i, "1000"), revenue |-> -Balance(i, "4000"),
                      tax |-> -Balance(i, "2000"), cash |-> Balance(i, "1010")]]

\* Every commit moves one invoice and its part of the books together, as the
\* abstract life cycle has it; nothing else moves either.
ImplementsLifecycle == Lifecycle!Spec
=============================================================================
