---------------------------- MODULE InvoiceNumbers ----------------------------
(***************************************************************************)
(* POST /invoices: create_invoice (app/main.py) with the number taken from *)
(* the year's row of invoice_number_counters (app/invoicing.py, migration  *)
(* 0005).  Each request is one database transaction; statements of         *)
(* different requests interleave, and row locks last until the commit or   *)
(* the rollback.                                                           *)
(*                                                                         *)
(* Abstractions.  Contracts, clients and milestones are never deleted and  *)
(* never change owner, so the look-ups before the numbering read           *)
(* constants.  Amounts are counted in tenths of a cent, the columns in     *)
(* cents.                                                                  *)
(***************************************************************************)
EXTENDS Integers, FiniteSets

CONSTANTS
    Requests,     \* requests that create an invoice, one each
    Nobody,       \* no request
    FirstYear,    \* the year in which the model starts
    LastYear,     \* the last year reached (a bound of the model)
    Payloads,     \* request bodies
    ClientOf,     \* the client of each contract that exists
    ContractOf,   \* the contract of each milestone that exists
    NoMilestone,  \* the body names no milestone
    Currencies    \* the codes in the table currencies

Years == FirstYear .. LastYear

Payload == [contract : STRING, client : STRING,
            milestone : STRING \union {NoMilestone}, currency : STRING,
            subtotal : Nat, tax : Nat]

ASSUME NobodyAssumption == Nobody \notin Requests
ASSUME YearsAssumption ==
    FirstYear \in Nat /\ LastYear \in Nat /\ FirstYear <= LastYear
ASSUME PayloadsAssumption == Payloads \subseteq Payload

VARIABLES
    today,      \* the year of date.today()
    pc,         \* where each request is
    bill,       \* its body
    year,       \* the year it took its number from
    number,     \* the number it is going to use
    known,      \* the years that have a committed counter row
    counter,    \* last_number of each, as committed; 0 without a row
    creator,    \* the request with an uncommitted counter row for the year
    rowLock,    \* the request that holds the counter row's lock
    invoices,   \* the committed rows of invoices
    audit,      \* the committed CREATE rows about invoices
    auditSeq,   \* the last value of the sequence behind audit_log.id
    entry       \* each request's uncommitted audit row, as a set

trail == <<audit, auditSeq, entry>>
vars == <<today, pc, bill, year, number, known, counter, creator, rowLock, invoices,
          trail>>

Invoice == [by : Requests, year : Years, seq : Nat \ {0},
            subtotal : Nat, tax : Nat, total : Nat]

AuditRow == [id : Nat, after : Invoice]

Inserted == {"written", "logged"}
Numbered == {"insert"} \union Inserted
Active == {"ensure", "lock"} \union Numbered
Ended == {"rejected", "created", "refused", "duplicate", "lost"}

-----------------------------------------------------------------------------
Init ==
    /\ today = FirstYear
    /\ pc = [r \in Requests |-> "idle"]
    /\ bill \in [Requests -> Payloads]
    /\ year = [r \in Requests |-> FirstYear]
    /\ number = [r \in Requests |-> 0]
    /\ known = {}
    /\ counter = [y \in Years |-> 0]
    /\ creator = [y \in Years |-> Nobody]
    /\ rowLock = [y \in Years |-> Nobody]
    /\ invoices = {}
    /\ audit = {}
    /\ auditSeq = 0
    /\ entry = [r \in Requests |-> {}]

NewYear ==
    /\ today < LastYear
    /\ today' = today + 1
    /\ UNCHANGED <<pc, bill, year, number, known, counter, creator, rowLock, invoices,
                   trail>>

\* The look-ups that end in a 404 or a 400.
Matches(payload) ==
    /\ payload.contract \in DOMAIN ClientOf
    /\ ClientOf[payload.contract] = payload.client
    /\ payload.milestone # NoMilestone =>
          /\ payload.milestone \in DOMAIN ContractOf
          /\ ContractOf[payload.milestone] = payload.contract

Submit(r) ==
    /\ pc[r] = "idle"
    /\ year' = [year EXCEPT ![r] = today]
    /\ pc' = [pc EXCEPT ![r] = IF Matches(bill[r]) THEN "ensure" ELSE "rejected"]
    /\ UNCHANGED <<today, bill, number, known, counter, creator, rowLock, invoices, trail>>

\* INSERT ... ON CONFLICT DO NOTHING waits for another transaction that has
\* inserted the year's row and not ended; it inserts nothing if there is a
\* committed row by then.
EnsureCounter(r) ==
    /\ pc[r] = "ensure"
    /\ \/ year[r] \in known /\ UNCHANGED creator
       \/ /\ year[r] \notin known
          /\ creator[year[r]] = Nobody
          /\ creator' = [creator EXCEPT ![year[r]] = r]
    /\ pc' = [pc EXCEPT ![r] = "lock"]
    /\ UNCHANGED <<today, bill, year, number, known, counter, rowLock, invoices, trail>>

CounterAvailable(r) == rowLock[year[r]] \in {Nobody, r}

\* SELECT last_number ... FOR UPDATE: the number as of the lock.
NumberFrom(r) == counter[year[r]] + 1

\* Mutants: the SELECT is without FOR UPDATE; the number is the last one
\* used; the numbers come from a bare SEQUENCE.
ReadCounter(r) ==
    /\ pc[r] = "lock"
    /\ number' = [number EXCEPT ![r] = NumberFrom(r)]
    /\ pc' = [pc EXCEPT ![r] = "insert"]
    /\ UNCHANGED <<today, bill, year, known, counter, creator, rowLock, invoices, trail>>

LockOffByOne(r) ==
    /\ pc[r] = "lock"
    /\ CounterAvailable(r)
    /\ rowLock' = [rowLock EXCEPT ![year[r]] = r]
    /\ number' = [number EXCEPT ![r] = counter[year[r]]]
    /\ pc' = [pc EXCEPT ![r] = "insert"]
    /\ UNCHANGED <<today, bill, year, known, counter, creator, invoices, trail>>

DrawFromSequence(r) ==
    /\ pc[r] = "lock"
    /\ number' = [number EXCEPT ![r] = NumberFrom(r)]
    /\ counter' = [counter EXCEPT ![year[r]] = NumberFrom(r)]
    /\ pc' = [pc EXCEPT ![r] = "insert"]
    /\ UNCHANGED <<today, bill, year, known, creator, rowLock, invoices, trail>>

LockCounter(r) ==
    /\ pc[r] = "lock"
    /\ CounterAvailable(r)
    /\ rowLock' = [rowLock EXCEPT ![year[r]] = r]
    /\ number' = [number EXCEPT ![r] = NumberFrom(r)]
    /\ pc' = [pc EXCEPT ![r] = "insert"]
    /\ UNCHANGED <<today, bill, year, known, counter, creator, invoices, trail>>

\* invoices_year_seq_key (and invoice_number, which is the same pair): an
\* uncommitted row with the same key makes the INSERT wait, a committed one
\* makes it fail.
KeyPending(r) ==
    \E q \in Requests \ {r} :
        pc[q] \in Inserted /\ year[q] = year[r] /\ number[q] = number[r]

KeyTaken(r) ==
    \E inv \in invoices : inv.year = year[r] /\ inv.seq = number[r]

\* The foreign key on currency_code is checked after the unique keys.
Insertable(r) == ~KeyTaken(r) /\ bill[r].currency \in Currencies

\* The UPDATE of the counter and the INSERT of the invoice.
InsertInvoice(r) ==
    /\ pc[r] = "insert"
    /\ CounterAvailable(r)
    /\ ~KeyPending(r)
    /\ Insertable(r)
    /\ rowLock' = [rowLock EXCEPT ![year[r]] = r]
    /\ pc' = [pc EXCEPT ![r] = "written"]
    /\ UNCHANGED <<today, bill, year, number, known, counter, creator, invoices, trail>>

\* What r holds of the counters, when its transaction ends.
Without(r, holders) ==
    [y \in Years |-> IF holders[y] = r THEN Nobody ELSE holders[y]]

\* Mutants: the counter was bumped in a transaction of its own; the
\* connection of a failed request stays open.
NumberBurnt(r, outcome) ==
    /\ counter' = [counter EXCEPT ![year[r]] =
                      IF pc[r] \in Numbered THEN number[r] ELSE @]
    /\ creator' = Without(r, creator)
    /\ rowLock' = Without(r, rowLock)
    /\ pc' = [pc EXCEPT ![r] = outcome]
    /\ entry' = [entry EXCEPT ![r] = {}]
    /\ UNCHANGED <<today, bill, year, number, known, invoices, audit, auditSeq>>

LocksLeaked(r, outcome) ==
    /\ pc' = [pc EXCEPT ![r] = outcome]
    /\ UNCHANGED <<today, bill, year, number, known, counter, creator, rowLock, invoices,
                   trail>>

\* get_db's rollback: the counter row is as it was, or gone again.
Rollback(r, outcome) ==
    /\ creator' = Without(r, creator)
    /\ rowLock' = Without(r, rowLock)
    /\ pc' = [pc EXCEPT ![r] = outcome]
    /\ entry' = [entry EXCEPT ![r] = {}]
    /\ UNCHANGED <<today, bill, year, number, known, counter, invoices, audit, auditSeq>>

InsertFails(r) ==
    /\ pc[r] = "insert"
    /\ CounterAvailable(r)
    /\ ~KeyPending(r)
    /\ ~Insertable(r)
    /\ Rollback(r, IF KeyTaken(r) THEN "duplicate" ELSE "refused")

\* numeric(18, 2) rounds half away from zero.
Cents(amount) == (amount + 5) \div 10

\* Mutant: the amounts are cut off, not rounded, on their way to the total.
CutOff(r) ==
    [by |-> r, year |-> year[r], seq |-> number[r],
     subtotal |-> Cents(bill[r].subtotal),
     tax |-> Cents(bill[r].tax),
     total |-> bill[r].subtotal \div 10 + bill[r].tax \div 10]

\* total_amount is the sum of the amounts in the body, and each of the three
\* columns rounds what it is given.
NewInvoice(r) ==
    [by |-> r, year |-> year[r], seq |-> number[r],
     subtotal |-> Cents(bill[r].subtotal),
     tax |-> Cents(bill[r].tax),
     total |-> Cents(bill[r].subtotal + bill[r].tax)]

\* record_audit_event with the row as it is read back.
Log(r) ==
    /\ pc[r] = "written"
    /\ auditSeq' = auditSeq + 1
    /\ entry' = [entry EXCEPT ![r] = {[id |-> auditSeq', after |-> NewInvoice(r)]}]
    /\ pc' = [pc EXCEPT ![r] = "logged"]
    /\ UNCHANGED <<today, bill, year, number, known, counter, creator, rowLock, invoices,
                   audit>>

Commit(r) ==
    /\ pc[r] = "logged"
    /\ known' = known \union {year[r]}
    /\ counter' = [counter EXCEPT ![year[r]] = number[r]]
    /\ invoices' = invoices \union {NewInvoice(r)}
    /\ audit' = audit \union entry[r]
    /\ entry' = [entry EXCEPT ![r] = {}]
    /\ creator' = Without(r, creator)
    /\ rowLock' = Without(r, rowLock)
    /\ pc' = [pc EXCEPT ![r] = "created"]
    /\ UNCHANGED <<today, bill, year, number, auditSeq>>

\* The request ends without a commit: an exception, a lost connection.
Abort(r) ==
    /\ pc[r] \in Active
    /\ Rollback(r, "lost")

Step(r) == \/ EnsureCounter(r)
           \/ LockCounter(r)
           \/ InsertInvoice(r)
           \/ InsertFails(r)
           \/ Log(r)
           \/ Commit(r)

Terminating ==
    /\ today = LastYear
    /\ \A r \in Requests : pc[r] \in Ended
    /\ UNCHANGED vars

Next == \/ NewYear
        \/ \E r \in Requests : Submit(r) \/ Step(r) \/ Abort(r)
        \/ Terminating

Spec == Init /\ [][Next]_vars

\* A request that has begun goes on; only row locks can hold it.
FairSpec == Spec /\ \A r \in Requests : WF_vars(Step(r))

-----------------------------------------------------------------------------
(* Properties *)

TypeOK ==
    /\ today \in Years
    /\ pc \in [Requests -> {"idle"} \union Active \union Ended]
    /\ bill \in [Requests -> Payloads]
    /\ year \in [Requests -> Years]
    /\ number \in [Requests -> Nat]
    /\ known \subseteq Years
    /\ counter \in [Years -> Nat]
    /\ creator \in [Years -> Requests \union {Nobody}]
    /\ rowLock \in [Years -> Requests \union {Nobody}]
    /\ invoices \subseteq Invoice
    /\ IsFiniteSet(invoices)
    /\ audit \subseteq AuditRow
    /\ auditSeq \in Nat
    /\ entry \in [Requests -> SUBSET AuditRow]

OfYear(y) == {inv \in invoices : inv.year = y}

\* The committed invoices of a year carry the numbers 1 to n, each once, in
\* every state: failed and concurrent requests leave no hole (0005: "a
\* gapless, monotonically increasing sequence per year").
Gapless ==
    \A y \in Years :
        {inv.seq : inv \in OfYear(y)} = 1 .. Cardinality(OfYear(y))

\* The unique keys on the number are a last resort that never fires: no
\* request fails because another one took its number.
NumbersNeverCollide == \A r \in Requests : pc[r] # "duplicate"

\* Requests for the same year queue behind its counter row and each of them
\* gets through or fails, whatever the others do.
CreationsEnd ==
    \A r \in Requests : pc[r] \in Active ~> pc[r] \in Ended

\* The numbering as the rest of the system may rely on it.
Numbering == INSTANCE GaplessNumbers
    WITH last <- counter, taken <- {<<inv.year, inv.seq>> : inv \in invoices}

\* The commits of create_invoice implement the abstract numbering: one
\* number a step, the successor of the last, none taken back.
ImplementsNumbering == Numbering!Spec

\* The audit log tells of exactly the invoices there are, each once and as it
\* was stored, and it lists those of a year in the order of their numbers:
\* a request keeps the counter until its audit row is committed too.
AuditListsInvoices ==
    /\ {a.after : a \in audit} = invoices
    /\ \A a, b \in audit :
          (a.after.year = b.after.year /\ a.id <= b.id) =>
              /\ a.after.seq <= b.after.seq
              /\ a.id = b.id => a = b

\* The three amounts are rounded one by one, so the total may differ from the
\* sum of its stored parts, but never by more than a cent and never if the
\* body had whole cents.  (main.py has it that "it can never disagree with
\* its own components".)
TotalNearSum ==
    \A inv \in invoices :
        /\ inv.total - inv.subtotal - inv.tax \in {-1, 0, 1}
        /\ (bill[inv.by].subtotal % 10 = 0 /\ bill[inv.by].tax % 10 = 0) =>
              inv.total = inv.subtotal + inv.tax
=============================================================================
