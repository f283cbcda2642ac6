# A verification project for the Dreamers-Media Pacific financial backend

TLA+ modules of the backend under `src/backend/`, the TLC configurations that
check them on small instances, and proofs of their safety properties and refinements
that the TLA+ proof system checks for every value of the constants.

## 1. The system

A FastAPI service over PostgreSQL.  Endpoints are plain `def` functions, so
they run concurrently in a thread pool; several processes may serve the same
database.  Every request gets one connection and one transaction
(`app/db.py`): the commit comes when the handler has returned, anything raised
rolls everything back, and the isolation level is PostgreSQL's default, READ
COMMITTED.  The interesting state is therefore shared by transactions whose
*statements* interleave, and what keeps it correct is row locks, unique keys,
triggers and the order in which handlers use them.

| Component | State it keeps | Operations | Where it is modelled |
|---|---|---|---|
| Request transactions (`app/db.py`) | locks and uncommitted rows of each request | commit, rollback, close | in every module with requests |
| Ledger posting (`app/ledger.py`, migrations 0003, 0006) | `ledger_transactions`, `ledger_entries` (append-only) | validate, post, find, reverse; CHECK on amounts; deferred balance trigger | `LedgerEntries`, `AtomicLedger`, `LedgerChain` |
| Hash chain (migration 0011) | `ledger_chain_tip`, `chain_seq`, `previous_hash`, `row_hash` | BEFORE INSERT trigger that locks the tip | `LedgerChain` |
| Invoice numbering and creation (`app/invoicing.py`, `create_invoice`, migration 0005) | `invoice_number_counters`, `invoices` | create the year's counter, lock it, take a number, insert, audit | `GaplessNumbers`, `InvoiceNumbers` |
| Invoice life cycle (`issue_invoice`, `void_invoice`, `create_receipt`, `create_expense`) | `invoices.status`, `issued_at`, `pdf_object_key`, the postings | lock the row, check, post, update, audit | `InvoiceLifecycle`, `Invoices` |
| Invoice PDFs (`app/pdf.py`) | one file an invoice, outside any transaction | draw, overwrite, read | `Invoices` |
| Audit log (`app/audit.py`, migration 0007) | `audit_log` (append-only, `bigserial` id) | one insert in the caller's transaction | `InvoiceNumbers`, `Invoices`, `RoleGrants`, `Records`, `FieldKeys`, each for its own endpoints |
| Role grants (`grant_role`, `revoke_role`, `app/rbac.py`, migration 0002) | `users`, `user_roles` | grant, revoke, read the roles of the caller | `RoleGrants` |
| Authentication (`app/auth.py`) | key set and its age, in each process | refresh, look up a key, decode | `JwksCache` (the cache), `RoleGrants` (the caller's roles) |
| Contracts and milestones (`app/main.py`, `app/crud_helpers.py`, migration 0004) | two tables | create, PATCH (read, update, read again) | `PartialUpdates`, `Records` |
| Clients and field encryption (`app/crypto.py`, `create_client`, `get_client`, migration 0012) | key of the process, ciphertexts | create the provider once, encrypt, decrypt | `FieldKeys` |
| Schemas, settings, database roles, landing page | none that changes | | not modelled |

How they interact: `create_invoice` calls the numbering inside its own
transaction.  `issue_invoice`, `void_invoice` and `create_receipt` lock an
invoice row, then call the ledger, whose inserts lock the tip of the hash chain
until the request ends; then they update the invoice and write the audit row.
Issuing also writes a file between the posting and the update.  Every
endpoint looks up the signing key of the caller's token first, in a cache that
the threads of a process share, and then reads the caller's roles in its
transaction.  The client endpoints ask a provider for the key of their contact
fields; the provider is another global of the process.

### What is hard about it

* **Interleaving**: two requests read the same counter, the same draft, the same
  tip.  The tests run two connections by hand in a few orders; the models run
  all orders of three requests.
* **Ordering**: `chain_seq` and `audit_log.id` come from sequences, which take
  part in no transaction; original entries are read without an ORDER BY.
* **Partial failure**: a posting has several inserts, a creation three
  statements; a request can be lost before any of them, at the commit, or after
  it with the answer missing.
* **Outside the transaction**: the PDF survives a rollback, and its writer does
  not notice that its locks are gone.
* **Numbers**: requests carry decimals of any precision, columns round.
* **Globals without a lock**: threads of one process refresh the key-set cache and
  create the key provider independently, and each of these takes several steps.
* **Restarts**: a process that dies takes its ephemeral key along and leaves the
  rows encrypted under it.
* **Waiting**: the counter of a year, an invoice row and the tip are locks that
  others queue for, and two of them are held at once.

What makes each component correct: the ledger is one unforked chain of balanced,
whole postings; numbers of a year have no hole and no duplicate; an invoice's
status, its postings, its balances and its audit trail agree at every moment;
an issued invoice has the PDF of its issue; every role goes back to an owner and
every change of one to an audit row; a PATCH changes only what it names and
leaves a valid row; a published signing key is recognised and a withdrawn one is
not for long; what was encrypted can be decrypted by the process that did;
nobody waits for ever.

## 2. The modules

**`LedgerEntries`** has no state: the entries of a posting, the checks of
`_validate_entries`, the two look-ups, the rounding of `numeric(18, 4)` and the
flip of a reversal.  Amounts are integers in tenths of the column's last
decimal, so that an amount finer than the column exists.

**`AtomicLedger`** says what posting promises: a step enters the entries of one
whole transaction, balanced as stored, or the flips of one earlier transaction in
some order, and nothing entered ever changes.  **`LedgerChain`** is the ledger under concurrent requests.  `pc` is where a
request is in `post_ledger_transaction`; `Post` is everything before the first
insert; an insert is two steps, `DrawSeq` (the identity column's default) and
`InsertEntry` or `InsertRefused` (the trigger has the tip's lock, then the CHECK
decides).  `Commit` and `CommitRefused` run the deferred trigger; `Abort` loses
the request anywhere before.  Hashes are sequences of the contents they commit
to: two are equal exactly when they were computed from the same history, which
is what a collision-free hash gives.

**`GaplessNumbers`** says what numbering promises: a year's numbers are handed
out one at a time and never taken back.  **`InvoiceNumbers`** is
`create_invoice`: the look-ups (`Matches`), `EnsureCounter` (INSERT ... ON
CONFLICT DO NOTHING, which waits for an uncommitted row of the same key),
`LockCounter`, `InsertInvoice` or `InsertFails` (unique keys, foreign key), the
audit row (`Log`) and the end of the transaction.  A counter row inserted by a request that rolls
back is gone again.  `NewYear` may happen at any time.

**`InvoiceLifecycle`** says what the life cycle promises: status and the
invoice's balances on receivables, revenue, tax and cash move together.
**`Invoices`** is the four endpoints: `LockInvoice` (SELECT ... FOR UPDATE and the
checks), `PostLedger`, `WritePdf`, `UpdateInvoice` (row and audit row), `Record`
(the audit row of a receipt or an expense), `Finish`.
A whole posting is one step here, because `LedgerChain` implements
`AtomicLedger`; only its lock on the tip matters to the others.  `LoseConnection`
ends the session of a handler that is drawing a PDF: the locks go, the handler
goes on and ends as `cut`.  `FinishUnanswered` commits and loses the answer.  A
posting and the moment of issue are named by the request, so two issues of one
invoice differ.

**`RoleGrants`** is the two role endpoints.  `Begin` reads the caller's roles and
the user that is named; a grant then reads the row (`ReadRow`), a revocation
looks for one to update (`ScanRow`), both without a lock.  `WriteRow` is the
upsert or the UPDATE once it has the row's lock, on the row as it is then; `Log`
writes the audit row whatever was written.  A row that a request inserts locks
its key for other inserts, and an UPDATE does not see it: that is why `ScanRow`
looks at committed rows only.

**`PartialUpdates`** says what POST and PATCH of a contract or milestone promise:
the row appears once, whole and valid; a PATCH is one change of the named columns
of the row as it is at that moment.  **`Records`** is the handlers: `Insert` or
`InsertRefused` for the creation; `ReadBefore` (with the 404), `UpdateRow` (which
waits for the row's lock), `UpdateNothing` (an empty body takes no lock) or
`UpdateRefused` (a constraint of the table) for a PATCH; `ReadAfter`, `Log` and
`Commit` for both.  The four columns stand for the kinds the tables have: required,
optional, and two that a CHECK ties to each other.

**`JwksCache`** is `JWKSClient` in one process.  A refresh is four steps: `Check` or
`Look` sends it, `Fetch` is the moment the provider answers, `Store` replaces
`_keys_by_kid`, `Stamp` sets `_cached_at`; `FetchFails` ends the request with a 503.
`Return` is the last line, which looks the kid up once more, in the keys there are
by then.  A key set is named by the moment it was published, so that the model
can tell an older set from a newer one; `Tick` lets time pass anywhere, within a
refresh too.  The code sets no limit to a refresh: `timeout=5.0` bounds each phase
of the HTTP request, not all of it and not the steps after it.  So the age of
accepted keys is stated against `longest`, the most time a refresh has taken so
far.  That variable is history, and so are two others: when a request began, and the
oldest answer that another thread had in hand at that moment.

**`FieldKeys`** is the clients' endpoints with the provider of their key.
`FindProvider`, `MakeProvider` and `ObtainKey` are the steps of
`get_key_provider`: it looks at the global, sets it and reads it back.  A key is
named by the request that made it.  `KeyUnavailable` is the provider that is a
stub.  `InsertClient`, `Log`, `Commit` and `Abort` are the transaction, `ReadClient` is
the decryption, `Restart` takes the process and its key, and keeps what was
committed.

The modules `MC...` hold the small instances, the modules `...Proofs` the
theorems about the module they are named for.  Definitions commented as mutants are
plausible bugs of the code they stand next to; each one breaks the property it
was written for and none is part of a specification.

## 3. What the runs check

| Run | Instance | Shows |
|---|---|---|
| `LedgerChain.cfg` | 3 requests, 7 kinds of postings, reversals, fairness | one unforked chain that the tip ends (`ChainUnbroken`) and only ever extends (`TipOnlyExtends`); balanced (`PostingsBalanced`), whole (`AllOrNothing`) postings as stored; reversals cancel on every account (`ReversalNetsToZero`); refinement of `AtomicLedger` (`ImplementsAtomicLedger`); every posting that passed validation ends (`PostingsEnd`) |
| `InvoiceNumbers.cfg` | 3 requests, 2 years, 7 bodies, fairness | numbers 1 to n in each year in every state (`Gapless`); the unique keys never fire (`NumbersNeverCollide`); the audit log lists exactly the invoices, each year's in the order of their numbers (`AuditListsInvoices`); a total is at most a cent off the sum of its parts, and never with whole cents (`TotalNearSum`); refinement of `GaplessNumbers` (`ImplementsNumbering`); every creation ends (`CreationsEnd`) |
| `Invoices.cfg` | 3 requests, 2 invoices, odd amounts, lost connections | an issued or paid invoice bills something and its stored amounts add up (`SoundBillsIssued`, with the types); postings say what the status says, once each (`PostingsMatchStatus`); status never goes back (`StatusOneWay`); the audit trail is one connected history up to the row (`AuditTrailConnected`); payments and their audit rows match (`PaymentsAudited`); the PDF is that of the recorded issue, unless a handler without a connection replaced it (`PdfOfIssueUnlessCut`); nobody waits in a circle or for a request that has ended (`WaitsEnd`); refinement of `InvoiceLifecycle` with its balances (`ImplementsLifecycle`) |
| `RoleGrants.cfg` | 3 requests, 2 users, 2 roles, 1 founder, fairness | a grant is audited with a state the role started in or an earlier audit row left, never with an uncommitted one or its own (`BeforeStatesReal`, with the types); every grantor has been an owner (`GrantorsWereOwners`); no role changes without its audit row in the same commit (`EveryChangeAudited`); who the log shows last as having been granted a role holds it (`LastGrantHolds`); every operation ends (`RequestsEnd`) |
| `Records.cfg` | a creation and 3 PATCHes, 2 drafts, 7 bodies, fairness | constraints across columns survive updates that are each valid alone (`ConstraintsHold`); the newest audit row of a change ends at the row (`AuditEndsAtRow`); a change that an audit row shows and its actor did not make is in an earlier row, of who made it (`ChangesTraceable`); refinement of `PartialUpdates`, so no lost update (`ImplementsPartialUpdates`); every PATCH ends (`PatchesEnd`) |
| `JwksCache.cfg` | 3 requests, 2 keys, 1 rotation, 4 moments, fairness | nobody looks for a key without any (`KeysAtHand`); a kid published all the while is recognised (`SteadyKeysAccepted`); an accepted key was published at most the TTL and twice the longest refresh so far before the request (`AcceptedKeysRecent`); every request is answered (`RequestsAnswered`) |
| `FieldKeys.cfg` | 3 requests, 1 restart, both settings | contact fields are stored under a key or not at all (`TypeOK`); with a settled provider every client can be read until the process ends (`SettledClientsReadable`) and never after (`ContactsDieWithProcess`) |

Five runs show what the repository says of itself and its code does not do:

* `LedgerChainSeq.cfg`: `chain_seq` is not the insertion order of the chain
  (migration 0011, lines 38-40).  It is drawn before the wait for the tip.
* `InvoicePdfLost.cfg`: a handler whose connection died while it was drawing
  overwrites the PDF of the retry that issued the invoice (`app/main.py`, lines
  632-633).  `PdfOfIssueUnlessCut` says that this loss is the only way.
* `RoleRevoked.cfg`: a revocation that matched nothing is audited as one, and the
  role stays (migration 0002, lines 70-71).  The reverse cannot happen:
  `LastGrantHolds`.
* `JwksStale.cfg`: a slow refresh stores an older key set over a newer one, and a
  token whose key is published throughout its request gets a 401, though racing
  refreshes are said to cost redundant calls only (`app/auth.py`, lines 46-54).
  `SteadyKeysAccepted` says how far back such an older set may go: to the oldest
  answer in hand when the request began.
* `FieldKeysRace.cfg`: two first requests each make a provider, and clients
  encrypted under the first key cannot be read any more in the same process
  (`app/crypto.py`, lines 39-40).  `SettledClientsReadable` says that only first
  requests can do this.

Three smaller disagreements are stated by properties that pass, in what does hold.
An amount that rounds to nothing passes `_validate_entries` and fails partway
through the posting (`app/ledger.py`, lines 30-31), but leaves nothing behind
(`AllOrNothing`).  Half cents make a stored total differ from its stored parts
(`app/main.py`, lines 443-445), by a cent at most (`TotalNearSum`), and such a draft
can never be issued (`SoundBillsIssued`).  A PATCH that waited for another one audits the other's
change too (migration 0007, lines 21-23), but the change can be traced to its actor
(`ChangesTraceable`).

### Bounds

* *Requests*: three, each performing one operation (in `Records`, three PATCHes
  and the creation).  Locks here are exclusive
  and held by one transaction; three requests give a holder, a waiter and one
  that arrives when the holder ends.  A retry is another request.
* *Postings*: one that is stored, one that rounds to nothing, one that rounding
  unbalances, and four that validation rejects, each for another reason.
* *Years*: two (`FirstYear`, `LastYear`), so that one turn happens anywhere.
* *Amounts*: with tax, one that rounding left unbalanced and one of tax
  only.  *Payments*: the whole amount and another one.
* *Users and roles*: a founder and a second user; owner and one role that confers
  no right to grant.
* *Bodies of PATCHes*: none, one column, two, a required one set to null, and two
  dates that are valid with the first row but not with each other.
* *Time* in `JwksCache`: moments 0 to `MaxNow`, a TTL of 0 units and refreshes of at
  most 1 (`MaxRefresh`), so that the cache expires, a refresh overlaps a rotation, and an answer
  is stored after a newer one, all within four moments; the violation uses a TTL
  of 1 and refreshes of any length.  One rotation publishes the new key before it withdraws the old one.
* *Lives* of the process in `FieldKeys`: two, so one restart at any moment.
* Sequences (`chainSeq`, `auditSeq`) grow only with requests, which are finite.
* Symmetry is used in `Invoices.cfg`, over requests and over invoices, and in
  `FieldKeys.cfg`, over requests: the modules treat them alike, and neither run
  checks liveness.

### Fairness

`FairSpec` has weak fairness for the steps of each request *after it has begun*:
a handler in the thread pool goes on, and PostgreSQL gives a freed lock to a
waiter.  Nothing is assumed of callers (a request may never come), of failures
(`Abort` and the lost connections may happen or not), or of the calendar.  Weak
fairness is enough because each request is one operation: a lock a request waits
for is taken by others only finitely often.  In `JwksCache` the steps include the
answer of the provider, because `timeout=5.0` turns an answer that
does not come, or stops coming, into a failure.

`Invoices` states no fairness: with three requests on two invoices, two locks and
lost connections its instance is the largest, and liveness would forbid the
symmetry.  `WaitsEnd` says there what fairness would need: at most two hops from a
waiting request there is one that can move, and no request takes a step twice, so
all requests end.

Deadlock is checked in every run: `Terminating` is possible only when all
requests have ended.

## 4. What is proved

Every invariant, every action property and every refinement that the runs in
section 3 check and find to hold is also a theorem, for any sets of requests,
accounts, currencies, postings, amounts, invoices, payloads, years, users and
founders.  What stays with TLC is liveness, and the violations.

Assumptions, all named in the module that declares the constants: `Nobody`,
`NoInvoice`, `NoUser` and the like are none of the things they stand for the absence of;
postings, amounts and payloads are well-formed; years are an interval of natural
numbers; the accounts and currencies a posting is made of are codes (in `Invoices`,
the chart and the table of currencies); in `Invoices` a request is no invoice, since the audit log
names both; `owner_admin` is one of the roles; bodies name columns of the table; the
provider never publishes an empty key set; a process lives at least once.

The proofs have one shape.  The property is seldom inductive; a stronger invariant is,
and there is a lemma for the initial states, one for each action or group of
actions that disturbs it, one for a step, and a theorem that combines them.

* `LedgerEntriesProofs` has no theorem of its own to list: it is what the others
  need about sums.  `Imbalance` adds up a finite set by taking out one entry after the other.
  The lemmas say that the sum exists (`TallyExists`), does not depend on the order
  (`SumWithout`), splits over unions (`SumUnion`) and over an enumeration
  (`SumAlong`).  The library's induction theorems cannot be instantiated by the
  installed provers, so these argue by a minimal counterexample: the proper subsets of
  a finite set are well-founded (`SmallestSubset`), and a subset without a smaller bad one is not bad.
* `LedgerChainProofs`
  * `TypeCorrect`: types.  `InsertingALine` is needed beside them: a request that
    is inserting has a line left, or `NextRow` would be no row.
  * `ChainNeverForks`, `TipNeverForgets`: `ChainUnbroken` is not inductive, since
    rows become committed in bulk.  The invariant `ChainInv` says that the
    committed rows *continue* the chain from the genesis to the tip
    (`CommittedInv`), that only the holder of the tip's lock has rows of its own,
    and that those continue it from the tip (`PendingInv`).  An insert extends
    the second chain, a commit joins the two, everything else leaves them alone.
  * `BooksBalance`, `PostingsWhole`: `PostingsBalanced` and `AllOrNothing`, with
    `LinesInv` (the pending rows are the first lines of the plan).  The deferred
    check is over exactly the rows that the commit adds.
  * `ReversalsNetToZero`: `SourceInv` says where an accepted plan came from, long
    after the look-up that made it: it was handed in and valid, or it is the
    flipped rows of a committed transaction in some order.  Flipping commutes with
    rounding (`StoredFlip`) and a sum does not see the order, so the two
    transactions cancel on every account.
  * `LedgerImplemented`: a commit is the abstract posting or reversal, from
    `BooksKnown` (what is entered for a request is its plan as stored) and
    `BookBalances` (it balances, by the deferred check or because what it reverses did); every
    other step is a stutter.
* `InvoiceNumbersProofs`
  * `NumbersAreGapless`, `NumbersAreNeverTaken`: `CounterInv` ties each counter to
    the numbers and the count of its year's invoices, `HolderInv` says that whoever
    has a number has the lock and the number is still the next one.
  * `NumberingImplemented`: from the same invariant, every step takes the next
    number of one year or changes nothing the abstract specification sees.
  * `LogListsInvoices`: audit ids come from a sequence that no lock protects.
    `WrittenInv` says that the row a request has written is newer than all committed rows
    of its year; it stays so because the holder of the counter is the only one of that
    year that can commit.
  * `TotalsAddUp`: the arithmetic is `SumOfRoundings`, for any two amounts.
* `InvoicesProofs`, for any number of requests and invoices, at any amounts
  * `IssuedBillsSound`: `SoundBillsIssued` is about the row of an invoice, its reason
    is in the ledger.  An issued invoice has its posting (`BookInv`), the posting has
    the entries of an issue and they were found valid (`EntriesInv`), and entries that
    balance are amounts that add up (`ValidBill`).  The types are `TypeCorrect`, with
    `PathInv` (which operations come to which places): a posting's entries have whole
    stored amounts whatever is billed.
  * `NobodyWaitsInACircle`, `StatusesGoOneWay`: from `LockInv`.  Its core is
    `HoldsRow`: from its check to its end a request has the row's lock, its copy of the
    row is current and the status is still one its operation may start from.
    `PostedInv` ties the tip's lock to an uncommitted posting.
  * `TrailsUnbroken`: `TrailInv` adds what a request is about to log
    (`ChangedInv`): its row starts from the row as it is and is newer than the
    trail so far.
  * `BooksMatchRows`, `PaymentsInLog`: `BookInv`.  A commit moves the status along an edge
    of the life cycle and adds the posting of that edge (`MatchStep`); all other invoices
    keep theirs (`MatchKept`).
  * `PdfIsOfIssue`: `FilesInv`: between drawing and commit, the file is that of the issue
    under way or of a handler that was cut.
  * `LifecycleImplemented`: `EntriesInv` says which entries each posting has, `IssueShare`,
    `ReceiptShare` and `ReversalShare` what it adds to each account.  With
    `BooksMatchRows` an invoice's balances are sums over none, one or two postings
    (`SharesAddUp`), which are those of its status.  So each commit that
    moves a status moves the balances with it.
* `RoleGrantsProofs`
  * `BeforeStatesFound`: `BeforeStatesReal`, with the types.  `BeforeInv` follows the
    state from the row to the log: a row is in a state that the log explains
    (`Committed`), so is what a grant has read (`ReadInv`), and the ids in the log only
    grow, so that what explained it comes before the grant's own audit row.
  * `RolesComeFromOwners`: `GrantorsWereOwners` is about committed rows and says
    nothing of what is about to be committed.  `CallersInv` says that whoever has
    a request under way was an owner when it began, `WritesInv` that an
    uncommitted row names such a grantor; rows are never deleted (`RowsStay`), so
    both outlast a revocation.
  * `LoggedGrantsHold`, `ChangesLogged`: `GrantLogInv`.  What a request logs agrees
    with what it wrote, and if it wrote anything, its audit row is newer than every
    grant of that role in the log (`Pending`).  A revocation that matched nothing
    may have an older id than a grant that is committed before it: `HeldOrRevoked`
    says why that does not matter.
* `RecordsProofs`
  * `ConstraintsKept`: the constraints hold after any interleaving.  `HolderInv` is
    needed: the request that holds the row's lock has checked the constraints on
    the row as it still is, so that its commit stores an allowed row.
    `PresenceInv` is needed for the creation: there is a row for whoever is past
    the 404, and none while the creation is under way.
  * `UpdatesImplemented`: a commit is the creation, one PATCH or, for an empty
    body, nothing; every other step is a stutter.
  * `LogEndsAtRow`: `LogInv`: a request that changes the row has read it as its
    commit leaves it, and its audit row is newer than those of all changes before.
  * `ChangesHaveAuthors`: `TraceInv` follows a difference from the moment somebody else
    makes it: it is in the log as soon as it is in the row, so whoever reads the row
    before and after their own update finds an author for what they did not do.
* `JwksCacheProofs`, for any histories of the provider's keys, any TTL and refreshes of
  any length (`MaxRefresh` keeps the runs small; from `MaxNow` on it excludes nothing)
  * `KeysAreAtHand`: types, and no look-up in a cache without keys.
  * `RecentKeys`: `AcceptedKeysRecent` is about the moment of the answer, the reason
    lies earlier: `AgeInv` bounds how much older than their stamp the keys in the
    cache are, for every thread between its store and its stamp, and `TimingInv` how
    old an answer in hand can be.  Both bounds grow with `longest` (`TickTime`).
  * `SteadyKeys`: `SteadyKeysAccepted` needs `OrderInv`: what is stored after a
    request began is never older than the oldest answer in hand at that time.
* `FieldKeysProofs`, for any requests and any number of restarts
  * `TypeCorrect`: types.
  * `SettledKeysLast`: `SettledClientsReadable` follows from `SettledInv`: once a
    request came to a settled provider, nobody is making another one and everyone
    gets that one, until the process ends; and from `RowsInv`, which ties rows and
    answers to the keys.
  * `KeysDieWithProcess`: `ContactsDieWithProcess`, from `KeyInv`: a key was made in
    the life of the process in which it is used.

Model-checked only: liveness (`PostingsEnd`, `CreationsEnd`, `RequestsEnd`,
`PatchesEnd`, `RequestsAnswered`), since it needs fairness and ENABLED, which are
beyond the prover; and the five violations, which are single counterexamples.

## 5. What is left out

* Reads that change nothing (GET endpoints, `/me`, `/healthz`), except where a
  write depends on them, and `get_client`, whose answer depends on the key.
* What PyJWT decides about a token (signature, audience, issuer, expiry), and
  `StaticJWKSClient`, a double for tests.
* Retries by callers that nothing recognises: an expense sent twice is two
  expenses.  The models include it and no property speaks of it.
* The append-only and truncate triggers and the grants (0001, 0006, 0008, 0009):
  they stop statements that no endpoint issues.
* Other isolation levels, and failures of PostgreSQL itself (a committed
  transaction stays committed).
* The look of PDFs, the wording of errors, validation by pydantic beyond the
  bounds of amounts.
* Overflow of `numeric(18, ...)` and `smallint` years: the request fails and is
  rolled back like any other that the database refuses.

## 6. Plan

1. Done: every component with state, the abstract specifications of the ledger, the
   numbering, the life cycle and the partial updates, and a proof of every safety
   property and refinement that is checked.
2. Candidates for later: an abstract specification of role grants (who holds what, and
   the log of it) that `RoleGrants` implements; the same for the key-set cache, with
   `SteadyKeysAccepted` and `AcceptedKeysRecent` as its consequences; a proof that a
   whole posting may be one step of `Invoices` because `LedgerChain` implements
   `AtomicLedger`, which is an argument in prose so far.
