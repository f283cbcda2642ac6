----------------------------- MODULE LedgerChain -----------------------------
(***************************************************************************)
(* The double-entry ledger: concurrent requests post transactions through  *)
(* app/ledger.py into the append-only, hash-chained table ledger_entries   *)
(* (migrations 0006 and 0011).                                             *)
(*                                                                         *)
(* Every request runs in one database transaction of its own (app/db.py),  *)
(* at PostgreSQL's READ COMMITTED level.  Inserting an entry is two steps: *)
(* the identity column chain_seq takes the next value of its sequence      *)
(* while the row is being formed, and only then does the BEFORE INSERT     *)
(* trigger wait for the row of ledger_chain_tip.  The lock is kept until   *)
(* the transaction ends.  Rows become visible to others at the commit.     *)
(*                                                                         *)
(* Abstractions.  A transaction is named by the request that posts it.     *)
(* SHA-256 is a constructor: a hash is the sequence of the row contents    *)
(* it commits to, so two hashes are equal exactly if they were computed    *)
(* from the same history.  The row content is the entry with its           *)
(* transaction and line; the line stands for the row's unique id.          *)
(***************************************************************************)
EXTENDS LedgerEntries, SequencesExt

CONSTANTS
    Requests,  \* requests that post; each one posts one transaction
    Nobody,    \* no request: the tip is unlocked, nothing is reversed
    Postings   \* the lists of entries callers hand to the ledger

ASSUME NobodyAssumption == Nobody \notin Requests
ASSUME PostingsAssumption == Postings \subseteq Seq(Entry)

VARIABLES
    pc,        \* where each request is
    plan,      \* the entries it is posting
    reverses,  \* the transaction it reverses, or Nobody
    pending,   \* the rows it has inserted and not committed
    drawn,     \* the chain_seq taken for the row it is inserting
    ledger,    \* the committed rows of ledger_entries
    tip,       \* ledger_chain_tip.last_hash, as committed
    tipLock,   \* the request whose transaction holds the tip's row lock
    chainSeq   \* the last value of the sequence behind chain_seq

vars == <<pc, plan, reverses, pending, drawn, ledger, tip, tipLock, chainSeq>>

-----------------------------------------------------------------------------
(* Rows and the hash chain *)

Content == [txn : Requests, line : Nat, entry : StoredEntry]
Hash == Seq(Content)
Genesis == <<>>
Digest(previous, content) == Append(previous, content)

Row == [txn : Requests, line : Nat, entry : StoredEntry, chain_seq : Nat,
        previous_hash : Hash, row_hash : Hash]

\* What the hash commits to: not the columns of the chain itself.
ContentOf(row) == [txn |-> row.txn, line |-> row.line, entry |-> row.entry]

RowsOf(txn) == {row \in ledger : row.txn = txn}

-----------------------------------------------------------------------------
Init ==
    /\ pc = [r \in Requests |-> "idle"]
    /\ plan = [r \in Requests |-> <<>>]
    /\ reverses = [r \in Requests |-> Nobody]
    /\ pending = [r \in Requests |-> <<>>]
    /\ drawn = [r \in Requests |-> 0]
    /\ ledger = {}
    /\ tip = Genesis
    /\ tipLock = Nobody
    /\ chainSeq = 0

(***************************************************************************)
(* post_ledger_transaction up to the header: everything that can be wrong  *)
(* with the entries themselves is found here and becomes a 400.            *)
(***************************************************************************)
Post(r, entries, original) ==
    /\ pc[r] = "idle"
    /\ plan' = [plan EXCEPT ![r] = entries]
    /\ reverses' = [reverses EXCEPT ![r] = original]
    /\ pc' = [pc EXCEPT ![r] = IF ValidEntries(entries) /\ Resolvable(entries)
                               THEN "open" ELSE "rejected"]
    /\ UNCHANGED <<pending, drawn, ledger, tip, tipLock, chainSeq>>

PostNew(r) == \E entries \in Postings : Post(r, entries, Nobody)

\* Mutant: the query for the original's rows has lost its WHERE.
ReverseAll(r) ==
    \E rows \in SetToSeqs(ledger) :
        /\ ledger # {}
        /\ Post(r, [i \in DOMAIN rows |-> Flip(rows[i].entry)], rows[1].txn)

\* The original's rows are read without an ORDER BY: in any order.  A
\* committed transaction that find_ledger_transaction_id returns has rows.
PostReversal(r) ==
    \E original \in Requests :
        /\ RowsOf(original) # {}
        /\ \E rows \in SetToSeqs(RowsOf(original)) :
              Post(r, [i \in DOMAIN rows |-> Flip(rows[i].entry)], original)

\* The INSERT evaluates the identity column's default before any trigger;
\* a sequence takes part in no transaction.
DrawSeq(r) ==
    /\ pc[r] = "open"
    /\ Len(pending[r]) < Len(plan[r])
    /\ chainSeq' = chainSeq + 1
    /\ drawn' = [drawn EXCEPT ![r] = chainSeq']
    /\ pc' = [pc EXCEPT ![r] = "insert"]
    /\ UNCHANGED <<plan, reverses, pending, ledger, tip, tipLock>>

\* Mutants: the trigger reads the tip without FOR UPDATE; it does not see
\* what its own transaction has written.
TipNotLocked(r) == TRUE

StaleTip(r) == tip

\* SELECT last_hash ... FOR UPDATE: who may go on, and what it reads.
TipAvailable(r) == tipLock \in {Nobody, r}

TipSeenBy(r) == IF pending[r] = <<>> THEN tip ELSE Last(pending[r]).row_hash

\* The row of the next line, as chain_ledger_entry_hash leaves it.
NextRow(r) ==
    LET line == Len(pending[r]) + 1
        content == [txn |-> r, line |-> line, entry |-> Stored(plan[r][line])]
    IN  [txn |-> r, line |-> line, entry |-> content.entry,
         chain_seq |-> drawn[r],
         previous_hash |-> TipSeenBy(r),
         row_hash |-> Digest(TipSeenBy(r), content)]

\* Mutant: the table has no CHECK on the amount.
InsertUnchecked(r) ==
    /\ pc[r] = "insert"
    /\ TipAvailable(r)
    /\ tipLock' = r
    /\ pending' = [pending EXCEPT ![r] = Append(@, NextRow(r))]
    /\ pc' = [pc EXCEPT ![r] = "open"]
    /\ UNCHANGED <<plan, reverses, drawn, ledger, tip, chainSeq>>

\* The CHECK applies to the rounded amount, after the trigger ran.
InsertEntry(r) ==
    /\ pc[r] = "insert"
    /\ TipAvailable(r)
    /\ NextRow(r).entry.amount > 0
    /\ tipLock' = r
    /\ pending' = [pending EXCEPT ![r] = Append(@, NextRow(r))]
    /\ pc' = [pc EXCEPT ![r] = "open"]
    /\ UNCHANGED <<plan, reverses, drawn, ledger, tip, chainSeq>>

\* Mutant: the deferred trigger is missing.
NoDeferredCheck(r) == TRUE

\* check_ledger_transaction_balance, deferred to the commit: once for each
\* inserted row, in that row's currency.
DeferredCheck(r) ==
    \A row \in ToSet(pending[r]) :
        Imbalance(ToSet(pending[r]), row.entry.currency) = 0

\* Mutants: get_db commits in its finally clause, whatever happened; it
\* leaves the connection open after an error, and with it the lock.
CommitAnyway(r, outcome) ==
    /\ IF DeferredCheck(r)
       THEN ledger' = ledger \union ToSet(pending[r]) /\ tip' = TipSeenBy(r)
       ELSE UNCHANGED <<ledger, tip>>
    /\ pending' = [pending EXCEPT ![r] = <<>>]
    /\ tipLock' = IF tipLock = r THEN Nobody ELSE tipLock
    /\ pc' = [pc EXCEPT ![r] = outcome]
    /\ UNCHANGED <<plan, reverses, drawn, chainSeq>>

LockLeaked(r, outcome) ==
    /\ pending' = [pending EXCEPT ![r] = <<>>]
    /\ pc' = [pc EXCEPT ![r] = outcome]
    /\ UNCHANGED <<plan, reverses, drawn, ledger, tip, tipLock, chainSeq>>

\* get_db's rollback and close: the rows and the tip's new hash are gone
\* and the lock is free; the values drawn from the sequence stay drawn.
Rollback(r, outcome) ==
    /\ pending' = [pending EXCEPT ![r] = <<>>]
    /\ tipLock' = IF tipLock = r THEN Nobody ELSE tipLock
    /\ pc' = [pc EXCEPT ![r] = outcome]
    /\ UNCHANGED <<plan, reverses, drawn, ledger, tip, chainSeq>>

InsertRefused(r) ==
    /\ pc[r] = "insert"
    /\ TipAvailable(r)
    /\ NextRow(r).entry.amount <= 0
    /\ Rollback(r, "refused")

AllInserted(r) == pc[r] = "open" /\ Len(pending[r]) = Len(plan[r])

Commit(r) ==
    /\ AllInserted(r)
    /\ DeferredCheck(r)
    /\ ledger' = ledger \union ToSet(pending[r])
    /\ tip' = TipSeenBy(r)
    /\ tipLock' = IF tipLock = r THEN Nobody ELSE tipLock
    /\ pending' = [pending EXCEPT ![r] = <<>>]
    /\ pc' = [pc EXCEPT ![r] = "committed"]
    /\ UNCHANGED <<plan, reverses, drawn, chainSeq>>

CommitRefused(r) ==
    /\ AllInserted(r)
    /\ ~DeferredCheck(r)
    /\ Rollback(r, "refused")

\* The request ends before its commit: its handler raises after the posting,
\* or the process or the connection dies and the server rolls back.
Abort(r) ==
    /\ pc[r] \in {"open", "insert"}
    /\ Rollback(r, "lost")

Step(r) == \/ DrawSeq(r)
           \/ InsertEntry(r)
           \/ InsertRefused(r)
           \/ Commit(r)
           \/ CommitRefused(r)

Ended == {"rejected", "committed", "refused", "lost"}

Terminating ==
    /\ \A r \in Requests : pc[r] \in Ended
    /\ UNCHANGED vars

Next == \/ \E r \in Requests : PostNew(r) \/ PostReversal(r) \/ Step(r) \/ Abort(r)
        \/ Terminating

Spec == Init /\ [][Next]_vars

\* A handler that has begun to post goes on: nothing but the tip's lock can
\* hold it, and no step of a request waits for the client.
FairSpec == Spec /\ \A r \in Requests : WF_vars(Step(r))

-----------------------------------------------------------------------------
(* Properties *)

TypeOK ==
    /\ pc \in [Requests -> {"idle", "open", "insert"} \union Ended]
    /\ plan \in [Requests -> Seq(Entry)]
    /\ reverses \in [Requests -> Requests \union {Nobody}]
    /\ pending \in [Requests -> Seq(Row)]
    /\ drawn \in [Requests -> Nat]
    /\ ledger \subseteq Row
    /\ IsFiniteSet(ledger)
    /\ tip \in Hash
    /\ tipLock \in Requests \union {Nobody}
    /\ chainSeq \in Nat

(***************************************************************************)
(* The committed rows form one chain from the genesis hash to the tip:     *)
(* every row commits to its content and to the hash before it, that hash   *)
(* is the genesis or another row's, no hash is continued twice, and the    *)
(* tip is a row's hash unless the ledger is empty (0011: "forking the      *)
(* chain at the very point tamper-evidence matters most").                 *)
(***************************************************************************)
LinksHold ==
    \A row \in ledger :
        row.row_hash = Digest(row.previous_hash, ContentOf(row))

EveryRowHasAPredecessor ==
    \A row \in ledger :
        \/ row.previous_hash = Genesis
        \/ \E before \in ledger : before.row_hash = row.previous_hash

NoFork ==
    \A x, y \in ledger : x.previous_hash = y.previous_hash => x = y

TipIsAnEnd ==
    /\ \A row \in ledger : row.previous_hash # tip
    /\ IF ledger = {} THEN tip = Genesis
                      ELSE \E row \in ledger : row.row_hash = tip

ChainUnbroken ==
    /\ LinksHold
    /\ EveryRowHasAPredecessor
    /\ NoFork
    /\ TipIsAnEnd

\* The committed tip only ever moves to a hash that commits to everything it
\* committed to before: no posting drops another one out of the history.
TipOnlyExtends == [][IsPrefix(tip, tip')]_vars

\* Every committed transaction balances in every currency it touches, as
\* stored: after the column's rounding.
PostingsBalanced ==
    \A row \in ledger : Imbalance(RowsOf(row.txn), row.entry.currency) = 0

\* A posting is in the ledger with all of its lines, each as it was handed
\* in up to the column's precision, or not at all.
AllOrNothing ==
    \A r \in Requests :
        {<<row.line, row.entry>> : row \in RowsOf(r)} =
            IF pc[r] = "committed"
            THEN {<<i, Stored(plan[r][i])>> : i \in DOMAIN plan[r]}
            ELSE {}

\* A reversal takes every account back to where it was before the original,
\* in each currency.
ReversalNetsToZero ==
    \A r \in Requests :
        (pc[r] = "committed" /\ reverses[r] # Nobody) =>
            \A account \in AccountCodes, currency \in CurrencyCodes :
                Imbalance({row \in RowsOf(r) \union RowsOf(reverses[r]) :
                              row.entry.account = account}, currency) = 0

\* No posting waits for the tip for ever: each one that passes validation
\* ends, whatever the others do.
PostingsEnd ==
    \A r \in Requests : pc[r] = "open" ~> pc[r] \in Ended

\* What 0011 says of chain_seq: "a strict insertion order ... for readers
\* reconstructing/verifying the chain later".
ChainSeqIsChainOrder ==
    \A x, y \in ledger :
        x.chain_seq < y.chain_seq <=> Len(x.row_hash) < Len(y.row_hash)

\* The entries of a committed transaction, in the order they were posted.
Book(r) ==
    [i \in 1..Cardinality(RowsOf(r)) |-> (CHOOSE row \in RowsOf(r) : row.line = i).entry]

Ledger == INSTANCE AtomicLedger WITH books <- [r \in Requests |-> Book(r)]

\* The statements of a posting, their locks and rollbacks amount to the
\* atomic ledger of AtomicLedger: a step posts or reverses one transaction
\* as a whole, or nothing.  Invoices relies on it.
ImplementsAtomicLedger == Ledger!Spec
=============================================================================
