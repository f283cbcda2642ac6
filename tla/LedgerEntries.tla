---------------------------- MODULE LedgerEntries ----------------------------
(***************************************************************************)
(* The entries of a double-entry posting (app/ledger.py): what a caller    *)
(* hands in, what the table ledger_entries stores, and the checks made on  *)
(* them in Python and in the database.                                     *)
(***************************************************************************)
EXTENDS Integers, Sequences, FiniteSets, FiniteSetsExt

CONSTANTS
    AccountCodes,     \* account codes a caller may name
    ChartOfAccounts,  \* those that chart_of_accounts holds
    CurrencyCodes,    \* currency codes a caller may name
    Currencies        \* those that currencies holds

Directions == {"debit", "credit"}

(***************************************************************************)
(* LedgerEntryInput.  Amounts are counted in tenths of the last decimal of *)
(* numeric(18, 4): a Decimal may be finer than the column that stores it.  *)
(***************************************************************************)
Entry == [account : AccountCodes, direction : Directions,
          amount : Int, currency : CurrencyCodes]

\* An entry as the table holds it: CHECK (amount > 0).
StoredEntry == [account : AccountCodes, direction : Directions,
                amount : Nat \ {0}, currency : CurrencyCodes]

\* The column keeps four decimals and rounds half away from zero; every
\* amount that reaches it has been found positive.
Round(amount) == (amount + 5) \div 10

Stored(entry) == [entry EXCEPT !.amount = Round(@)]

\* Mutant: the reversal copies the directions.
NotFlipped(entry) == [entry EXCEPT !.amount = 10 * @]

\* What reverse_ledger_transaction posts for a stored entry.
Flip(entry) ==
    [account |-> entry.account,
     direction |-> IF entry.direction = "debit" THEN "credit" ELSE "debit",
     amount |-> 10 * entry.amount,
     currency |-> entry.currency]

Signed(entry) ==
    IF entry.direction = "debit" THEN entry.amount ELSE -entry.amount

\* Debits minus credits in one currency, over records that have an entry.
Imbalance(lines, currency) ==
    MapThenSumSet(LAMBDA x : Signed(x.entry),
                  {x \in lines : x.entry.currency = currency})

LinesOf(entries) ==
    {[line |-> i, entry |-> entries[i]] : i \in DOMAIN entries}

\* _validate_entries.
ValidEntries(entries) ==
    /\ \A i \in DOMAIN entries : entries[i].amount > 0
    /\ \A i \in DOMAIN entries :
          Imbalance(LinesOf(entries), entries[i].currency) = 0

\* Both lookups post_ledger_transaction makes before its first INSERT.
Resolvable(entries) ==
    \A i \in DOMAIN entries : /\ entries[i].account \in ChartOfAccounts
                              /\ entries[i].currency \in Currencies
=============================================================================
