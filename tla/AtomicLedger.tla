----------------------------- MODULE AtomicLedger -----------------------------
(***************************************************************************)
(* What app/ledger.py promises its callers: "one transaction header +      *)
(* several entries" are posted as a unit or not at all, the unit balances  *)
(* as stored, a reversal flips every entry of one earlier transaction, and *)
(* what is posted stays as it is.                                          *)
(***************************************************************************)
EXTENDS LedgerEntries, SequencesExt

CONSTANTS
    Requests,  \* requests; each posts at most one transaction
    Postings   \* the lists of entries callers hand to the ledger

VARIABLE books  \* the stored entries of each request's transaction

Init == books = [r \in Requests |-> <<>>]

Enter(r, entries) ==
    /\ books[r] = <<>>
    /\ books' = [books EXCEPT ![r] = [i \in DOMAIN entries |-> Stored(entries[i])]]

PostNew(r) ==
    \E entries \in Postings :
        /\ ValidEntries(entries) /\ Resolvable(entries)
        /\ Enter(r, entries)
        /\ \A currency \in Currencies : Imbalance(LinesOf(books'[r]), currency) = 0

PostReversal(r) ==
    \E original \in Requests :
        /\ books[original] # <<>>
        /\ \E order \in SetToSeqs(DOMAIN books[original]) :
              Enter(r, [i \in DOMAIN order |-> Flip(books[original][order[i]])])

Next == \E r \in Requests : PostNew(r) \/ PostReversal(r)

Spec == Init /\ [][Next]_books
=============================================================================
