--------------------------- MODULE InvoiceLifecycle ---------------------------
(***************************************************************************)
(* What issuing, settling and voiding promise: an invoice's status and its *)
(* part of the books change together and at once.  An issued invoice is    *)
(* owed in full, a paid one has been turned into cash in full, and a void  *)
(* one leaves nothing on any account.                                      *)
(***************************************************************************)
EXTENDS Integers

CONSTANT Invoices

VARIABLES
    billed,  \* the amounts of each invoice
    status,  \* draft, issued, paid or void
    books    \* what the ledger holds for each invoice

vars == <<billed, status, books>>

Nothing == [receivable |-> 0, revenue |-> 0, tax |-> 0, cash |-> 0]

Earned(i) == [Nothing EXCEPT !.revenue = billed[i].subtotal, !.tax = billed[i].tax]
Owed(i) == [Earned(i) EXCEPT !.receivable = billed[i].total]
Paid(i) == [Earned(i) EXCEPT !.cash = billed[i].total]

Init ==
    /\ status = [i \in Invoices |-> "draft"]
    /\ books = [i \in Invoices |-> Nothing]

Move(i, from, to, entry) ==
    /\ status[i] \in from
    /\ status' = [status EXCEPT ![i] = to]
    /\ books' = [books EXCEPT ![i] = entry]
    /\ UNCHANGED billed

Issue(i) == Move(i, {"draft"}, "issued", Owed(i))
Settle(i) == Move(i, {"issued"}, "paid", Paid(i))
Void(i) == Move(i, {"draft", "issued"}, "void", Nothing)

Next == \E i \in Invoices : Issue(i) \/ Settle(i) \/ Void(i)

Spec == Init /\ [][Next]_vars
=============================================================================
