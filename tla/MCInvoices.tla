------------------------------ MODULE MCInvoices ------------------------------
(* Small instances of Invoices. *)
EXTENDS Invoices, TLC

CONSTANTS r1, r2, r3, i1, i2

MCRequests == {r1, r2, r3}
TwoRequests == {r1, r2}
OneInvoice == {i1}
TwoInvoices == {i1, i2}
BothSymmetry == Permutations(Requests) \union Permutations(Invoices)

MCChart == {"1000", "1010", "2000", "2010", "4000", "5000", "5010"}
MCCurrencies == {"FJD"}

Stores(subtotal, tax, total) == [subtotal |-> subtotal, tax |-> tax, total |-> total]

\* With tax, one that rounding has put out of balance (0.005 + 0.005 against
\* 0.01), and one that bills only tax: neither can ever be issued.
OddAmounts == {Stores(10, 1, 11), Stores(1, 1, 1), Stores(0, 1, 1)}

OneAmount == {Stores(10, 1, 11)}

\* The whole amount, and another one.
MCPayments == {11, 5}
WholePayment == {11}
=============================================================================
