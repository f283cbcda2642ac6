-------------------------- MODULE MCInvoiceNumbers --------------------------
(* Small instances of InvoiceNumbers. *)
EXTENDS InvoiceNumbers

CONSTANTS r1, r2, r3

MCRequests == {r1, r2, r3}
TwoRequests == {r1, r2}

\* Two contracts, the second one with another client; one milestone each.
MCClientOf == [c \in {"k1", "k2"} |-> IF c = "k1" THEN "ann" ELSE "ben"]
MCContractOf == [m \in {"m1", "m2"} |-> IF m = "m1" THEN "k1" ELSE "k2"]
MCCurrencies == {"FJD"}

Bill(contract, client, milestone, currency, subtotal, tax) ==
    [contract |-> contract, client |-> client, milestone |-> milestone,
     currency |-> currency, subtotal |-> subtotal, tax |-> tax]

\* Fit to be billed: whole cents, and half cents (10.005 and 1.005 are both
\* rounded up, against a total of 11.01).
Good == Bill("k1", "ann", "m1", "FJD", 100, 10)
HalfCents == Bill("k1", "ann", NoMilestone, "FJD", 10005, 1005)

\* No such contract, the client of another one, no such milestone, the
\* milestone of another contract: all rejected before the numbering.  An
\* unknown currency is found out by the INSERT.
MCPayloads ==
    {Good, HalfCents,
     Bill("k3", "ann", NoMilestone, "FJD", 100, 10),
     Bill("k1", "ben", NoMilestone, "FJD", 100, 10),
     Bill("k2", "ben", "m3", "FJD", 100, 10),
     Bill("k2", "ben", "m1", "FJD", 100, 10),
     Bill("k2", "ben", NoMilestone, "XXX", 100, 10)}
=============================================================================
