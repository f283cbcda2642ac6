---------------------------- MODULE MCLedgerChain ----------------------------
(* Small instances of LedgerChain. *)
EXTENDS LedgerChain

CONSTANTS r1, r2, r3

MCRequests == {r1, r2, r3}
TwoRequests == {r1, r2}

MCAccountCodes == {"1000", "4000", "9999"}
MCChart == {"1000", "4000"}
MCCurrencyCodes == {"FJD", "AUD", "XXX"}
MCCurrencies == {"FJD", "AUD"}

E(account, direction, amount, currency) ==
    [account |-> account, direction |-> direction,
     amount |-> amount, currency |-> currency]

Pair(amount) == <<E("1000", "debit", amount, "FJD"),
                  E("4000", "credit", amount, "FJD")>>

\* One posting each is stored, rounded away, thrown out of balance by the
\* rounding (1 + 1 against 3), and four are rejected: no such account, no
\* such currency, balanced across currencies but in none of them, and the
\* zero line of an invoice that bills nothing but tax.
MCPostings ==
    {Pair(10), Pair(4),
     <<E("1000", "debit", 28, "FJD"),
       E("4000", "credit", 14, "FJD"), E("4000", "credit", 14, "FJD")>>,
     <<E("1000", "debit", 10, "FJD"), E("9999", "credit", 10, "FJD")>>,
     <<E("1000", "debit", 10, "XXX"), E("4000", "credit", 10, "XXX")>>,
     <<E("1000", "debit", 10, "FJD"), E("4000", "credit", 10, "AUD")>>,
     <<E("1000", "debit", 10, "FJD"),
       E("4000", "credit", 0, "FJD"), E("4000", "credit", 10, "FJD")>>}

PlainPostings == {Pair(10)}

=============================================================================
