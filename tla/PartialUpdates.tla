---------------------------- MODULE PartialUpdates ----------------------------
(***************************************************************************)
(* What POST and PATCH promise (app/crud_helpers.py): a row appears once,  *)
(* whole.  After that, at one moment, the columns that a request names get *)
(* the values it gives and no other column changes; or nothing happens, if *)
(* the row could not be valid then.                                        *)
(***************************************************************************)
EXTENDS Integers

CONSTANTS
    Drafts,    \* the rows that may be asked for
    Payloads,  \* functions from some of the columns to values
    Rows,      \* the rows that the table's constraints allow
    NoRow      \* what there is before

VARIABLE row

\* The row with the payload's values in the payload's columns.
Merged(old, payload) ==
    [c \in DOMAIN old |-> IF c \in DOMAIN payload THEN payload[c] ELSE old[c]]

Init == row = NoRow

Create == row = NoRow /\ row' \in Drafts \intersect Rows

Patch(payload) ==
    /\ row # NoRow
    /\ Merged(row, payload) \in Rows
    /\ row' = Merged(row, payload)

Next == Create \/ \E payload \in Payloads : Patch(payload)

Spec == Init /\ [][Next]_row
=============================================================================
