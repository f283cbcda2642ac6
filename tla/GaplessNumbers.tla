---------------------------- MODULE GaplessNumbers ----------------------------
(***************************************************************************)
(* What app/invoicing.py promises: "sequential, gapless invoice            *)
(* numbering", per calendar year.  A year's numbers are handed out one at  *)
(* a time, each the successor of the one before, and never taken back.     *)
(***************************************************************************)
EXTENDS Integers

CONSTANT Years

VARIABLES
    last,   \* the number last handed out in each year
    taken   \* the <<year, number>> pairs that invoices carry

vars == <<last, taken>>

Init == last = [y \in Years |-> 0] /\ taken = {}

Take(y) ==
    /\ last' = [last EXCEPT ![y] = @ + 1]
    /\ taken' = taken \union {<<y, last[y] + 1>>}

Next == \E y \in Years : Take(y)

Spec == Init /\ [][Next]_vars
=============================================================================
