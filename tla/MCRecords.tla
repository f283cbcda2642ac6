------------------------------ MODULE MCRecords ------------------------------
(* Small instances of Records. *)
EXTENDS Records

CONSTANTS r0, r1, r2, r3

MCRequests == {r0, r1, r2, r3}

\* Dates from 1 to 3, and the other way round.
First == [c \in Columns |-> IF c = "end_date" THEN 3 ELSE 1]
MCDrafts == {First, [First EXCEPT !["start_date"] = 3, !["end_date"] = 1]}

\* Columns of their own, a title set to null, and dates that are in order
\* with those of the first row but not with each other.
MCPayloads ==
    {[c \in {} |-> 0],
     [c \in {"title"} |-> 2],
     [c \in {"title"} |-> 0],
     [c \in {"title", "status"} |-> 3],
     [c \in {"start_date"} |-> 3],
     [c \in {"end_date"} |-> 2],
     [c \in {"end_date"} |-> 0]}
=============================================================================
