------------------------------ MODULE RowCursor ------------------------------
(***************************************************************************)
(* What a mariadb::result_set promises (result_set.hpp:143-157): a cursor  *)
(* over the rows of one query.  next() shows the row after the one it      *)
(* showed, set_row_index() the row of that index, and both say whether     *)
(* there is one; the row shown stays until the next of these calls.  Only  *)
(* the loss of the link may end the rows early.                            *)
(***************************************************************************)
EXTENDS Naturals, Sequences

CONSTANTS
    Results,  \* the results queries may have: sequences of rows
    NoResult, \* there is no result set
    NoRow     \* the result set shows no row

VARIABLES
    rows,     \* the result, or NoResult
    at,       \* the index of the row shown last, 0 before the first
    shown,    \* the row shown, or NoRow
    asked,    \* the row asked for last: Following, or an index from 1
    lost      \* the link to the rows was lost

cursor == <<rows, at, shown, asked, lost>>

Following == 0

Init ==
    /\ rows = NoResult
    /\ at = 0
    /\ shown = NoRow
    /\ asked = Following
    /\ lost = FALSE

Open ==
    /\ rows = NoResult
    /\ rows' \in Results
    /\ at' = 0
    /\ shown' = NoRow
    /\ asked' = Following
    /\ lost' \in BOOLEAN

Show(i) ==
    /\ rows # NoResult
    /\ at' = i
    /\ shown' = IF i \in DOMAIN rows THEN rows[i] ELSE NoRow
    /\ UNCHANGED <<rows, lost>>

NextRow ==
    /\ asked' = Following
    /\ Show(IF at <= Len(rows) THEN at + 1 ELSE at)

SetRowIndex ==
    /\ rows # NoResult
    /\ \E i \in 1 .. Len(rows) + 1 : asked' = i /\ Show(i)

Lose ==
    /\ rows # NoResult
    /\ lost' = TRUE
    /\ UNCHANGED <<rows, at, shown, asked>>

EndEarly ==
    /\ lost
    /\ asked' = Following
    /\ Show(Len(rows) + 1)

\* The user closes the connection under the rows: there is nothing to rely on.
Abandon ==
    /\ rows # NoResult
    /\ lost' = TRUE
    /\ shown' = NoRow
    /\ UNCHANGED <<rows, at, asked>>

Close ==
    /\ rows' = NoResult
    /\ at' = 0
    /\ shown' = NoRow
    /\ asked' = Following
    /\ lost' = FALSE

Next ==
    \/ Open
    \/ NextRow
    \/ SetRowIndex
    \/ Lose
    \/ EndEarly
    \/ Abandon
    \/ Close

Spec == Init /\ [][Next]_cursor
=============================================================================
