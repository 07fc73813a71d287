----------------------------- MODULE QueryResult -----------------------------
(***************************************************************************)
(* The result sets of connection::query() and the connection they come     *)
(* from.  Models the plain queries of src/src/result_set.cpp (those of     *)
(* prepared statements are in ResultSet) with query(), execute() and       *)
(* disconnect() of src/src/connection.cpp as one step each (their nested   *)
(* calls are in Connection), and the data object get_data() returns.       *)
(*                                                                         *)
(* A stored result has been copied to the client.  One that is not stays   *)
(* on the link: each row lies in the receive buffer of the MYSQL handle    *)
(* until the next is read.                                                 *)
(***************************************************************************)
EXTENDS DataStream

CONSTANTS
    Null,        \* the SQL NULL
    Results,     \* the results of queries: sequences of texts and NULLs
    NoResult,    \* there is no result set (for RowCursor)
    NoRow,       \* the result set shows no row
    MaxSets,     \* bounds: result sets at a time,
    MaxHandles,  \* MYSQL objects made by mysql_init(),
    MaxLosses    \* and lost links

ASSUME QueryResultAssumption ==
    /\ <<>> \in Results /\ NoResult \notin Results
    /\ \A r \in Results :
         /\ r \in Seq({r[i] : i \in DOMAIN r} \ {NoRow})
         /\ \A i \in DOMAIN r : r[i] = Null \/ Len(r[i]) \in 0 .. Width - 1
    /\ {MaxSets, MaxHandles, MaxLosses} \subseteq Nat

Sets == 1 .. MaxSets
Nobody == 0

VARIABLES
    store,   \* account::store_result(), never changed
    owned,   \* the user has not destroyed the connection
    mysql,   \* m_mysql: the number of the handle, 0 when null
    handles, \* how many handles there have been
    link,    \* is it alive, whose rows are on it, are there results behind them
    holds,   \* the row in the receive buffer of the handle
    sets,    \* the result_set objects
    losses,
    crashed  \* a call used a null or freed pointer

resultVars == <<store, owned, mysql, handles, link, holds, sets, losses, crashed>>
vars == <<resultVars, dataVars>>

Quiet == [alive |-> TRUE, reader |-> Nobody, more |-> FALSE]
Down == [Quiet EXCEPT !.alive = FALSE]
Nothing == [set |-> Nobody, row |-> 0]

\* The constructor of result_set: has is m_result_set # nullptr, handle the MYSQL
\* of rows that are still on the link; asked (the row the user asked for
\* last, 0 for the next), lost and closed are history.
NewSet(result, has, handle, lost) ==
    [alive |-> TRUE, rows |-> result, has |-> has, at |-> 0, fetched |-> FALSE,
     handle |-> handle, unbuffered |-> handle # 0, asked |-> 0,
     lost |-> lost, closed |-> FALSE]

Destroyed == [NewSet(<<>>, FALSE, 0, FALSE) EXCEPT !.alive = FALSE]

-----------------------------------------------------------------------------
(* The connection                                                           *)

\* Mutant: every failing mysql_ping() is taken for a lost link.
RefusedNot == FALSE

\* With rows or results unread the client library refuses any other command:
\* mysql_ping() fails, and mysql_real_connect() does not touch a linked handle.
Refused == link.reader # Nobody \/ link.more

\* connect() and then a command; a refused one throws and changes nothing.
Command ==
    /\ owned
    /\ ~Refused
    /\ mysql = 0 => handles < MaxHandles
    /\ mysql' = IF mysql = 0 THEN handles + 1 ELSE mysql
    /\ handles' = IF mysql = 0 THEN handles + 1 ELSE handles
    /\ holds' = Nothing
    /\ UNCHANGED <<store, owned, crashed, dataVars>>

\* execute() reads all there is.
Execute ==
    /\ Command
    /\ link' = Quiet
    /\ UNCHANGED <<sets, losses>>

\* The command of a query may be several statements, of which the result_set gets
\* the first; a statement without result leaves m_result_set null.
Query(s, result) ==
    /\ Command
    /\ ~sets[s].alive
    /\ \E more \in BOOLEAN :
         \/ /\ store
            /\ sets' = [sets EXCEPT ![s] = NewSet(result, TRUE, 0, FALSE)]
            /\ link' = [Quiet EXCEPT !.more = more]
         \/ /\ ~store
            /\ sets' = [sets EXCEPT ![s] = NewSet(result, TRUE, mysql', FALSE)]
            /\ link' = [Quiet EXCEPT !.more = more, !.reader = s]
         \/ /\ result = <<>>
            /\ sets' = [sets EXCEPT ![s] = NewSet(result, FALSE, 0, FALSE)]
            /\ link' = [Quiet EXCEPT !.more = more]
    /\ UNCHANGED losses

\* The link is lost while mysql_store_result() reads: the null pointer it returns
\* is that of a statement without result, and query() does not ask why.
QueryCutOff(s, result) ==
    /\ Command
    /\ store
    /\ ~sets[s].alive
    /\ losses < MaxLosses
    /\ losses' = losses + 1
    /\ sets' = [sets EXCEPT ![s] = NewSet(result, FALSE, 0, TRUE)]
    /\ link' = Down

\* disconnect(), also by the destructor of the connection; the user closes the
\* connection under the result sets that are on the link.
Disconnect ==
    /\ owned
    /\ mysql # 0
    /\ owned' \in BOOLEAN
    /\ mysql' = 0
    /\ link' = Down
    /\ holds' = Nothing
    /\ sets' = [s \in Sets |-> IF sets[s].handle # 0
                               THEN [sets[s] EXCEPT !.closed = TRUE]
                               ELSE sets[s]]
    /\ UNCHANGED <<store, handles, losses, crashed, dataVars>>

\* The server goes away; what is unread on the link may never arrive.
Lose ==
    /\ link.alive
    /\ losses < MaxLosses
    /\ losses' = losses + 1
    /\ link' = [link EXCEPT !.alive = FALSE]
    /\ sets' = [s \in Sets |-> IF s = link.reader
                               THEN [sets[s] EXCEPT !.lost = TRUE]
                               ELSE sets[s]]
    /\ UNCHANGED <<store, owned, mysql, handles, holds, crashed, dataVars>>

-----------------------------------------------------------------------------
(* result_set                                                               *)

Crash ==
    /\ crashed' = TRUE
    /\ UNCHANGED <<store, owned, mysql, handles, link, holds, sets, losses, dataVars>>

\* A call of s returns.
Return(s) ==
    /\ sets[s].alive
    /\ UNCHANGED <<store, owned, mysql, handles, losses, crashed, dataVars>>

End(s) == Len(sets[s].rows) + 1
Following(s) == IF sets[s].at < End(s) THEN sets[s].at + 1 ELSE End(s)

\* Mutant: next() reports the end without noting that no row is there.
ArriveFetched(s, i, asked) ==
    sets' = [sets EXCEPT ![s].at = i, ![s].asked = asked, ![s].fetched = @ \/ i < End(s)]

\* m_was_fetched = m_row != nullptr.
Arrive(s, i, asked) ==
    sets' = [sets EXCEPT ![s].at = i, ![s].asked = asked, ![s].fetched = i < End(s)]

\* next() without a result, and on rows that were copied.
NextStored(s) ==
    /\ Return(s)
    /\ ~sets[s].unbuffered
    /\ Arrive(s, IF sets[s].has THEN Following(s) ELSE End(s), 0)
    /\ UNCHANGED <<link, holds>>

\* next() on the link.
NextOnLink(s) ==
    /\ Return(s)
    /\ sets[s].handle # 0 /\ sets[s].handle = mysql
    /\ Following(s) < End(s)
    /\ Arrive(s, Following(s), 0)
    /\ holds' = [set |-> s, row |-> Following(s)]
    /\ UNCHANGED link

\* The end, or no more rows from a lost link: mysql_fetch_row() returns null for
\* both, and frees the link for other commands.
NextEnds(s) ==
    /\ Return(s)
    /\ sets[s].handle # 0 /\ sets[s].handle = mysql
    /\ Following(s) = End(s) \/ ~link.alive
    /\ sets' = [sets EXCEPT ![s].at = End(s), ![s].asked = 0, ![s].fetched = FALSE,
                               ![s].handle = 0]
    /\ link' = [link EXCEPT !.reader = Nobody]
    /\ UNCHANGED holds

NextAfterEnd(s) ==
    /\ Return(s)
    /\ sets[s].unbuffered /\ sets[s].handle = 0
    /\ Arrive(s, End(s), 0)
    /\ UNCHANGED <<link, holds>>

\* Mutant: the row that is sought is skipped by next().
SetRowIndexPast(s, index) ==
    /\ Return(s)
    /\ sets[s].has /\ ~sets[s].unbuffered
    /\ Arrive(s, IF index + 2 < End(s) THEN index + 2 ELSE End(s), index + 1)
    /\ UNCHANGED <<link, holds>>

\* set_row_index(), for which the C API wants a stored result.
SetRowIndex(s, index) ==
    /\ Return(s)
    /\ sets[s].has /\ ~sets[s].unbuffered
    /\ Arrive(s, index + 1, index + 1)
    /\ UNCHANGED <<link, holds>>

\* set_row_index(), row_count() and row_index() do not ask, as next() does,
\* whether there is a result; and next() and the destructor go to the handle of
\* unread rows, freed or not.
UseNothing(s) == sets[s].alive /\ ~sets[s].has /\ Crash
UseFreed(s) == sets[s].alive /\ sets[s].handle \notin {0, mysql} /\ Crash

\* The destructor: mysql_free_result() also reads what is left on the link.
Destroy(s) ==
    /\ Return(s)
    /\ sets[s].handle \in {0, mysql}
    /\ sets' = [sets EXCEPT ![s] = Destroyed]
    /\ IF sets[s].handle = 0
       THEN UNCHANGED <<link, holds>>
       ELSE link' = [link EXCEPT !.reader = Nobody] /\ holds' = Nothing

Readable(s) == sets[s].alive /\ sets[s].fetched
Expected(s) == sets[s].rows[sets[s].at]

\* The memory m_row points to.
InMemory(s) ==
    IF ~sets[s].unbuffered \/ holds = [set |-> s, row |-> sets[s].at]
    THEN Expected(s)
    ELSE NoRow

\* get_data() copies the text; an empty one or NULL gives a null pointer.
GetData(s) ==
    /\ Readable(s)
    /\ InMemory(s) \notin {Null, NoRow, <<>>}
    /\ Create(Len(InMemory(s)))
    /\ UNCHANGED resultVars

-----------------------------------------------------------------------------
Init ==
    /\ store \in BOOLEAN
    /\ owned = TRUE
    /\ mysql = 0
    /\ handles = 0
    /\ link = Down
    /\ holds = Nothing
    /\ sets = [s \in Sets |-> Destroyed]
    /\ losses = 0
    /\ crashed = FALSE
    /\ DataInit

Step ==
    \/ Execute
    \/ Disconnect
    \/ Lose
    \/ \E s \in Sets :
         \/ \E result \in Results : Query(s, result) \/ QueryCutOff(s, result)
         \/ NextStored(s)
         \/ NextOnLink(s)
         \/ NextEnds(s)
         \/ NextAfterEnd(s)
         \/ \E index \in 0 .. Len(sets[s].rows) : SetRowIndex(s, index)
         \/ UseNothing(s)
         \/ UseFreed(s)
         \/ Destroy(s)
         \/ GetData(s)
    \/ DataNext /\ UNCHANGED resultVars

\* Nothing is said of a program that used such a pointer or left an array.
Next == ~crashed /\ ~strayed /\ Step

Spec == Init /\ [][Next]_vars

-----------------------------------------------------------------------------
(* Properties                                                               *)

\* Every variable stays within its type.
TypeOK ==
    /\ {store, owned, crashed} \subseteq BOOLEAN
    /\ mysql \in {0, handles}
    /\ handles \in 0 .. MaxHandles
    /\ link \in [alive : BOOLEAN, reader : Sets \cup {Nobody}, more : BOOLEAN]
    /\ holds \in [set : Sets, row : Nat] \cup {Nothing}
    /\ \A s \in Sets :
         /\ sets[s].rows \in Results
         /\ {sets[s].at, sets[s].asked} \subseteq 0 .. End(s)
         /\ sets[s].handle \in 0 .. handles
         /\ sets[s].fetched => sets[s].at \in DOMAIN sets[s].rows
    /\ losses \in 0 .. MaxLosses

\* While a result set has rows unread no other command and no other result set
\* gets at the link; and the link is blocked by a result set only as long as the
\* user has it, to read or to destroy. A result set whose handle was freed is one
\* the user closed the connection under, not one that a reconnection passed over:
\* with stored rows, or read to the end, it outlives the connection.
ReaderOwnsLink ==
    /\ \A s \in Sets : sets[s].handle # 0 =>
         /\ sets[s].handle = mysql => link.reader = s
         /\ sets[s].handle # mysql => sets[s].closed
    /\ link.reader # Nobody => sets[link.reader].alive /\ sets[link.reader].handle = mysql

Cursor(s) == INSTANCE RowCursor WITH
    rows <- IF sets[s].alive THEN sets[s].rows ELSE NoResult,
    at <- sets[s].at,
    asked <- sets[s].asked,
    shown <- IF Readable(s) /\ ~sets[s].closed THEN InMemory(s) ELSE NoRow,
    lost <- sets[s].lost \/ sets[s].closed

\* Every result set is the cursor that result_set.hpp describes, whatever happens
\* to the other one and to the connection: each row in turn, complete, until the
\* next call, and an early end only after the link was lost.
ImplementsCursor ==
    /\ \A s \in Sets : Cursor(s)!Init
    /\ [][\A s \in Sets : [Cursor(s)!Next]_(Cursor(s)!cursor)]_vars
=============================================================================
