------------------------------ MODULE ResultSet ------------------------------
(***************************************************************************)
(* The classes mariadb::statement, mariadb::bind and mariadb::result_set:  *)
(* one prepared statement with a parameter, and the result sets of its     *)
(* executions, which share its MYSQL_STMT. The results have a column of    *)
(* text and a column of an integer type.                                   *)
(*                                                                         *)
(* The C connector is external: it keeps a copy of the binds it was given, *)
(* fetches through that copy, and writes the length of a text to the       *)
(* address in the bind, which is the bind's own buffer_length.             *)
(***************************************************************************)
EXTENDS Conversion, Sequences, SequencesExt, FiniteSetsExt

CONSTANTS
    Null,           \* the SQL NULL
    Columns,        \* the types the column of integers may have
    Results,        \* the results an execution may have
    Values,         \* the values a parameter may be set to
    MaxExecutions,  \* bounds: executions of the statement,
    MaxResultSets,  \* result sets they make,
    MaxOutdated,    \* calls of next() and set_row_index() after such an execution,
    MaxSets,        \* times the parameter is set,
    MaxSetExecutions \* and executions of a statement whose parameter was set

(* A row has a text, a sequence of bytes, and the name of a number.        *)
NumberNames == {"lowest", "minus one", "zero", "one", "highest"}

NumberOf(name, type) ==
    CASE name = "lowest" -> Lowest(type)
      [] name = "minus one" -> IF type.signed THEN -1 ELSE 1
      [] name = "zero" -> 0
      [] name = "one" -> 1
      [] name = "highest" -> Highest(type)

Bytes == 0..9
Unwritten == 0      \* a byte nobody has written; the texts do not use it

ASSUME ResultSetAssumption ==
    /\ Columns \subseteq IntTypes
    /\ \A r \in Results :
          /\ r \in Seq({r[i] : i \in DOMAIN r})
          /\ \A i \in DOMAIN r :
                /\ r[i].text = Null \/ r[i].text \in Seq(Bytes \ {Unwritten})
                /\ r[i].number = Null \/ r[i].number \in NumberNames
    /\ {MaxExecutions, MaxResultSets, MaxOutdated, MaxSets, MaxSetExecutions} \subseteq Nat
    /\ MaxSetExecutions <= MaxExecutions

VARIABLES
    store,  \* account::store_result(), never changed
    column, \* the type of the column of integers
    param,  \* the bind of the parameter: its type, where its buffer points,
            \* and what m_unsigned64, m_time and m_data hold
    wanted, \* the value the user set last, with its kind
    mixed,  \* the user set a number after a date or a text
    set_calls,
    stmt,   \* the MYSQL_STMT: its rows, the result set whose binds it copied
            \* last, and whether it has written through binds that are gone
    sets,   \* the result_set of each execution, if it had one
    last    \* the last call, and what it told or that it threw

paramVars == <<param, wanted, mixed, set_calls>>
fixedVars == <<store, column>>
vars == <<fixedVars, paramVars, stmt, sets, last>>

ResultSets == 1..MaxResultSets
Nothing == [alive |-> FALSE]

-----------------------------------------------------------------------------
(* The parameter: bind::set() and the setters of statement.                *)

Regions == {"number", "time", "text"}

(* Mutant: the buffer stays where it points.                               *)
BindSetKeeps(kind) == [param EXCEPT !.type = kind]

(* Numbers and NULL leave the buffer where an earlier type has put it.     *)
BindSet(kind) ==
    IF kind \in {"time", "text"} THEN [param EXCEPT !.type = kind, !.buffer = kind]
    ELSE [param EXCEPT !.type = kind]

Set(kind, v) ==
    /\ stmt.held
    /\ set_calls < MaxSets
    /\ stmt.executions <= MaxSetExecutions
    /\ set_calls' = set_calls + 1
    /\ param' = [BindSet(kind) EXCEPT ![kind] = v]
    /\ wanted' = [kind |-> kind, value |-> v]
    /\ mixed' = (mixed \/ (kind = "number" /\ param.buffer # "number"))
    /\ last' = [op |-> "set", set |-> 0, told |-> FALSE]
    /\ UNCHANGED <<fixedVars, stmt, sets>>

SetNull ==
    /\ stmt.held
    /\ set_calls < MaxSets
    /\ stmt.executions <= MaxSetExecutions
    /\ set_calls' = set_calls + 1
    /\ param' = BindSet("null")
    /\ wanted' = [kind |-> "null", value |-> Null]
    /\ last' = [op |-> "set", set |-> 0, told |-> FALSE]
    /\ UNCHANGED <<fixedVars, mixed, stmt, sets>>

(* What mysql_stmt_execute() reads through the bind: a value of the kind   *)
(* the type says, or bytes that were meant for another kind.               *)
Sent ==
    IF param.type = "null" THEN [kind |-> "null", value |-> Null]
    ELSE [kind |-> param.buffer, value |-> param[param.buffer]]

-----------------------------------------------------------------------------
(* Execution.                                                              *)

Texts(result) == {result[i].text : i \in DOMAIN result} \ {Null}

(* max_length: known when the rows are stored, otherwise zero.             *)
MaxLength(result) == IF store THEN Max({Len(t) : t \in Texts(result)} \cup {0}) ELSE 0

Bind(size, garbage) ==
    [alive     |-> TRUE,
     fetched   |-> FALSE,       \* m_was_fetched
     data      |-> [i \in 1..size |-> Unwritten],
     length    |-> size,        \* buffer_length, and through m_bind->length
     error     |-> FALSE,
     room      |-> size,        \* buffer_length in the connector's copy
     moved     |-> 0,           \* how often m_data was allocated anew
     row       |-> 0,           \* the allocation m_row points to
     text_null |-> FALSE,
     union     |-> garbage,
     num_null  |-> FALSE,
     damaged   |-> FALSE,       \* a fetch wrote to freed memory
     execution |-> stmt.executions + 1,
     rows      |-> <<>>,        \* history: the result of its execution,
     at        |-> 0,           \* the row the user expects,
     spoiled   |-> FALSE,       \* its rows are gone: another one was destroyed since,
                                \* or the server did not send them,
     touched   |-> FALSE,       \* an outdated one took a row from this one, or a row
                                \* of its own was cut off and not fetched again,
     outdated  |-> FALSE]       \* its own fetch came after another execution

(* Mutant: the buffer is allocated for one byte, whatever the texts.       *)
NewResultSetShort(result, garbage) == [Bind(1, garbage) EXCEPT !.rows = result]

NewResultSet(result, garbage) ==
    [Bind(MaxLength(result), garbage) EXCEPT !.rows = result]

Superseding(op) ==
    /\ stmt.held
    /\ stmt.executions < (IF set_calls = 0 THEN MaxExecutions ELSE MaxSetExecutions)
    /\ last' = [op |-> op, set |-> 0, told |-> FALSE]
    /\ UNCHANGED <<fixedVars, paramVars>>

(* Every execution gives up what is left of the result before it.          *)
Executed(result) == [stmt EXCEPT !.executions = @ + 1, !.rows = result, !.cursor = 1]

(* Mutant: mysql_stmt_bind_result() is left to the first result set.       *)
QueryBindsOnce(result) ==
    /\ Superseding("query")
    /\ stmt.made < MaxResultSets
    /\ stmt' = [Executed(result) EXCEPT !.made = @ + 1, !.bound = 1]
    /\ sets' = [sets EXCEPT ![stmt.made + 1] = NewResultSet(result, 0)]

Query(result) ==
    /\ Superseding("query")
    /\ stmt.made < MaxResultSets
    /\ stmt' = [Executed(result) EXCEPT !.made = @ + 1, !.bound = stmt.made + 1]
    /\ \E garbage \in {0, Patterns("longlong") - 1} :
          sets' = [sets EXCEPT ![stmt.made + 1] = NewResultSet(result, garbage)]

(* execute() and insert() make no result set.                              *)
Execute(result) ==
    /\ Superseding("execute")
    /\ stmt' = Executed(result)
    /\ UNCHANGED sets

(* The execution or the storing of the rows fails and throws. (A failure   *)
(* of the binding before it throws, too, and changes nothing.)             *)
Fail ==
    /\ Superseding("fail")
    /\ stmt' = Executed(<<>>)
    /\ UNCHANGED sets

-----------------------------------------------------------------------------
(* Fetching.                                                               *)

Over(data, bytes) == bytes \o SubSeq(data, Len(bytes) + 1, Len(data))

(* mysql_stmt_fetch(): a NULL touches nothing but the indicator. A text    *)
(* that does not fit is cut off, its full length and an error are told.    *)
FetchText(rs, t) ==
    IF t = Null THEN [rs EXCEPT !.text_null = TRUE]
    ELSE LET written == SubSeq(t, 1, Min({Len(t), rs.room}))
         IN  [rs EXCEPT !.text_null = FALSE, !.length = Len(t),
                        !.error = Len(t) > rs.room,
                        !.data = IF rs.moved = 0 THEN Over(@, written) ELSE @,
                        !.damaged = @ \/ (rs.moved > 0 /\ written # <<>>)]

FetchNumber(rs, name) ==
    IF name = Null THEN [rs EXCEPT !.num_null = TRUE]
    ELSE [rs EXCEPT !.num_null = FALSE,
                    !.union = WriteLow(@, NumberOf(name, column), column.size)]

Resize(rs) ==
    IF Len(rs.data) < rs.length
    THEN [rs EXCEPT !.data = @ \o [i \in 1..(rs.length - Len(@)) |-> Unwritten],
                    !.moved = @ + 1]
    ELSE rs

(* mysql_stmt_fetch_column() goes through the result set's own bind.       *)
FetchColumn(rs, t) ==
    LET written == SubSeq(t, 1, Min({Len(t), rs.length}))
    IN  [rs EXCEPT !.data = Over(@, written), !.length = Len(t),
                   !.error = Len(t) > rs.length]

Enlarged(rs) == LET r == Resize(rs) IN [r EXCEPT !.row = r.moved]

(* Mutant: the column is not fetched again into the larger buffer.         *)
FetchTruncatedOnce(rs, t) == IF rs.error THEN Enlarged(rs) ELSE rs

FetchTruncated(rs, t) == IF rs.error THEN FetchColumn(Enlarged(rs), t) ELSE rs

(* The statement fetches its next row through the binds it copied last,    *)
(* whichever result set is asked; if the row did not fit, the result set   *)
(* that was asked looks at its own error flags.                            *)
Filled(row) ==
    [sets EXCEPT ![stmt.bound] = FetchNumber(FetchText(@, row.text), row.number)]

CutOff(row) == row.text # Null /\ Len(row.text) > sets[stmt.bound].room

FetchRow(s, row) ==
    IF CutOff(row) THEN [Filled(row) EXCEPT ![s] = FetchTruncated(@, row.text)]
    ELSE Filled(row)

(* The result set that loses a row, or its cursor, to an outdated one.     *)
Disturb(s, all) ==
    IF stmt.bound # s /\ all[stmt.bound].alive
    THEN [all EXCEPT ![stmt.bound].touched = TRUE]
    ELSE all

Fetch(s, cursor, at) ==
    LET more == cursor <= Len(stmt.rows)
        gone == more /\ ~sets[stmt.bound].alive
        outdated == sets[s].execution # stmt.executions
    IN  /\ outdated => stmt.strays < MaxOutdated
        /\ sets' = Disturb(s, [(IF more /\ ~gone THEN FetchRow(s, stmt.rows[cursor]) ELSE sets)
                      EXCEPT ![s].fetched = more, ![s].at = at,
                             ![s].outdated = @ \/ outdated])
        /\ stmt' = [stmt EXCEPT !.cursor = IF more THEN cursor + 1 ELSE cursor,
                                !.strays = IF outdated THEN @ + 1 ELSE @,
                                !.broken = gone]
        /\ last' = [op |-> "fetch", set |-> s, told |-> more]
        /\ UNCHANGED <<fixedVars, paramVars>>

(* mysql_stmt_fetch() fails while it reads a row from the server: the link *)
(* is lost or the query was killed. That is told as the end of the rows.   *)
FetchFails(s, at) ==
    LET outdated == sets[s].execution # stmt.executions
    IN  /\ ~store /\ stmt.cursor <= Len(stmt.rows)
        /\ outdated => stmt.strays < MaxOutdated
        /\ sets' = Disturb(s, [sets EXCEPT ![s].fetched = FALSE, ![s].at = at,
                                           ![s].outdated = @ \/ outdated, ![s].spoiled = TRUE])
        /\ stmt' = [stmt EXCEPT !.rows = <<>>, !.cursor = 1,
                                !.strays = IF outdated THEN @ + 1 ELSE @]
        /\ last' = [op |-> "fetch", set |-> s, told |-> FALSE]
        /\ UNCHANGED <<fixedVars, paramVars>>

(* A row that was cut off and is not fetched again: there is no memory for *)
(* a larger buffer, and resize() throws before m_was_fetched is assigned,  *)
(* or mysql_stmt_fetch_column() fails and the call tells of no row.        *)
FetchCutShort(s, cursor, at) ==
    LET row == stmt.rows[cursor]
        asked == Filled(row)[s]
        outdated == sets[s].execution # stmt.executions
    IN  /\ cursor <= Len(stmt.rows) /\ sets[stmt.bound].alive
        /\ CutOff(row) /\ asked.error
        /\ outdated => stmt.strays < MaxOutdated
        /\ \E threw \in BOOLEAN :
              LET left == IF threw THEN asked ELSE [Enlarged(asked) EXCEPT !.fetched = FALSE]
              IN  /\ threw => Len(asked.data) < asked.length
                  /\ sets' = Disturb(s, [Filled(row) EXCEPT ![s] =
                        [left EXCEPT !.at = at, !.outdated = @ \/ outdated, !.touched = TRUE]])
                  /\ last' = [op |-> IF threw THEN "throw" ELSE "fetch",
                              set |-> s, told |-> FALSE]
        /\ stmt' = [stmt EXCEPT !.cursor = cursor + 1,
                                !.strays = IF outdated THEN @ + 1 ELSE @]
        /\ UNCHANGED <<fixedVars, paramVars>>

NextRow(s) ==
    /\ sets[s].alive
    /\ LET at == Min({sets[s].at, Len(sets[s].rows)}) + 1
       IN  \/ Fetch(s, stmt.cursor, at)
           \/ FetchFails(s, at)
           \/ FetchCutShort(s, stmt.cursor, at)

(* Mutant: the row that is sought is skipped by next().                    *)
SetRowIndexPast(s, index) ==
    /\ sets[s].alive /\ store
    /\ Fetch(s, Min({index + 1, Len(stmt.rows)}) + 1, Min({index, Len(sets[s].rows)}) + 1)

(* The connector walks the list of stored rows to its end at most.         *)
SetRowIndex(s, index) ==
    /\ sets[s].alive /\ store
    /\ LET cursor == Min({index, Len(stmt.rows)}) + 1
           at == Min({index, Len(sets[s].rows)}) + 1
       IN  Fetch(s, cursor, at) \/ FetchCutShort(s, cursor, at)

(* The destructor frees the rows the statement holds, whosever they are.   *)
Destroy(s) ==
    /\ sets[s].alive
    /\ sets' = [e \in ResultSets |->
                  IF e = s THEN Nothing
                  ELSE IF sets[e].alive THEN [sets[e] EXCEPT !.spoiled = TRUE]
                  ELSE sets[e]]
    /\ stmt' = [stmt EXCEPT !.rows = <<>>, !.cursor = 1]
    /\ last' = [op |-> "destroy", set |-> 0, told |-> FALSE]
    /\ UNCHANGED <<fixedVars, paramVars>>

(* The user lets go of the statement; its result sets keep the MYSQL_STMT. *)
DropStatement ==
    /\ stmt.held
    /\ stmt' = [stmt EXCEPT !.held = FALSE]
    /\ last' = [op |-> "drop", set |-> 0, told |-> FALSE]
    /\ UNCHANGED <<fixedVars, paramVars, sets>>

Init ==
    /\ store \in BOOLEAN
    /\ column \in Columns
    /\ param = [type |-> "null", buffer |-> "number",
                number |-> Null, time |-> Null, text |-> Null]
    /\ wanted = [kind |-> "null", value |-> Null]
    /\ mixed = FALSE
    /\ set_calls = 0
    /\ stmt = [held |-> TRUE, executions |-> 0, rows |-> <<>>, cursor |-> 1,
               made |-> 0, bound |-> 0, strays |-> 0, broken |-> FALSE]
    /\ sets = [e \in ResultSets |-> Nothing]
    /\ last = [op |-> "prepare", set |-> 0, told |-> FALSE]

Step ==
    \/ \E kind \in Regions, v \in Values : Set(kind, v)
    \/ SetNull
    \/ \E result \in Results : Query(result) \/ Execute(result)
    \/ Fail
    \/ \E s \in ResultSets : NextRow(s) \/ Destroy(s)
    \/ \E s \in ResultSets : \E index \in 0..Len(stmt.rows) : SetRowIndex(s, index)
    \/ DropStatement

(* Nothing is said of a program that wrote to freed memory.                *)
Next == ~stmt.broken /\ Step

Spec == Init /\ [][Next]_vars

-----------------------------------------------------------------------------
(* The getters. They throw unless a row was fetched, and for a type the    *)
(* column does not have.                                                   *)

Readable(s) == sets[s].alive /\ sets[s].fetched

GetString(s) == SubSeq(sets[s].data, 1, sets[s].length)

GetIsNull(s) == sets[s].text_null

GetNumber(s, type) ==
    {ThroughStatement(sets[s].union, t) : t \in {x \in {type} : SameSize(x, column)}}

GetBoolean(s) == BooleanThroughStatement(sets[s].union)

-----------------------------------------------------------------------------
Expected(s) == sets[s].rows[sets[s].at]

(* Result sets the user may rely on: not fetched from after the statement  *)
(* was executed again, nor was such another one while this was the last,   *)
(* and no row of theirs was cut off and not fetched again.                 *)
Undisturbed(s) == ~sets[s].touched /\ ~sets[s].outdated
Shows(s) == Readable(s) /\ Undisturbed(s)

(* The types of the variables, and no cursor beyond the end of the rows.   *)
TypeOK ==
    /\ store \in BOOLEAN /\ column \in IntTypes
    /\ param.type \in Regions \cup {"null"} /\ param.buffer \in Regions
    /\ mixed \in BOOLEAN /\ set_calls \in 0..MaxSets
    /\ stmt.executions \in 0..MaxExecutions
    /\ stmt.made \in 0..MaxResultSets /\ stmt.bound \in 0..stmt.made
    /\ stmt.strays \in 0..MaxOutdated /\ stmt.broken \in BOOLEAN
    /\ stmt.cursor \in 1..(Len(stmt.rows) + 1)
    /\ \A s \in ResultSets : sets[s].alive =>
          /\ s <= stmt.made /\ sets[s].execution \in 1..stmt.executions
          /\ sets[s].at \in 0..(Len(sets[s].rows) + 1)
          /\ sets[s].length \in Nat /\ sets[s].room \in Nat
          /\ sets[s].union \in 0..(Patterns("longlong") - 1)

(* The row a result set shows is the one the user expects from the calls   *)
(* of next() and set_row_index(): its text is complete, neither cut off    *)
(* nor followed by another row's, with rows stored or not, and it stays    *)
(* when the statement is executed again and other result sets go. A NULL   *)
(* is told from an empty text and from what the buffers held before.       *)
RowShown ==
    \A s \in ResultSets : Shows(s) =>
        /\ GetIsNull(s) <=> Expected(s).text = Null
        /\ sets[s].num_null <=> Expected(s).number = Null
        /\ Expected(s).text # Null => GetString(s) = Expected(s).text

(* A row that next() and set_row_index() tell of is there. They tell of no *)
(* row at the end only, except after another result set of the statement   *)
(* was destroyed or a fetch from the server failed: in that call and after *)
(* it, the rows that are left are not told from the end.                   *)
NextHonest ==
    last.op = "fetch" /\ Undisturbed(last.set) =>
        LET rs == sets[last.set]
        IN  /\ last.told => rs.at <= Len(rs.rows)
            /\ ~last.told => rs.spoiled \/ rs.at > Len(rs.rows)

(* No fetch writes to a buffer that was replaced by a larger one, m_row    *)
(* points to the buffer in use, and a getter does not read beyond it,      *)
(* unless an outdated result set was fetched from, or a row was cut off    *)
(* and not fetched again. An outdated one keeps its getters within its     *)
(* buffer, but not its fetches.                                            *)
BuffersSound ==
    /\ stmt.broken => \E s \in ResultSets : sets[s].alive /\ sets[s].outdated
    /\ \A s \in ResultSets : sets[s].alive =>
          /\ sets[s].row = sets[s].moved
          /\ ~sets[s].touched => sets[s].length <= Len(sets[s].data)
          /\ Undisturbed(s) => ~sets[s].damaged

(* A fetch leaves every other result set alone: what they show, and their  *)
(* rows, also when it fails or throws. Only next() and set_row_index() of  *)
(* a result set whose statement was executed again write to another one.   *)
FetchTouchesOwn ==
    [][last'.op \in {"fetch", "throw"} /\ ~sets'[last'.set].outdated =>
         \A s \in ResultSets \ {last'.set} : sets'[s] = sets[s]]_vars

(* A number that the requested type can hold is read exactly through text  *)
(* and through a prepared statement, whatever the union held before; only  *)
(* that negative numbers of 8 and 16 bits are zero in the latter.          *)
NumbersRead ==
    \A s \in ResultSets : Shows(s) /\ Expected(s).number # Null =>
        LET v == NumberOf(Expected(s).number, column)
        IN  /\ \A type \in IntTypes : SameSize(type, column) /\ Fits(v, type) =>
                  /\ ThroughText(v, type) = {v}
                  /\ GetNumber(s, type) =
                        {IF v < 0 /\ type.size \in {"tiny", "short"} THEN 0 ELSE v}
            /\ column.size = "tiny" /\ v \in {0, 1} =>
                  BooleanThroughText(v) = GetBoolean(s)

(* What an execution sends is the value set last, unless a number was set  *)
(* after a date or a text.                                                 *)
ParamIsSent == ~mixed => Sent = wanted
=============================================================================
