----------------------------- MODULE Connection -----------------------------
(***************************************************************************)
(* A mariadb::connection over a link that the server may drop at any time. *)
(* Models src/src/connection.cpp, and the part of worker::execute() that   *)
(* prepares the connection of a command (src/src/worker.cpp).              *)
(*                                                                         *)
(* Every public operation starts with connect(), and connect() calls       *)
(* set_auto_commit(), set_schema() and execute(), which call connect()     *)
(* again.  `todo` is that call stack: the steps still to be taken, the     *)
(* innermost call first.  The server can drop the link between any two     *)
(* steps; an exception empties the stack.                                  *)
(***************************************************************************)
EXTENDS Naturals, Sequences

CONSTANTS
    Schemas,           \* the databases of the server
    Charsets,          \* its character sets
    Unset,             \* no database selected, or the default character set
    Accounts,          \* the accounts: auto commit, the schema (Unset when
                       \* empty), and whether there are named options
    MaxRefusals,       \* bounds: how often a reachable server refuses a request,
    MaxLosses          \* and how often it drops the link

ASSUME ConnectionAssumption ==
    /\ Unset \notin Schemas \cup Charsets
    /\ Accounts \subseteq [auto_commit : BOOLEAN, schema : Schemas \cup {Unset},
                            options : BOOLEAN]
    /\ {MaxRefusals, MaxLosses} \subseteq Nat

VARIABLES
    account, \* m_account
    mysql,   \* m_mysql: null, initialised only, or linked to the server
    alive,   \* the server still serves the link
    unread,  \* results of the last command the client has not read
    session, \* the settings of the server's session
    cached,  \* m_auto_commit, m_schema and m_charset
    todo,    \* the call stack
    op,      \* the operation the user called
    outcome, \* how it ended
    fault,   \* during it, the server refused a request or dropped the link
    refusals,\* how often the server has refused a request
    losses   \* how often it has dropped the link

link == <<mysql, alive, unread, session>>
trouble == <<fault, refusals>>
vars == <<account, link, cached, todo, op, outcome, fault, refusals, losses>>

\* The settings of a new session, and what the constructor puts in the cache.
Defaults == [auto_commit |-> TRUE, schema |-> Unset, charset |-> Unset]

Init ==
    /\ account \in Accounts
    /\ mysql = "null"
    /\ alive = FALSE
    /\ unread = "none"
    /\ session = Defaults
    /\ cached = Defaults
    /\ todo = <<>>
    /\ op = "none"
    /\ outcome = "none"
    /\ fault = FALSE
    /\ refusals = 0
    /\ losses = 0

\* A step of a call; the setters name their setting, commands their kind.
Step(do, about, value) == [do |-> do, about |-> about, value |-> value]
Plain(do) == Step(do, Unset, Unset)

\* Mutant: connect() does not select the schema of the account.
SetupWithoutSchema == <<Step("set", "auto_commit", account.auto_commit)>>

\* What connect() still does once the link is up.
Setup ==
    <<Step("set", "auto_commit", account.auto_commit)>>
        \o (IF account.schema = Unset THEN <<>> ELSE <<Step("set", "schema", account.schema)>>)
        \o (IF account.options THEN <<Plain("connect"), Plain("set_option")>> ELSE <<>>)

\* The current call goes on with `steps`; when nothing is left the operation
\* has returned.
Continue(steps) ==
    /\ todo' = steps \o Tail(todo)
    /\ outcome' = IF todo' = <<>> THEN "returned" ELSE outcome
    /\ UNCHANGED <<account, op, losses>>

Throw ==
    /\ todo' = <<>>
    /\ outcome' = "thrown"
    /\ UNCHANGED <<account, op, losses>>

At(do) == todo # <<>> /\ Head(todo).do = do
About == Head(todo).about
Given == Head(todo).value

-----------------------------------------------------------------------------
(* connect()                                                                *)

\* mysql_ping() succeeds.
Connected == mysql = "link" /\ alive /\ unread = "none"

\* Mutant: a handle that was linked once counts as connected.
ConnectWithoutPing ==
    /\ At("connect")
    /\ Continue(IF mysql = "link" THEN <<>> ELSE <<Plain("open")>>)
    /\ UNCHANGED <<link, cached, trouble>>

\* if (connected()) return true; a ping on a dead link also closes it.  With
\* results unread the ping fails and mysql_real_connect() refuses a handle that
\* is still linked.
Connect ==
    /\ At("connect")
    /\ \/ Connected /\ Continue(<<>>) /\ UNCHANGED mysql
       \/ unread # "none" /\ Throw /\ UNCHANGED mysql
       \/ /\ ~Connected /\ unread = "none"
          /\ Continue(<<Plain("open")>>)
          /\ mysql' = IF mysql = "link" THEN "init" ELSE mysql
    /\ UNCHANGED <<alive, unread, session, cached, trouble>>

\* The server refuses what it is asked.
Refuse ==
    /\ refusals < MaxRefusals
    /\ refusals' = refusals + 1
    /\ fault' = TRUE

\* mysql_init(), the options and mysql_real_connect().  Whether the client library
\* keeps the character set of the handle is its own business.
Open ==
    /\ At("open")
    /\ Continue(Setup)
    /\ mysql' = "link"
    /\ alive' = TRUE
    /\ session' \in {Defaults, [Defaults EXCEPT !.charset = session.charset]}
    /\ UNCHANGED <<unread, cached, trouble>>

\* Without memory or with a connect option refused no handle is left.
OpenFails ==
    /\ At("open")
    /\ Refuse
    /\ Throw
    /\ mysql' \in {"null", "init"}
    /\ alive' = FALSE
    /\ UNCHANGED <<unread, session, cached>>

\* A request on a link the server has dropped, or one that it refuses.
RequestFails ==
    /\ \/ ~alive /\ mysql' = "init" /\ UNCHANGED trouble
       \/ alive /\ Refuse /\ UNCHANGED mysql
    /\ Throw
    /\ UNCHANGED <<alive, unread, session>>

-----------------------------------------------------------------------------
(* The setters: connect(), the request, and then the cached value.          *)

Set ==
    /\ At("set")
    /\ Continue(IF About = "auto_commit" /\ cached.auto_commit = Given
                THEN <<>>
                ELSE <<Plain("connect"), Step("apply", About, Given)>>)
    /\ UNCHANGED <<link, cached, trouble>>

\* Mutant: the cached value is written whatever the server answers.
ApplyToCache ==
    /\ At("apply")
    /\ \/ RequestFails
       \/ /\ alive
          /\ Continue(<<>>)
          /\ UNCHANGED <<link, trouble>>
    /\ cached' = [cached EXCEPT ![About] = Given]

\* mysql_autocommit(), mysql_select_db(), mysql_set_character_set().
Apply ==
    /\ At("apply")
    /\ \/ RequestFails /\ UNCHANGED cached
       \/ /\ alive
          /\ Continue(<<>>)
          /\ session' = [session EXCEPT ![About] = Given]
          /\ cached' = [cached EXCEPT ![About] = Given]
          /\ UNCHANGED <<mysql, alive, unread, trouble>>

\* Mutant: after closing the connection, it connects again.
SetOptionReconnects ==
    /\ At("set_option")
    /\ \/ RequestFails
       \/ /\ alive
          /\ Continue(<<Plain("connect")>>)
          /\ mysql' = "null"
          /\ alive' = FALSE
          /\ UNCHANGED <<unread, session, trouble>>
    /\ UNCHANGED cached

\* if (1 != execute("SET OPTION ...")): a SET statement affects no row, so the
\* connection is closed even when the server accepts it.
SetOption ==
    /\ At("set_option")
    /\ \/ RequestFails
       \/ /\ alive
          /\ Throw
          /\ mysql' = "null"
          /\ alive' = FALSE
          /\ UNCHANGED <<unread, session, trouble>>
    /\ UNCHANGED cached

-----------------------------------------------------------------------------
(* Commands.  execute() reads every result; query() leaves to the result_set *)
(* one that is not buffered, and neither query() nor insert() reads the       *)
(* results of the statements that follow the first.                          *)

LeftUnread(kind) ==
    CASE kind = "query" -> {"none", "rows", "more"}
      [] kind = "insert" -> {"none", "more"}
      [] OTHER -> {"none"}

Command ==
    /\ At("command")
    /\ \/ RequestFails
       \/ /\ alive
          /\ Continue(<<>>)
          /\ unread' \in LeftUnread(About)
          /\ UNCHANGED <<mysql, alive, session, trouble>>
    /\ UNCHANGED cached

-----------------------------------------------------------------------------
(* What the user does between operations.                                   *)

Call(name, steps) ==
    /\ todo = <<>>
    /\ todo' = steps
    /\ op' = name
    /\ outcome' = "none"
    /\ fault' = FALSE
    /\ UNCHANGED <<account, link, cached, refusals, losses>>

\* worker::execute() on the connection of its statement, or on a new one.
Worker ==
    <<Step("set", "auto_commit", TRUE), Plain("connect"), Step("command", "query", Unset)>>

\* Mutant: set_schema() was copied from set_charset().
OperationCopied ==
    \/ \E x \in Schemas : Call("set_schema", <<Step("set", "charset", x)>>)
    \/ \E x \in Charsets : Call("set_charset", <<Step("set", "charset", x)>>)

Operation ==
    \/ Call("connect", <<Plain("connect")>>)
    \/ \E b \in BOOLEAN : Call("set_auto_commit", <<Step("set", "auto_commit", b)>>)
    \/ \E x \in Schemas : Call("set_schema", <<Step("set", "schema", x)>>)
    \/ \E x \in Charsets : Call("set_charset", <<Step("set", "charset", x)>>)
    \/ \E kind \in {"execute", "insert", "query", "create_statement"} :
         Call(kind, <<Plain("connect"), Step("command", kind, Unset)>>)
    \/ Call("worker", Worker)

Disconnect ==
    /\ todo = <<>>
    /\ mysql' = "null"
    /\ alive' = FALSE
    /\ unread' = "none"
    /\ op' = "disconnect"
    /\ outcome' = "returned"
    /\ UNCHANGED <<account, session, cached, todo, trouble, losses>>

\* The result_set of query() is destroyed; results after the first stay unread.
FreeResult ==
    /\ todo = <<>>
    /\ unread = "rows"
    /\ unread' = "none"
    /\ UNCHANGED <<account, mysql, alive, session, cached, todo, op, outcome, trouble, losses>>

\* The server restarts, times out or kills the session.
Lose ==
    /\ alive
    /\ losses < MaxLosses
    /\ alive' = FALSE
    /\ losses' = losses + 1
    /\ fault' = (fault \/ todo # <<>>)
    /\ UNCHANGED <<account, mysql, unread, session, cached, todo, op, outcome, refusals>>

-----------------------------------------------------------------------------
CallStep ==
    \/ Connect
    \/ Open
    \/ OpenFails
    \/ Set
    \/ Apply
    \/ SetOption
    \/ Command

Next == CallStep \/ Operation \/ Disconnect \/ FreeResult \/ Lose

Spec == Init /\ [][Next]_vars

\* The client library answers or fails: a call in progress goes on.
FairSpec == Spec /\ WF_vars(CallStep)

-----------------------------------------------------------------------------
(* Properties                                                               *)

Settings == [auto_commit : BOOLEAN, schema : Schemas \cup {Unset}, charset : Charsets \cup {Unset}]
Steps ==
    [do : {"connect", "open", "set_option"}, about : {Unset}, value : {Unset}]
        \cup [do : {"set", "apply"}, about : {"auto_commit"}, value : BOOLEAN]
        \cup [do : {"set", "apply"}, about : {"schema"}, value : Schemas]
        \cup [do : {"set", "apply"}, about : {"charset"}, value : Charsets]
        \cup [do : {"command"}, about : {"execute", "insert", "query", "create_statement"},
              value : {Unset}]

\* Every variable stays within its type.
TypeOK ==
    /\ account \in Accounts
    /\ mysql \in {"null", "init", "link"}
    /\ alive \in BOOLEAN
    /\ unread \in {"none", "rows", "more"}
    /\ session \in Settings
    /\ cached \in Settings
    /\ todo \in Seq(Steps)
    /\ op \in {"none", "connect", "set_auto_commit", "set_schema", "set_charset",
              "execute", "insert", "query", "create_statement", "worker",
              "disconnect"}
    /\ outcome \in {"none", "returned", "thrown"}
    /\ fault \in BOOLEAN
    /\ refusals \in 0 .. MaxRefusals
    /\ losses \in 0 .. MaxLosses

\* Between operations, and on a link the server still serves.
Settled == todo = <<>> /\ alive

\* As long as the server refuses nothing and the account leaves auto commit on,
\* auto_commit() tells how the server's session treats the next change, also
\* after the link was dropped and connect() made a new session.
AutoCommitHonest ==
    Settled /\ refusals = 0 /\ account.auto_commit
        => cached.auto_commit = session.auto_commit

\* As long as the server refuses nothing and the account names a schema, schema()
\* tells the database the next command will be run in; and connect(), which "sets
\* options as well as auto commit" and returns true on success, leaves none unset.
SchemaHonest ==
    Settled /\ refusals = 0 /\ account.schema # Unset =>
        /\ cached.schema = session.schema
        /\ op = "connect" /\ outcome = "returned" => session.schema # Unset

\* "Make sure auto commit mode is on before continuing": the command of a worker
\* never runs in a session without auto commit, where closing the connection
\* would undo it.
WorkerCommits ==
    op = "worker" /\ At("command") /\ alive => session.auto_commit

\* An operation throws only when the server failed it, an earlier command left
\* results unread, or the account has named options: losses between two
\* operations are hidden from the user.
ThrowsOnlyOnFault ==
    [][todo # <<>> /\ outcome' = "thrown" =>
         fault' \/ unread # "none" \/ account.options]_vars

\* An operation ends, however the nested calls and the losses interleave.
OperationEnds == todo # <<>> ~> todo = <<>>
=============================================================================
