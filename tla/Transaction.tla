---------------------------- MODULE Transaction ----------------------------
(***************************************************************************)
(* mariadb::transaction and mariadb::save_point objects of one connection  *)
(* and the server session they act on.  Models src/src/transaction.cpp and *)
(* src/src/save_point.cpp.                                                 *)
(*                                                                         *)
(* Every connection::execute() starts with connect(), which hides the loss *)
(* of the session behind a new one (module Connection), also after the     *)
(* user called disconnect(); mysql_commit() and mysql_rollback() do not.   *)
(* A command that is cut short by a loss throws and leaves the objects as  *)
(* a command that is refused leaves them, so it needs no action of its own. *)
(***************************************************************************)
EXTENDS Naturals, Sequences, SequencesExt

CONSTANTS
    MaxTransactions, \* bounds: how many objects and writes there are
    MaxSavePoints,
    MaxWrites,
    MaxLosses        \* bound: how often the session ends, by the server
                     \* or by the user

ASSUME TransactionAssumption ==
    {MaxTransactions, MaxSavePoints, MaxWrites, MaxLosses} \subseteq Nat

Transactions == 1 .. MaxTransactions
SavePoints == 1 .. MaxSavePoints
Writes == 1 .. MaxWrites
Nobody == 0

VARIABLES
    handle,   \* m_mysql of the connection: null, kept, or gone with its object
    session,  \* of the server: is it live, inside a transaction, has it the
              \* isolation level for the next one, and what it holds uncommitted
    durable,  \* the writes the database has committed
    starting, \* the transaction whose constructor is between its two commands
    trans,    \* each transaction: none, open (m_connection set), committed, undone
    isolated, \* the transactions that run at the level they were given
    points,   \* m_save_points of each transaction
    owner,    \* m_transaction of each save point
    fate,     \* each save point: none, held, released, undone
    made,     \* the transaction and save points the user made each write in
    crashed,  \* undefined behaviour, or an exception left a destructor
    losses,
    hit,      \* the session ended while a transaction was open or starting
    ordered,  \* the user has ended save points in the reverse order so far
    ending,   \* the transactions the user has told to commit or has destroyed
    left      \* the others there were when the user closed the connection

objects == <<trans, isolated, points, owner, fate>>
user == <<hit, ordered, ending, left>>
vars == <<handle, session, durable, starting, objects, made, crashed, losses, user>>

Fresh == [live |-> TRUE, in_trx |-> FALSE, level |-> FALSE, log |-> <<>>]
Lost == [Fresh EXCEPT !.live = FALSE]

Init ==
    /\ handle = "null"
    /\ session = Lost
    /\ durable = {}
    /\ starting = Nobody
    /\ trans = [t \in Transactions |-> "none"]
    /\ isolated = {}
    /\ points = [t \in Transactions |-> <<>>]
    /\ owner = [p \in SavePoints |-> Nobody]
    /\ fate = [p \in SavePoints |-> "none"]
    /\ made = <<>>
    /\ crashed = FALSE
    /\ losses = 0
    /\ hit = FALSE
    /\ ordered = TRUE
    /\ ending = {}
    /\ left = {}

\* What the session holds: save points and writes, in the order they were made.
NameBefore(p) == p - 1  \* mutant: the counter is incremented afterwards
Name(p) == p
Point(p) == [point |-> TRUE, id |-> Name(p)]
Write(w) == [point |-> FALSE, id |-> w]
Gap == [point |-> FALSE, id |-> 0]
WritesIn(log) == {w \in Writes : Contains(log, Write(w))}
Held == WritesIn(session.log)

\* The session a command finds, after connect().
Reached == IF session.live THEN session ELSE Fresh

Known(p) == Contains(Reached.log, Point(p))
Position(p) == CHOOSE i \in 1 .. Len(Reached.log) : Reached.log[i] = Point(p)
UpTo(p) == SubSeq(Reached.log, 1, Position(p))

\* RELEASE SAVEPOINT removes the point and the points set after it (here they leave
\* gaps among the writes); ROLLBACK TO SAVEPOINT removes all that came after it, and
\* keeps the point.
ReleasePoint(p) ==
    [Reached EXCEPT !.log = [i \in 1 .. Len(@) |->
        IF i >= Position(p) /\ @[i].point THEN Gap ELSE @[i]]]
RollBackByRelease(p) == ReleasePoint(p)  \* mutant: the wrong command is sent
RollBackTo(p) == [Reached EXCEPT !.log = UpTo(p)]

Open == {t \in Transactions : trans[t] = "open"}
Listed(p) == \E t \in Transactions : Contains(points[t], p)

\* One thread uses the connection, and only while no constructor is running.
Idle == starting = Nobody /\ ~crashed

\* A command of the connection: connect() makes the handle anew after
\* disconnect(). (The raw pointers to a connection that is gone are in
\* UseGone.)
Executes ==
    /\ handle # "gone"
    /\ handle' = "kept"

-----------------------------------------------------------------------------
(* transaction                                                              *)

\* The constructor's SET TRANSACTION ISOLATION LEVEL, which the server refuses
\* inside a transaction: there the constructor throws and changes nothing.
LeveledNot == Reached  \* mutant: the level given to the constructor is not used
Leveled == [Reached EXCEPT !.level = TRUE]

SetIsolation(t) ==
    /\ Idle
    /\ trans[t] = "none"
    /\ \A u \in Transactions : u < t => trans[u] # "none"
    /\ ~Reached.in_trx
    /\ Executes
    /\ session' = Leveled
    /\ starting' = t
    /\ UNCHANGED <<durable, objects, made, crashed, losses, user>>

\* START TRANSACTION, in this session or in the one that has replaced it.
Started == [Reached EXCEPT !.in_trx = TRUE, !.level = FALSE]

Start ==
    /\ starting # Nobody
    /\ Executes
    /\ session' = Started
    /\ trans' = [trans EXCEPT ![starting] = "open"]
    /\ isolated' = IF Reached.level THEN isolated \cup {starting} ELSE isolated
    /\ starting' = Nobody
    /\ UNCHANGED <<durable, points, owner, fate, made, crashed, losses, user>>

\* The link breaks during START TRANSACTION: there is no object.
StartThrows ==
    /\ starting # Nobody
    /\ ~session.live
    /\ starting' = Nobody
    /\ UNCHANGED <<handle, session, durable, objects, made, crashed, losses, user>>

Cleanup(t) ==
    /\ owner' = [p \in SavePoints |-> IF Contains(points[t], p) THEN Nobody ELSE owner[p]]
    /\ points' = [points EXCEPT ![t] = <<>>]

\* commit() and the destructor while m_connection is set, and m_mysql with it.
EndOf(t) ==
    /\ Idle
    /\ t \in Open
    /\ handle = "kept"
    /\ Cleanup(t)
    /\ ending' = ending \cup {t}
    /\ UNCHANGED <<handle, starting, isolated, fate, made, crashed, losses, hit, ordered, left>>

\* mysql_commit() or mysql_rollback() with a null or dangling m_mysql.
EndOnNoHandle(t) ==
    /\ Idle
    /\ t \in Open
    /\ handle # "kept"
    /\ crashed' = TRUE
    /\ ending' = ending \cup {t}
    /\ UNCHANGED <<handle, session, durable, starting, objects, made, losses, hit, ordered, left>>

\* mysql_commit() and mysql_rollback() leave a live session without transaction.
Ended == IF session.live THEN Fresh ELSE session

\* Mutant: m_connection is not reset, so the destructor will still roll back.
CommitKeepsConnection(t) ==
    /\ EndOf(t)
    /\ durable' = durable \cup Held
    /\ session' = Ended
    /\ UNCHANGED trans

\* The result of mysql_commit() is ignored.
Commit(t) ==
    /\ EndOf(t)
    /\ durable' = durable \cup Held
    /\ session' = Ended
    /\ trans' = [trans EXCEPT ![t] = "committed"]

\* Mutant: the destructor leaves the transaction of the server open.
DestroyWithoutRollback(t) ==
    /\ EndOf(t)
    /\ trans' = [trans EXCEPT ![t] = "undone"]
    /\ UNCHANGED <<session, durable>>

\* mysql_rollback() undoes whatever the session holds.
DestroyTransaction(t) ==
    /\ EndOf(t)
    /\ session' = Ended
    /\ trans' = [trans EXCEPT ![t] = "undone"]
    /\ UNCHANGED durable

-----------------------------------------------------------------------------
(* save_point                                                               *)

\* create_save_point(): SAVEPOINT, which means nothing outside a transaction.
CreateSavePoint(t, p) ==
    /\ Idle
    /\ t \in Open
    /\ fate[p] = "none"
    /\ \A q \in SavePoints : q < p => fate[q] # "none"
    /\ session' = IF Reached.in_trx
                  THEN [Reached EXCEPT !.log = Append(@, Point(p))]
                  ELSE Reached
    /\ Executes
    /\ points' = [points EXCEPT ![t] = Append(@, p)]
    /\ owner' = [owner EXCEPT ![p] = t]
    /\ fate' = [fate EXCEPT ![p] = "held"]
    /\ UNCHANGED <<durable, starting, trans, isolated, made, crashed, losses, user>>

\* The user ends p now, by commit() or by dropping the object.
Ends(p) ==
    /\ Idle
    /\ fate[p] \in {"held", "released"}
    /\ owner[p] # Nobody
    /\ ordered' = (ordered /\ (Listed(p) => p = Last(points[owner[p]])))
    /\ UNCHANGED <<durable, starting, trans, isolated, made, losses, hit, ending, left>>

\* remove_save_point().
RemovedNot(p) == points  \* mutant: it finds nothing to remove
Removed(p) == [points EXCEPT ![owner[p]] = RemoveFirst(@, p)]

\* Erasing the end iterator of a vector, which is undefined.
EndsUnlisted(p) ==
    /\ Ends(p)
    /\ ~Listed(p)
    /\ crashed' = TRUE
    /\ UNCHANGED <<handle, session, points, owner, fate>>

DetachedNot(p) == owner  \* mutant: commit() keeps m_transaction
Detached(p) == [owner EXCEPT ![p] = Nobody]

\* commit(): the point leaves the list first; if the server then does not know
\* it, execute() throws and m_transaction stays set.
CommitSavePoint(p) ==
    /\ Ends(p)
    /\ Listed(p)
    /\ Executes
    /\ points' = Removed(p)
    /\ \/ /\ Known(p)
          /\ session' = ReleasePoint(p)
          /\ owner' = Detached(p)
          /\ fate' = [fate EXCEPT ![p] = "released"]
       \/ ~Known(p) /\ session' = Reached /\ UNCHANGED <<owner, fate>>
    /\ UNCHANGED crashed

\* The destructor rolls back to the point; if the server does not know it,
\* the exception of execute() leaves the destructor and ends the program.
DestroySavePoint(p) ==
    /\ Ends(p)
    /\ Listed(p)
    /\ Executes
    /\ points' = Removed(p)
    /\ session' = IF Known(p) THEN RollBackTo(p) ELSE Reached
    /\ crashed' = ~Known(p)
    /\ fate' = [fate EXCEPT ![p] = IF Known(p) THEN "undone" ELSE @]
    /\ owner' = [owner EXCEPT ![p] = Nobody]

-----------------------------------------------------------------------------
(* The user's writes and the server.                                        *)

\* A write belongs to the transaction object the user created last, among those
\* still open, and comes after the save points that object still lists.
WriteRow ==
    /\ Idle
    /\ Len(made) < MaxWrites
    /\ Executes
    /\ LET w == Len(made) + 1
           t == IF Open = {} THEN Nobody ELSE CHOOSE u \in Open : \A v \in Open : v <= u
       IN  /\ made' = Append(made,
                        [in |-> t, after |-> IF t = Nobody THEN {} ELSE ToSet(points[t])])
           /\ IF Reached.in_trx
              THEN /\ session' = [Reached EXCEPT !.log = Append(@, Write(w))]
                   /\ UNCHANGED durable
              ELSE session' = Reached /\ durable' = durable \cup {w}
    /\ UNCHANGED <<starting, objects, crashed, losses, user>>

\* disconnect(): mysql_close() and a null m_mysql, with transactions open or not.
\* The destructor of the connection calls it, too.
Disconnect ==
    /\ Idle
    /\ handle = "kept"
    /\ losses < MaxLosses
    /\ losses' = losses + 1
    /\ handle' \in {"null", "gone"}
    /\ session' = Lost
    /\ hit' = (hit \/ Open # {})
    /\ left' = left \cup ({t \in Transactions : trans[t] # "none"} \ ending)
    /\ UNCHANGED <<durable, starting, objects, made, crashed, ordered, ending>>

\* A save point, or a transaction creating one, follows the pointer to a
\* connection that was destroyed.
UseGone ==
    /\ Idle
    /\ handle = "gone"
    /\ \/ \E t \in Open, p \in SavePoints : fate[p] = "none"
       \/ \E p \in SavePoints : fate[p] \in {"held", "released"} /\ owner[p] # Nobody
    /\ crashed' = TRUE
    /\ UNCHANGED <<handle, session, durable, starting, objects, made, losses, user>>

\* The server ends the session and undoes what it holds.
Lose ==
    /\ session.live
    /\ ~crashed
    /\ losses < MaxLosses
    /\ session' = Lost
    /\ losses' = losses + 1
    /\ hit' = (hit \/ starting # Nobody \/ Open # {})
    /\ UNCHANGED <<handle, durable, starting, objects, made, crashed, ordered, ending, left>>

Next ==
    \/ \E t \in Transactions :
         \/ SetIsolation(t)
         \/ Commit(t)
         \/ DestroyTransaction(t)
         \/ EndOnNoHandle(t)
         \/ \E p \in SavePoints : CreateSavePoint(t, p)
    \/ Start
    \/ StartThrows
    \/ \E p \in SavePoints :
         \/ CommitSavePoint(p)
         \/ DestroySavePoint(p)
         \/ EndsUnlisted(p)
    \/ WriteRow
    \/ Disconnect
    \/ UseGone
    \/ Lose

Spec == Init /\ [][Next]_vars

-----------------------------------------------------------------------------
(* Properties                                                               *)

\* Every variable stays within its type.
TypeOK ==
    /\ handle \in {"null", "kept", "gone"}
    /\ session \in [live : BOOLEAN, in_trx : BOOLEAN, level : BOOLEAN,
                    log : Seq([point : {TRUE}, id : SavePoints]
                              \cup [point : {FALSE}, id : Writes \cup {0}])]
    /\ durable \subseteq Writes
    /\ starting \in Transactions \cup {Nobody}
    /\ trans \in [Transactions -> {"none", "open", "committed", "undone"}]
    /\ isolated \subseteq Transactions
    /\ points \in [Transactions -> Seq(SavePoints)]
    /\ owner \in [SavePoints -> Transactions \cup {Nobody}]
    /\ fate \in [SavePoints -> {"none", "held", "released", "undone"}]
    /\ made \in Seq([in : Transactions \cup {Nobody}, after : SUBSET SavePoints])
    /\ crashed \in BOOLEAN
    /\ losses \in 0 .. MaxLosses
    /\ {hit, ordered} \subseteq BOOLEAN
    /\ ending \subseteq Transactions /\ left \subseteq Transactions

\* "Commits the changes": commit() makes durable every write of the transaction
\* that no save point has undone.
CommitsAll ==
    \A w \in DOMAIN made :
        /\ made[w].in # Nobody
        /\ trans[made[w].in] = "committed"
        /\ \A p \in made[w].after : fate[p] # "undone"
        => w \in durable

\* "Any change to the database will be held back until you COMMIT": unless a loss
\* or disconnect() has hit a transaction, a write made in a transaction is durable
\* only when that transaction was committed, and then commit() loses nothing. And
\* whatever was lost, a write the server still holds belongs to a transaction object
\* that can still commit or undo it: nothing is left to the next one.
HeldBack ==
    /\ \A w \in Held : made[w].in \in Open
    /\ ~hit => /\ \A w \in durable :
                     made[w].in # Nobody => trans[made[w].in] = "committed"
               /\ CommitsAll

\* commit() and the destructor hand m_mysql to the client library unchecked: it
\* is missing only for a transaction the user neither committed nor destroyed
\* before he closed the connection himself. No loss, no reconnection and no end of
\* another object gets there, and a committed transaction may outlive its
\* connection.
EndIsSafe == \A t \in Open : handle # "kept" => t \in left

\* A write made after a save point that was destroyed is gone, whatever
\* happened to the points around it and to the session.
SavePointUndoes ==
    \A w \in Held \cup durable : \A p \in made[w].after : fate[p] # "undone"

\* While save points are ended in the reverse order and no loss hits a
\* transaction, the points it lists are those the server knows, in the same
\* order, but for points left behind by a rollback to them; so no destructor and
\* no commit() ends the program.
ListMirrorsServer ==
    ~hit /\ ordered =>
        /\ ~crashed
        /\ \A t \in Open :
            /\ ToSet(points[t]) =
                   {p \in SavePoints : fate[p] = "held" /\ Contains(session.log, Point(p))}
            /\ \A k, l \in DOMAIN points[t], i, j \in DOMAIN session.log :
                   /\ k < l
                   /\ session.log[i] = Point(points[t][k])
                   /\ session.log[j] = Point(points[t][l])
                   => i < j

\* A transaction lists only save points that exist and that point back to it,
\* each once, so that cleanup() never writes to a destroyed object, whatever the
\* order of destruction and the losses.
PointersValid ==
    \A t \in Transactions :
        /\ IsInjective(points[t])
        /\ \A p \in ToSet(points[t]) :
             fate[p] = "held" /\ owner[p] = t /\ trans[t] = "open"

\* A transaction object runs at the isolation level it was given, unless a loss
\* has hit one.
IsolationKept == hit \/ Open \subseteq isolated

\* The rollback of a destructor undoes only the writes of its own transaction,
\* unless a loss has hit one.
RollbackOwn ==
    [][\A t \in Transactions : ~hit /\ trans'[t] = "undone" /\ trans[t] = "open" =>
         \A w \in Held \ Held' : made[w].in = t]_vars
=============================================================================
