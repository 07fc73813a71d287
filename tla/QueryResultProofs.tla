------------------------- MODULE QueryResultProofs -------------------------
(***************************************************************************)
(* Proofs about QueryResult, for any results and any number of result      *)
(* sets, handles and losses: the types, who may use the link, and that     *)
(* every result set is the cursor of RowCursor.                            *)
(***************************************************************************)
EXTENDS QueryResult, TLAPS

-----------------------------------------------------------------------------
(* The buffer of a blob, whoever calls it: the bytes allocated are never    *)
(* fewer than the size, wherever the position is; so that create() and      *)
(* seek() bring back the rest, once the position was lost.                  *)

Buffers == [room : Nat, size : 0 .. Width - 1, position : 0 .. Width - 1]

StreamInv ==
    /\ buffer \in Buffers
    /\ misplaced \in BOOLEAN
    /\ strayed \in BOOLEAN
    /\ buffer.size <= buffer.room
    /\ ~misplaced => ~strayed /\ buffer.position <= buffer.size

LEMMA WidthPositive == Width \in Nat /\ Width > 0
BY DataAssumption

LEMMA SizesInRange == \A n \in Sizes : n \in Nat /\ n \in 0 .. Width - 1
BY DataAssumption

LEMMA BufferFields ==
    ASSUME NEW n \in 0 .. Width - 1
    PROVE  /\ Buffer(n) \in Buffers
           /\ Buffer(n).room = n /\ Buffer(n).size = n /\ Buffer(n).position = 0
BY WidthPositive DEF Buffer, Buffers

LEMMA BufferTypes ==
    ASSUME buffer \in Buffers
    PROVE  /\ buffer.room \in Nat
           /\ buffer.size \in Nat /\ buffer.size < Width
           /\ buffer.position \in Nat /\ buffer.position < Width
BY WidthPositive DEF Buffers

(* A difference that does not go below zero does not wrap around.          *)
LEMMA AmountLeft ==
    ASSUME buffer \in Buffers, buffer.position <= buffer.size
    PROVE  Amount = buffer.size - buffer.position
BY BufferTypes, WidthPositive DEF Amount

(* At most the amount that is left is moved.                               *)
LEMMA MovedBound ==
    ASSUME buffer \in Buffers, NEW n \in Sizes
    PROVE  /\ Moved(n) \in Nat
           /\ Moved(n) <= Amount
           /\ Moved(n) <= n
           /\ Moved(n) = 0 <=> n = 0 \/ Amount = 0
<1>1. Amount \in Nat
  BY BufferTypes, WidthPositive DEF Amount
<1>2. n \in Nat
  BY SizesInRange
<1> QED
  BY <1>1, <1>2 DEF Moved

LEMMA StreamInvImplies == StreamInv => StreamInBounds
<1> SUFFICES ASSUME StreamInv, ~misplaced, NEW n \in Sizes
             PROVE  /\ buffer.position + Moved(n) <= buffer.room
                    /\ Told(n) = -1 <=> n > 0 /\ buffer.position = buffer.size
  BY DEF StreamInv, StreamInBounds
<1>1. buffer \in Buffers /\ buffer.position <= buffer.size /\ buffer.size <= buffer.room
  BY DEF StreamInv
<1>2. {buffer.room, buffer.size, buffer.position, n} \subseteq Nat
  BY <1>1, BufferTypes, SizesInRange
<1>3. Amount = buffer.size - buffer.position
  BY <1>1, AmountLeft
<1>4. /\ Moved(n) \in Nat /\ Moved(n) <= Amount
      /\ Moved(n) = 0 <=> n = 0 \/ Amount = 0
  BY <1>1, MovedBound
<1>5. Told(n) = -1 <=> n # 0 /\ Moved(n) = 0
  BY <1>4 DEF Told
<1> QED
  BY <1>1, <1>2, <1>3, <1>4, <1>5

LEMMA StreamStarts == DataInit => StreamInv
<1>1. 0 \in 0 .. Width - 1
  BY WidthPositive
<1>2. DataInit => buffer \in Buffers /\ buffer.size <= buffer.room /\ buffer.position <= buffer.size
  BY <1>1, BufferFields DEF DataInit
<1>3. DataInit => misplaced \in BOOLEAN /\ strayed \in BOOLEAN /\ ~strayed
  BY Zenon DEF DataInit
<1> QED
  BY <1>2, <1>3, Zenon DEF StreamInv

(* A new array, of the data of a row or of a size the user asks for.       *)
LEMMA CreateKeeps ==
    ASSUME NEW n \in 0 .. Width - 1, StreamInv, ~strayed, Create(n)
    PROVE  StreamInv'
<1>1. /\ buffer' \in Buffers
      /\ buffer'.size <= buffer'.room /\ buffer'.position <= buffer'.size
  BY BufferFields DEF Create
<1>2. misplaced' \in BOOLEAN /\ strayed' \in BOOLEAN /\ ~strayed'
  BY Zenon DEF Create, StreamInv
<1> QED
  BY <1>1, <1>2, Zenon DEF StreamInv

LEMMA ResizeKeeps ==
    ASSUME NEW n \in Sizes, StreamInv, Resize(n)
    PROVE  StreamInv'
<1>1. n \in 0 .. Width - 1 /\ n \in Nat
  BY SizesInRange
<1>2. buffer \in Buffers /\ buffer.size <= buffer.room
  BY DEF StreamInv
<1>3. /\ buffer' \in Buffers
      /\ buffer'.size = n /\ buffer'.position = buffer.position
      /\ buffer'.room = IF n > buffer.size THEN n ELSE buffer.room
  BY <1>1, <1>2 DEF Resize, Buffers
<1>4. buffer'.size <= buffer'.room
  BY <1>1, <1>2, <1>3, BufferTypes
<1>5. misplaced' \in BOOLEAN /\ strayed' \in BOOLEAN
  BY DEF StreamInv, Resize
<1>6. ASSUME ~misplaced'
      PROVE  ~strayed' /\ buffer'.position <= buffer'.size
  <2>1. ~misplaced /\ ~(n < buffer.size) /\ ~strayed'
    BY <1>6, Zenon DEF StreamInv, Resize
  <2>2. buffer.position <= buffer.size
    BY <2>1, Zenon DEF StreamInv
  <2>3. buffer'.position <= buffer'.size
    BY <1>1, <1>2, <1>3, <2>1, <2>2, BufferTypes
  <2> QED
    BY <2>1, <2>3
<1> QED
  BY <1>3, <1>4, <1>5, <1>6 DEF StreamInv

LEMMA ReadOrWriteKeeps ==
    ASSUME NEW n \in Sizes, StreamInv, ReadOrWrite(n)
    PROVE  StreamInv'
<1>1. buffer \in Buffers /\ buffer.size <= buffer.room
  BY DEF StreamInv
<1>2. Moved(n) \in Nat /\ Moved(n) <= Amount
  BY <1>1, MovedBound
<1>3. buffer' = [buffer EXCEPT !.position = (@ + Moved(n)) % Width]
  BY DEF ReadOrWrite
<1>4. Amount \in Nat /\ (buffer.position + Moved(n)) % Width \in 0 .. Width - 1
  BY <1>1, <1>2, BufferTypes, WidthPositive DEF Amount
<1>5. buffer' \in Buffers /\ buffer'.size <= buffer'.room
  BY <1>1, <1>3, <1>4 DEF Buffers
<1>6. misplaced' \in BOOLEAN /\ strayed' \in BOOLEAN
  BY DEF ReadOrWrite, StreamInv
<1>7. ASSUME ~misplaced'
      PROVE  ~strayed' /\ buffer'.position <= buffer'.size
  <2>1. ~misplaced /\ ~strayed /\ buffer.position <= buffer.size
    BY <1>7 DEF ReadOrWrite, StreamInv
  <2>2. buffer.position + Moved(n) <= buffer.size
    BY <2>1, <1>1, <1>2, AmountLeft, BufferTypes
  <2>3. (buffer.position + Moved(n)) % Width = buffer.position + Moved(n)
    BY <2>2, <1>1, <1>2, BufferTypes, WidthPositive
  <2>4. ~strayed'
    <3>1. ~(buffer.position + Moved(n) > buffer.room)
      BY <2>2, <1>1, <1>2, BufferTypes
    <3> QED
      BY <2>1, <3>1, Zenon DEF ReadOrWrite
  <2> QED
    BY <2>2, <2>3, <2>4, <1>1, <1>3 DEF Buffers
<1> QED
  BY <1>5, <1>6, <1>7 DEF StreamInv

LEMMA SeekKeeps ==
    ASSUME StreamInv, ~strayed, Seek
    PROVE  StreamInv'
<1>1. PICK from \in {0, buffer.position, buffer.size}, offset \in Sizes :
        SeekTo(from + offset) \/ SeekTo(from - offset)
  BY DEF Seek
<1>2. from + offset \in Int /\ from - offset \in Int
  BY BufferTypes, SizesInRange DEF StreamInv
<1>3. ASSUME NEW pos \in Int, SeekTo(pos)
      PROVE  StreamInv'
  <2>1. /\ buffer \in Buffers /\ buffer.size <= buffer.room
        /\ 0 <= pos /\ pos <= buffer.size
        /\ buffer' = [buffer EXCEPT !.position = pos]
    BY <1>3 DEF StreamInv, SeekTo
  <2>2. pos \in 0 .. Width - 1
    BY <2>1, BufferTypes, WidthPositive
  <2>3. /\ buffer' \in Buffers /\ buffer'.size = buffer.size
        /\ buffer'.room = buffer.room /\ buffer'.position = pos
    BY <2>1, <2>2 DEF Buffers
  <2> QED
    BY <1>3, <2>1, <2>3 DEF StreamInv, SeekTo
<1> QED
  BY <1>1, <1>2, <1>3

LEMMA StreamSteps == StreamInv /\ [DataNext]_dataVars => StreamInv'
<1> SUFFICES ASSUME StreamInv, [DataNext]_dataVars
             PROVE  StreamInv'
  OBVIOUS
<1>1. CASE DataNext
  <2>1. CASE DefaultData
    <3>1. 0 \in 0 .. Width - 1
      BY WidthPositive
    <3>2. PICK p \in 0 .. Width - 1 : buffer' = [Buffer(0) EXCEPT !.position = p]
      BY <2>1 DEF DefaultData
    <3>3. buffer' \in Buffers /\ buffer'.size = 0 /\ buffer'.room = 0
      BY <3>1, <3>2, BufferFields DEF Buffers
    <3> QED
      BY <2>1, <3>3 DEF StreamInv, DefaultData
  <2>2. ASSUME NEW n \in Sizes, Create(n)
        PROVE  StreamInv'
    <3>1. n \in 0 .. Width - 1
      BY SizesInRange
    <3> QED
      BY <1>1, <2>2, <3>1, CreateKeeps DEF DataNext
  <2>3. ASSUME NEW n \in Sizes, Resize(n)
        PROVE  StreamInv'
    BY <2>3, ResizeKeeps
  <2>4. ASSUME NEW n \in Sizes, ReadOrWrite(n)
        PROVE  StreamInv'
    BY <2>4, ReadOrWriteKeeps
  <2>5. CASE Seek
    BY <1>1, <2>5, SeekKeeps DEF DataNext
  <2> QED
    BY <1>1, <2>1, <2>2, <2>3, <2>4, <2>5 DEF DataNext
<1>2. CASE UNCHANGED dataVars
  BY <1>2 DEF StreamInv, dataVars
<1> QED
  BY <1>1, <1>2

(* The streams of data.hpp: whatever is created, resized, read, written    *)
(* and sought, and in which order, the position of a stream that was set   *)
(* lies within the data, and reads and writes stay within the array.       *)
THEOREM StreamStaysInBounds == DataSpec => []StreamInBounds
<1>1. DataSpec => []StreamInv
  BY StreamStarts, StreamSteps, PTL DEF DataSpec
<1> QED
  BY <1>1, StreamInvImplies, PTL

-----------------------------------------------------------------------------
(* Result sets.                                                             *)

SetObjects ==
    [alive : BOOLEAN, rows : Results, has : BOOLEAN, at : Nat, fetched : BOOLEAN,
     handle : Nat, unbuffered : BOOLEAN, asked : Nat, lost : BOOLEAN, closed : BOOLEAN]

Typed ==
    /\ store \in BOOLEAN /\ owned \in BOOLEAN /\ crashed \in BOOLEAN
    /\ mysql \in {0, handles}
    /\ handles \in 0 .. MaxHandles
    /\ link \in [alive : BOOLEAN, reader : Sets \cup {Nobody}, more : BOOLEAN]
    /\ holds \in [set : Sets, row : Nat] \cup {Nothing}
    /\ sets \in [Sets -> SetObjects]
    /\ losses \in 0 .. MaxLosses

\* What a result set says of itself, and of its place on the link: it is the reader
\* while it has a handle, which is the one of the connection unless the user closed
\* that one; the row it shows is then in the receive buffer.
SetInv(s) ==
    /\ sets[s].at <= End(s) /\ sets[s].asked <= End(s)
    /\ sets[s].handle <= handles
    /\ sets[s].fetched => 1 <= sets[s].at /\ sets[s].at < End(s)
    /\ ~sets[s].alive => sets[s] = Destroyed
    /\ sets[s].handle # 0 => sets[s].alive /\ sets[s].unbuffered
    /\ sets[s].handle # 0 /\ ~sets[s].closed => sets[s].handle = mysql /\ link.reader = s
    /\ sets[s].closed => sets[s].handle \notin {0, mysql}
    /\ sets[s].unbuffered /\ sets[s].handle = 0 => sets[s].at = End(s)
    /\ sets[s].unbuffered /\ sets[s].fetched => sets[s].handle # 0
    /\ sets[s].unbuffered /\ sets[s].fetched /\ ~sets[s].closed =>
          holds = [set |-> s, row |-> sets[s].at]
    /\ sets[s].alive /\ ~sets[s].has => sets[s].rows = <<>> \/ sets[s].lost

ReaderInv ==
    link.reader # Nobody =>
        /\ mysql # 0 /\ sets[link.reader].alive /\ sets[link.reader].handle = mysql
        /\ ~link.alive => sets[link.reader].lost

IInv == Typed /\ (\A s \in Sets : SetInv(s)) /\ ReaderInv

-----------------------------------------------------------------------------
(* Lemmas about results, and about the updates of a result set.             *)

LEMMA Rows ==
    ASSUME NEW r \in Results
    PROVE  /\ Len(r) \in Nat /\ DOMAIN r = 1 .. Len(r)
           /\ \A i \in DOMAIN r : r[i] # NoRow /\ (r[i] = Null \/ Len(r[i]) \in 0 .. Width - 1)
           /\ r # NoResult
<1>1. r \in Seq({r[i] : i \in DOMAIN r} \ {NoRow})
  BY QueryResultAssumption
<1>2. \A i \in DOMAIN r : r[i] # NoRow
  BY <1>1
<1> QED
  BY <1>1, <1>2, QueryResultAssumption

LEMMA Objects ==
    ASSUME Typed, NEW s \in Sets
    PROVE  /\ sets[s] \in SetObjects
           /\ End(s) \in Nat /\ End(s) >= 1 /\ DOMAIN sets[s].rows = 1 .. End(s) - 1
           /\ Len(sets[s].rows) = End(s) - 1 /\ sets[s].rows \in Results
           /\ sets[s].at \in Nat /\ sets[s].handle \in Nat /\ sets[s].asked \in Nat
<1>1. sets[s] \in SetObjects
  BY DEF Typed
<1>2. sets[s].rows \in Results
  BY <1>1 DEF SetObjects
<1> QED
  BY <1>1, <1>2, Rows DEF SetObjects, End

LEMMA Bounds ==
    /\ MaxSets \in Nat /\ MaxHandles \in Nat /\ MaxLosses \in Nat
    /\ \A s \in Sets : s # Nobody
BY QueryResultAssumption DEF Sets, Nobody

LEMMA NewSets ==
    ASSUME NEW r \in Results, NEW has \in BOOLEAN, NEW h \in Nat, NEW lost \in BOOLEAN
    PROVE  /\ NewSet(r, has, h, lost) \in SetObjects
           /\ Destroyed \in SetObjects
BY QueryResultAssumption DEF NewSet, Destroyed, SetObjects

LEMMA Arrived ==
    ASSUME Typed, NEW s \in Sets, NEW i \in 0 .. End(s), NEW asked \in 0 .. End(s),
           Arrive(s, i, asked)
    PROVE  /\ sets' \in [Sets -> SetObjects]
           /\ \A e \in Sets \ {s} : sets'[e] = sets[e]
           /\ sets'[s].at = i /\ sets'[s].asked = asked /\ (sets'[s].fetched <=> i < End(s))
           /\ sets'[s].alive = sets[s].alive /\ sets'[s].rows = sets[s].rows
           /\ sets'[s].has = sets[s].has /\ sets'[s].handle = sets[s].handle
           /\ sets'[s].unbuffered = sets[s].unbuffered
           /\ sets'[s].lost = sets[s].lost /\ sets'[s].closed = sets[s].closed
           /\ End(s)' = End(s)
<1>1. End(s) \in Nat
  BY Objects
<1>2. sets \in [Sets -> SetObjects] /\ (i < End(s)) \in BOOLEAN /\ i \in Nat /\ asked \in Nat
  BY <1>1 DEF Typed
<1>3. sets' = [sets EXCEPT ![s] = [sets[s] EXCEPT !.at = i, !.asked = asked,
                                                  !.fetched = i < End(s)]]
  BY <1>2 DEF Arrive, SetObjects
<1> QED
  BY <1>2, <1>3 DEF SetObjects, End

LEMMA FollowingInRange ==
    ASSUME Typed, NEW s \in Sets, SetInv(s)
    PROVE  /\ Following(s) \in 1 .. End(s)
           /\ 0 \in 0 .. End(s) /\ End(s) \in 0 .. End(s)
           /\ Following(s) = IF sets[s].at <= Len(sets[s].rows) THEN sets[s].at + 1
                             ELSE sets[s].at
BY Objects DEF Following, SetInv

\* A result set that is not touched stays as it was, as long as the link is not
\* taken from it.
LEMMA OtherKeeps ==
    ASSUME Typed, Typed', NEW e \in Sets, SetInv(e), sets'[e] = sets[e],
           handles' >= handles,
           mysql' = mysql \/ mysql' = 0 \/ mysql' > handles,
           link.reader # e \/ (link'.reader = link.reader /\ UNCHANGED <<holds, mysql>>)
    PROVE  SetInv(e)'
<1>1. /\ sets[e].handle \in Nat /\ handles \in Nat /\ handles' \in Nat /\ mysql' \in Nat
      /\ End(e)' = End(e)
  BY Objects, Bounds DEF Typed, End
<1> QED
  BY <1>1 DEF SetInv

LEMMA CommandKeeps ==
    ASSUME IInv, Typed', Command, NEW e \in Sets, sets'[e] = sets[e]
    PROVE  SetInv(e)'
<1>1. link.reader # e
  BY Bounds DEF Command, Refused
<1>2. /\ handles' >= handles
      /\ mysql' = mysql \/ mysql' > handles
  BY Bounds DEF Command, IInv, Typed
<1> QED
  BY <1>1, <1>2, OtherKeeps DEF IInv

LEMMA CommandTypes ==
    ASSUME IInv, Command
    PROVE  /\ store' \in BOOLEAN /\ owned' \in BOOLEAN /\ crashed' \in BOOLEAN
           /\ mysql' \in {0, handles'} /\ handles' \in 0 .. MaxHandles
           /\ mysql' # 0 /\ mysql' \in Nat
           /\ holds' = Nothing
           /\ store' = store
BY Bounds DEF IInv, Typed, Command

-----------------------------------------------------------------------------
(* The steps of the connection.                                             *)

LEMMA Links ==
    /\ Quiet \in [alive : BOOLEAN, reader : Sets \cup {Nobody}, more : BOOLEAN]
    /\ Down \in [alive : BOOLEAN, reader : Sets \cup {Nobody}, more : BOOLEAN]
    /\ Quiet.reader = Nobody /\ Down.reader = Nobody
BY DEF Quiet, Down

LEMMA InvInit == Init => IInv
<1> SUFFICES ASSUME Init PROVE IInv
  OBVIOUS
<1>1. <<>> \in Results /\ Len(<<>>) = 0
  BY QueryResultAssumption
<1>2. /\ Destroyed \in SetObjects /\ Destroyed.rows = <<>> /\ ~Destroyed.alive
      /\ Destroyed.at = 0 /\ Destroyed.asked = 0 /\ Destroyed.handle = 0
      /\ ~Destroyed.fetched /\ ~Destroyed.unbuffered /\ ~Destroyed.closed
  BY <1>1, NewSets DEF Destroyed, NewSet
<1>3. \A s \in Sets : SetInv(s)
  BY <1>1, <1>2 DEF Init, SetInv, End
<1>4. Typed
  <2>1. sets \in [Sets -> SetObjects]
    BY <1>2 DEF Init
  <2>2. 0 \in 0 .. MaxHandles /\ 0 \in 0 .. MaxLosses
    BY Bounds
  <2>3. store \in BOOLEAN /\ owned \in BOOLEAN /\ crashed \in BOOLEAN
    BY DEF Init
  <2> QED
    BY <2>1, <2>2, <2>3, Links DEF Init, Typed
<1>5. ReaderInv
  BY Links DEF Init, ReaderInv
<1> QED
  BY <1>3, <1>4, <1>5 DEF IInv

LEMMA InvExecute ==
    ASSUME IInv, Execute
    PROVE  IInv'
<1>1. Typed'
  BY CommandTypes, Links DEF Execute, IInv, Typed
<1>2. \A e \in Sets : SetInv(e)'
  BY <1>1, CommandKeeps DEF Execute
<1>3. ReaderInv'
  BY Links DEF Execute, ReaderInv
<1> QED
  BY <1>1, <1>2, <1>3 DEF IInv

\* The link is closed, or lost, under a result set.
LEMMA IsClosed ==
    ASSUME NEW o \in SetObjects, NEW n, n = [o EXCEPT !.closed = TRUE]
    PROVE  /\ n \in SetObjects
           /\ n.at = o.at /\ n.asked = o.asked /\ n.fetched = o.fetched
           /\ n.alive = o.alive /\ n.handle = o.handle /\ n.unbuffered = o.unbuffered
           /\ n.has = o.has /\ n.rows = o.rows
           /\ n.closed = TRUE /\ n.lost = o.lost
BY DEF SetObjects

LEMMA IsLost ==
    ASSUME NEW o \in SetObjects, NEW n, n = [o EXCEPT !.lost = TRUE]
    PROVE  /\ n \in SetObjects
           /\ n.at = o.at /\ n.asked = o.asked /\ n.fetched = o.fetched
           /\ n.alive = o.alive /\ n.handle = o.handle /\ n.unbuffered = o.unbuffered
           /\ n.has = o.has /\ n.rows = o.rows
           /\ n.lost = TRUE /\ n.closed = o.closed
BY DEF SetObjects

\* The rows of a result set have ended, and with them its use of the link.
Ended(o, end, n) ==
    /\ n.at = end /\ n.asked = 0 /\ n.fetched = FALSE /\ n.handle = 0
    /\ n.alive = o.alive /\ n.has = o.has /\ n.rows = o.rows
    /\ n.unbuffered = o.unbuffered /\ n.lost = o.lost /\ n.closed = o.closed

LEMMA IsEnded ==
    ASSUME NEW o \in SetObjects, NEW end \in Nat, NEW n,
           n = [o EXCEPT !.at = end, !.asked = 0, !.fetched = FALSE, !.handle = 0]
    PROVE  Ended(o, end, n) /\ n \in SetObjects
BY DEF SetObjects, Ended

\* A new result set shows no row; one on the link is its reader.
LEMMA InvNewSet ==
    ASSUME IInv, Command, NEW s \in Sets, NEW r \in Results, NEW has \in BOOLEAN,
           NEW lost \in BOOLEAN, NEW h \in {0, mysql'},
           sets' = [sets EXCEPT ![s] = NewSet(r, has, h, lost)],
           link' \in [alive : BOOLEAN, reader : {IF h = 0 THEN Nobody ELSE s}, more : BOOLEAN],
           h # 0 => link'.alive,
           has \/ r = <<>> \/ lost,
           losses' \in 0 .. MaxLosses
    PROVE  IInv'
<1>1. NewSet(r, has, h, lost) \in SetObjects
  BY NewSets, CommandTypes
<1>2. Typed'
  BY <1>1, CommandTypes DEF IInv, Typed
<1>3. ASSUME NEW e \in Sets, e # s PROVE SetInv(e)'
  <2>1. sets'[e] = sets[e]
    BY <1>3 DEF IInv, Typed
  <2> QED
    BY <1>2, <2>1, CommandKeeps
<1>4. sets'[s] = NewSet(r, has, h, lost)
  BY DEF IInv, Typed
<1>5. SetInv(s)'
  <2>1. /\ sets'[s].at = 0 /\ sets'[s].asked = 0 /\ ~sets'[s].fetched /\ sets'[s].alive
        /\ sets'[s].handle = h /\ sets'[s].unbuffered = (h # 0) /\ ~sets'[s].closed
        /\ sets'[s].has = has /\ sets'[s].rows = r /\ sets'[s].lost = lost
    BY <1>4 DEF NewSet
  <2>2. End(s)' \in Nat /\ h <= handles' /\ h \in Nat
    <3>1. End(s)' \in Nat
      BY <2>1, Rows DEF End
    <3> QED
      BY <3>1, CommandTypes
  <2>3. h # 0 => link'.reader = s /\ h = mysql'
    OBVIOUS
  <2>4. /\ sets'[s].at <= End(s)' /\ sets'[s].asked <= End(s)'
    <3>1. End(s)' >= 0
      BY <2>2
    <3> QED
      BY <2>1, <3>1
  <2>5. h = 0 => ~sets'[s].unbuffered
    BY <2>1
  <2> QED
    BY <2>1, <2>2, <2>3, <2>4, <2>5 DEF SetInv
<1>6. ReaderInv'
  <2>1. link'.reader # Nobody => h # 0 /\ link'.reader = s /\ link'.alive
    BY Bounds
  <2>2. sets'[s].alive /\ sets'[s].handle = h
    BY <1>4 DEF NewSet
  <2> QED
    BY <2>1, <2>2 DEF ReaderInv
<1> QED
  BY <1>2, <1>3, <1>5, <1>6 DEF IInv

LEMMA InvQuery ==
    ASSUME IInv, NEW s \in Sets, NEW r \in Results, Query(s, r)
    PROVE  IInv'
<1>1. PICK more \in BOOLEAN :
        \/ /\ sets' = [sets EXCEPT ![s] = NewSet(r, TRUE, 0, FALSE)]
           /\ link' = [Quiet EXCEPT !.more = more]
        \/ /\ sets' = [sets EXCEPT ![s] = NewSet(r, TRUE, mysql', FALSE)]
           /\ link' = [Quiet EXCEPT !.more = more, !.reader = s]
        \/ /\ r = <<>>
           /\ sets' = [sets EXCEPT ![s] = NewSet(r, FALSE, 0, FALSE)]
           /\ link' = [Quiet EXCEPT !.more = more]
  BY DEF Query
<1>2. Command /\ losses' \in 0 .. MaxLosses
  BY DEF Query, IInv, Typed
<1>3. mysql' # 0
  BY <1>2, CommandTypes
<1>4. /\ [Quiet EXCEPT !.more = more]
            \in [alive : BOOLEAN, reader : {Nobody}, more : BOOLEAN]
      /\ [Quiet EXCEPT !.more = more, !.reader = s]
            \in [alive : BOOLEAN, reader : {s}, more : BOOLEAN]
      /\ [Quiet EXCEPT !.more = more, !.reader = s].alive
  BY DEF Quiet
<1>5. CASE /\ sets' = [sets EXCEPT ![s] = NewSet(r, TRUE, 0, FALSE)]
           /\ link' = [Quiet EXCEPT !.more = more]
  BY <1>2, <1>4, <1>5, InvNewSet
<1>6. CASE /\ sets' = [sets EXCEPT ![s] = NewSet(r, TRUE, mysql', FALSE)]
           /\ link' = [Quiet EXCEPT !.more = more, !.reader = s]
  <2>1. link'.alive /\ link' \in [alive : BOOLEAN, reader : {s}, more : BOOLEAN]
    BY <1>4, <1>6
  <2> QED
    BY <1>2, <1>3, <1>6, <2>1, InvNewSet
<1>7. CASE /\ r = <<>>
           /\ sets' = [sets EXCEPT ![s] = NewSet(r, FALSE, 0, FALSE)]
           /\ link' = [Quiet EXCEPT !.more = more]
  BY <1>2, <1>4, <1>7, InvNewSet
<1> QED
  BY <1>1, <1>5, <1>6, <1>7

LEMMA LossCounted ==
    ASSUME Typed, losses < MaxLosses, losses' = losses + 1
    PROVE  losses' \in 0 .. MaxLosses
BY Bounds DEF Typed

LEMMA InvQueryCutOff ==
    ASSUME IInv, NEW s \in Sets, NEW r \in Results, QueryCutOff(s, r)
    PROVE  IInv'
<1>1. Down \in [alive : BOOLEAN, reader : {Nobody}, more : BOOLEAN]
  BY DEF Down, Quiet
<1>2. losses' \in 0 .. MaxLosses
  BY LossCounted DEF QueryCutOff, IInv
<1> QED
  BY <1>1, <1>2, InvNewSet DEF QueryCutOff

\* The result sets on the link are closed, and no longer show a row.
LEMMA InvDisconnect ==
    ASSUME IInv, Disconnect
    PROVE  IInv'
<1>1. ASSUME NEW s \in Sets, sets[s].handle # 0
      PROVE  /\ sets'[s] \in SetObjects
             /\ sets'[s] = [sets[s] EXCEPT !.closed = TRUE]
  BY <1>1, Objects DEF Disconnect, IInv, SetObjects
<1>2. ASSUME NEW s \in Sets, sets[s].handle = 0
      PROVE  sets'[s] = sets[s]
  BY <1>2 DEF Disconnect
<1>3. sets' \in [Sets -> SetObjects]
  <2>1. \A s \in Sets : sets'[s] \in SetObjects
    BY <1>1, <1>2, Objects DEF IInv
  <2> QED
    BY <2>1 DEF Disconnect
<1>4. Typed'
  BY <1>3, Links DEF Disconnect, IInv, Typed
<1>5. ASSUME NEW s \in Sets, sets[s].handle # 0 PROVE SetInv(s)'
  <2>1. /\ sets'[s].at = sets[s].at /\ sets'[s].asked = sets[s].asked
        /\ sets'[s].fetched = sets[s].fetched /\ sets'[s].alive = sets[s].alive
        /\ sets'[s].handle = sets[s].handle /\ sets'[s].unbuffered = sets[s].unbuffered
        /\ sets'[s].closed /\ sets'[s].has = sets[s].has /\ sets'[s].rows = sets[s].rows
        /\ sets'[s].lost = sets[s].lost
    <3>1. /\ sets[s] \in SetObjects
          /\ sets'[s] = [sets[s] EXCEPT !.closed = TRUE]
      BY <1>1, <1>5, Objects DEF IInv
    <3> QED
      BY <3>1, IsClosed
  <2>2. SetInv(s) /\ End(s)' = End(s) /\ mysql' = 0 /\ handles' = handles
    BY <2>1 DEF IInv, End, Disconnect
  <2> QED
    BY <1>5, <2>1, <2>2 DEF SetInv
<1>6. ASSUME NEW s \in Sets, sets[s].handle = 0 PROVE SetInv(s)'
  <2>1. link.reader # s
    BY <1>6, Bounds DEF IInv, ReaderInv
  <2>2. handles' = handles /\ handles \in Nat /\ mysql' = 0
    BY Bounds DEF Disconnect, IInv, Typed
  <2> QED
    BY <1>2, <1>4, <1>6, <2>1, <2>2, OtherKeeps DEF IInv
<1>7. ReaderInv'
  BY Links DEF Disconnect, ReaderInv
<1> QED
  BY <1>4, <1>5, <1>6, <1>7 DEF IInv

LEMMA InvLose ==
    ASSUME IInv, Lose
    PROVE  IInv'
<1>1. ASSUME NEW s \in Sets, s = link.reader
      PROVE  /\ sets'[s] \in SetObjects
             /\ sets'[s] = [sets[s] EXCEPT !.lost = TRUE]
  BY <1>1, Objects DEF Lose, IInv, SetObjects
<1>2. ASSUME NEW s \in Sets, s # link.reader
      PROVE  sets'[s] = sets[s]
  BY <1>2 DEF Lose
<1>3. sets' \in [Sets -> SetObjects]
  <2>1. \A s \in Sets : sets'[s] \in SetObjects
    BY <1>1, <1>2, Objects DEF IInv
  <2> QED
    BY <2>1 DEF Lose
<1>4. /\ link' \in [alive : BOOLEAN, reader : Sets \cup {Nobody}, more : BOOLEAN]
      /\ link'.reader = link.reader
  BY DEF Lose, IInv, Typed
<1>5. Typed'
  BY <1>3, <1>4, LossCounted DEF Lose, IInv, Typed
<1>6. ASSUME NEW s \in Sets, s = link.reader
      PROVE  SetInv(s)' /\ sets'[s].alive = sets[s].alive /\ sets'[s].lost
             /\ sets'[s].handle = sets[s].handle
  <2>1. /\ sets'[s].at = sets[s].at /\ sets'[s].asked = sets[s].asked
        /\ sets'[s].fetched = sets[s].fetched /\ sets'[s].alive = sets[s].alive
        /\ sets'[s].handle = sets[s].handle /\ sets'[s].unbuffered = sets[s].unbuffered
        /\ sets'[s].closed = sets[s].closed /\ sets'[s].has = sets[s].has
        /\ sets'[s].rows = sets[s].rows /\ sets'[s].lost
    <3>1. /\ sets[s] \in SetObjects
          /\ sets'[s] = [sets[s] EXCEPT !.lost = TRUE]
      BY <1>1, <1>6, Objects DEF IInv
    <3> QED
      BY <3>1, IsLost
  <2>2. SetInv(s) /\ End(s)' = End(s) /\ UNCHANGED <<mysql, handles, holds>> /\ sets[s].alive
    BY <1>6, <2>1, Bounds DEF IInv, End, Lose, ReaderInv
  <2> QED
    BY <1>4, <1>6, <2>1, <2>2 DEF SetInv
<1>7. ASSUME NEW s \in Sets, s # link.reader PROVE SetInv(s)'
  <2>1. handles' = handles /\ handles \in Nat /\ mysql' = mysql
    BY Bounds DEF Lose, IInv, Typed
  <2> QED
    BY <1>2, <1>5, <1>7, <2>1, OtherKeeps DEF IInv
<1>8. ReaderInv'
  <2>1. link'.reader # Nobody => link'.reader \in Sets
    BY <1>4
  <2> QED
    BY <1>4, <1>6, <2>1 DEF ReaderInv, Lose, IInv
<1> QED
  BY <1>5, <1>6, <1>7, <1>8 DEF IInv

-----------------------------------------------------------------------------
(* The steps of the result sets.                                            *)

LEMMA InvCrash == IInv /\ Crash => IInv'
<1> SUFFICES ASSUME IInv, Crash PROVE IInv'
  OBVIOUS
<1>1. /\ UNCHANGED <<store, owned, mysql, handles, link, holds, sets, losses>>
      /\ crashed' \in BOOLEAN
  BY DEF Crash
<1> QED
  BY <1>1 DEF IInv, Typed, SetInv, ReaderInv, End

\* A result set that is not on the link moves.
LEMMA InvOffLink ==
    ASSUME IInv, NEW s \in Sets, Return(s), UNCHANGED <<link, holds>>,
           sets[s].handle = 0,
           NEW i \in 1 .. End(s), NEW asked \in 0 .. End(s), Arrive(s, i, asked),
           sets[s].unbuffered => i = End(s)
    PROVE  IInv'
<1>1. /\ sets' \in [Sets -> SetObjects]
      /\ \A e \in Sets \ {s} : sets'[e] = sets[e]
      /\ sets'[s].at = i /\ sets'[s].asked = asked /\ (sets'[s].fetched <=> i < End(s))
      /\ sets'[s].alive = sets[s].alive /\ sets'[s].rows = sets[s].rows
      /\ sets'[s].has = sets[s].has /\ sets'[s].handle = sets[s].handle
      /\ sets'[s].unbuffered = sets[s].unbuffered
      /\ sets'[s].lost = sets[s].lost /\ sets'[s].closed = sets[s].closed
      /\ End(s)' = End(s)
  <2>1. i \in 0 .. End(s)
    OBVIOUS
  <2> QED
    BY <2>1, Arrived DEF IInv
<1>2. UNCHANGED <<store, owned, mysql, handles, losses, crashed, link, holds>>
  BY DEF Return
<1>3. Typed'
  BY <1>1, <1>2 DEF IInv, Typed
<1>4. SetInv(s)'
  <2>1. SetInv(s) /\ End(s) \in Nat /\ sets[s].alive /\ asked <= End(s)
    BY Objects DEF IInv, Return
  <2>2. /\ sets'[s].fetched => 1 <= i /\ i < End(s)
        /\ sets[s].unbuffered => ~sets'[s].fetched
    BY <1>1, <2>1
  <2>3. ~sets[s].closed
    BY <2>1 DEF SetInv
  <2> HIDE DEF Return
  <2> QED
    BY <1>1, <1>2, <2>1, <2>2, <2>3 DEF SetInv
<1>5. ASSUME NEW e \in Sets, e # s PROVE SetInv(e)'
  BY <1>1, <1>2, <1>5 DEF SetInv, End, IInv
<1>6. ReaderInv'
  <2>1. link.reader # s /\ (link.reader # Nobody => link.reader \in Sets)
    BY Bounds DEF IInv, ReaderInv, Typed
  <2> QED
    BY <1>1, <1>2, <2>1 DEF ReaderInv, IInv
<1> QED
  BY <1>3, <1>4, <1>5, <1>6 DEF IInv

LEMMA InvNextStored ==
    ASSUME IInv, NEW s \in Sets, NextStored(s)
    PROVE  IInv'
<1>1. sets[s].handle = 0 /\ ~sets[s].unbuffered
  BY DEF IInv, SetInv, NextStored
<1>2. /\ Following(s) \in 1 .. End(s) /\ End(s) \in 1 .. End(s) /\ 0 \in 0 .. End(s)
  BY FollowingInRange, Objects DEF IInv
<1> QED
  BY <1>1, <1>2, InvOffLink DEF NextStored

LEMMA InvNextAfterEnd ==
    ASSUME IInv, NEW s \in Sets, NextAfterEnd(s)
    PROVE  IInv'
<1>1. End(s) \in 1 .. End(s) /\ 0 \in 0 .. End(s)
  BY Objects DEF IInv
<1> QED
  BY <1>1, InvOffLink DEF NextAfterEnd

LEMMA InvSetRowIndex ==
    ASSUME IInv, NEW s \in Sets, NEW index \in 0 .. Len(sets[s].rows), SetRowIndex(s, index)
    PROVE  IInv'
<1>1. sets[s].handle = 0 /\ ~sets[s].unbuffered
  BY DEF IInv, SetInv, SetRowIndex
<1>2. index + 1 \in 1 .. End(s) /\ index + 1 \in 0 .. End(s)
  BY Objects DEF IInv
<1> QED
  BY <1>1, <1>2, InvOffLink DEF SetRowIndex

LEMMA InvNextOnLink ==
    ASSUME IInv, NEW s \in Sets, NextOnLink(s)
    PROVE  IInv'
<1> DEFINE i == Following(s)
<1>0. i \in 1 .. End(s) /\ i < End(s) /\ 0 \in 0 .. End(s) /\ i \in 0 .. End(s) /\ i \in Nat
  BY FollowingInRange, Objects DEF IInv, NextOnLink
<1>1. Arrive(s, i, 0) /\ holds' = [set |-> s, row |-> i]
  BY DEF NextOnLink
<1> HIDE DEF i
<1>2. /\ sets' \in [Sets -> SetObjects]
      /\ \A e \in Sets \ {s} : sets'[e] = sets[e]
      /\ sets'[s].at = i /\ sets'[s].asked = 0 /\ (sets'[s].fetched <=> i < End(s))
      /\ sets'[s].alive = sets[s].alive /\ sets'[s].rows = sets[s].rows
      /\ sets'[s].has = sets[s].has /\ sets'[s].handle = sets[s].handle
      /\ sets'[s].unbuffered = sets[s].unbuffered
      /\ sets'[s].lost = sets[s].lost /\ sets'[s].closed = sets[s].closed
      /\ End(s)' = End(s)
  BY <1>0, <1>1, Arrived DEF IInv
<1>3. UNCHANGED <<store, owned, mysql, handles, losses, crashed, link>> /\ sets[s].alive
  BY DEF Return, NextOnLink
<1>4. Typed'
  BY <1>0, <1>1, <1>2, <1>3 DEF IInv, Typed
<1>5. SetInv(s) /\ sets[s].handle # 0 /\ sets[s].handle = mysql /\ link.reader = s
  BY DEF IInv, SetInv, NextOnLink
<1>6. SetInv(s)'
  <2>1. End(s) \in Nat
    BY Objects DEF IInv
  <2> QED
    BY <1>0, <1>1, <1>2, <1>3, <1>5, <2>1 DEF SetInv
<1>7. ASSUME NEW e \in Sets, e # s PROVE SetInv(e)'
  <2>1. sets'[e] = sets[e] /\ link.reader # e /\ handles \in Nat
    BY <1>2, <1>5, <1>7, Bounds DEF IInv, Typed
  <2> QED
    BY <1>3, <1>4, <2>1, OtherKeeps DEF IInv
<1>8. ReaderInv'
  BY <1>2, <1>3, <1>5 DEF ReaderInv, IInv
<1> QED
  BY <1>4, <1>6, <1>7, <1>8 DEF IInv

\* The reader gives up the link, at the end of its rows or when it is destroyed.
LEMMA InvLinkFreed ==
    ASSUME IInv, NEW s \in Sets, Return(s), sets[s].handle # 0, sets[s].handle = mysql,
           link' = [link EXCEPT !.reader = Nobody],
           holds' \in {holds, Nothing},
           NEW o \in SetObjects, sets' = [sets EXCEPT ![s] = o],
           o = Destroyed \/ Ended(sets[s], End(s), o)
    PROVE  IInv'
<1>1. UNCHANGED <<store, owned, mysql, handles, losses, crashed>> /\ handles \in Nat
  BY Bounds DEF Return, IInv, Typed
<1>2. /\ link' \in [alive : BOOLEAN, reader : Sets \cup {Nobody}, more : BOOLEAN]
      /\ link'.reader = Nobody
  BY DEF IInv, Typed
<1>3. Typed'
  BY <1>1, <1>2 DEF IInv, Typed
<1>4. SetInv(s) /\ link.reader = s /\ ~sets[s].closed /\ sets'[s] = o
  BY DEF IInv, SetInv, Typed
<1>5. SetInv(s)'
  <2>1. CASE o = Destroyed
    <3>1. /\ o.rows = <<>> /\ ~o.alive /\ o.at = 0 /\ o.asked = 0 /\ o.handle = 0
          /\ ~o.fetched /\ ~o.unbuffered /\ ~o.closed /\ Len(<<>>) = 0
      BY <2>1 DEF Destroyed, NewSet
    <3> QED
      BY <1>1, <1>4, <2>1, <3>1 DEF SetInv, End
  <2>2. CASE Ended(sets[s], End(s), o)
    <3>1. sets[s] \in SetObjects /\ End(s) \in Nat /\ End(s) >= 1
      BY Objects DEF IInv
    <3>2. /\ sets'[s].at = End(s) /\ sets'[s].asked = 0 /\ ~sets'[s].fetched
          /\ sets'[s].handle = 0 /\ sets'[s].alive = sets[s].alive
          /\ sets'[s].has = sets[s].has /\ sets'[s].rows = sets[s].rows
          /\ sets'[s].closed = sets[s].closed /\ sets'[s].lost = sets[s].lost
      BY <1>4, <2>2 DEF Ended
    <3>3. End(s)' = End(s)
      BY <3>2 DEF End
    <3>4. sets[s].alive
      BY DEF Return
    <3>5. /\ SetInv(s) /\ ~sets[s].closed /\ handles' = handles /\ 0 <= handles
      BY <1>1, <1>4
    <3>6. /\ sets'[s].at <= End(s)' /\ sets'[s].asked <= End(s)' /\ sets'[s].handle <= handles'
      BY <3>1, <3>2, <3>3, <3>5
    <3>7. ~sets'[s].closed /\ sets'[s].alive
      BY <3>2, <3>4, <3>5
    <3>8. ~sets'[s].has => sets'[s].rows = <<>> \/ sets'[s].lost
      BY <3>2, <3>4, <3>5 DEF SetInv
    <3> QED
      BY <3>2, <3>3, <3>6, <3>7, <3>8 DEF SetInv
  <2> QED
    BY <2>1, <2>2
<1>6. ASSUME NEW e \in Sets, e # s PROVE SetInv(e)'
  <2>1. sets'[e] = sets[e] /\ link.reader # e
    BY <1>4, <1>6 DEF IInv, Typed
  <2> QED
    BY <1>1, <1>3, <2>1, OtherKeeps DEF IInv
<1>7. ReaderInv'
  BY <1>2 DEF ReaderInv
<1> QED
  BY <1>3, <1>5, <1>6, <1>7 DEF IInv

LEMMA InvNextEnds ==
    ASSUME IInv, NEW s \in Sets, NextEnds(s)
    PROVE  IInv'
<1> DEFINE o == [sets[s] EXCEPT !.at = End(s), !.asked = 0, !.fetched = FALSE, !.handle = 0]
<1>1. sets[s] \in SetObjects /\ End(s) \in Nat
  BY Objects DEF IInv
<1>2. /\ o \in SetObjects /\ sets' = [sets EXCEPT ![s] = o]
      /\ Ended(sets[s], End(s), o)
  <2>1. Ended(sets[s], End(s), o) /\ o \in SetObjects
    BY <1>1, IsEnded
  <2>2. sets' = [sets EXCEPT ![s] = o]
    BY <1>1 DEF NextEnds, SetObjects
  <2> QED
    BY <2>1, <2>2
<1>3. /\ Return(s) /\ sets[s].handle # 0 /\ sets[s].handle = mysql /\ holds' = holds
      /\ link' = [link EXCEPT !.reader = Nobody]
  BY DEF NextEnds
<1> HIDE DEF o
<1> QED
  BY <1>2, <1>3, InvLinkFreed

LEMMA InvDestroy ==
    ASSUME IInv, NEW s \in Sets, Destroy(s)
    PROVE  IInv'
<1>1. Destroyed \in SetObjects
  BY NewSets, QueryResultAssumption
<1>2. CASE sets[s].handle # 0
  BY <1>1, <1>2, InvLinkFreed DEF Destroy
<1>3. CASE sets[s].handle = 0
  <2>1. /\ UNCHANGED <<store, owned, mysql, handles, losses, crashed, link, holds>>
        /\ sets' = [sets EXCEPT ![s] = Destroyed]
    BY <1>3 DEF Destroy, Return
  <2>2. Typed'
    BY <1>1, <2>1 DEF IInv, Typed
  <2>3. sets'[s] = Destroyed /\ \A e \in Sets \ {s} : sets'[e] = sets[e]
    BY <2>1 DEF IInv, Typed
  <2>4. SetInv(s)'
    <3>1. /\ Destroyed.rows = <<>> /\ ~Destroyed.alive /\ Destroyed.at = 0
          /\ Destroyed.asked = 0 /\ Destroyed.handle = 0 /\ ~Destroyed.fetched
          /\ ~Destroyed.unbuffered /\ ~Destroyed.closed /\ Len(<<>>) = 0
      BY DEF Destroyed, NewSet
    <3>2. handles' >= 0
      BY Bounds, <2>2 DEF Typed
    <3> QED
      BY <2>3, <3>1, <3>2 DEF SetInv, End
  <2>5. ASSUME NEW e \in Sets, e # s PROVE SetInv(e)'
    BY <2>1, <2>3, <2>5 DEF SetInv, End, IInv
  <2>6. ReaderInv'
    <3>1. link.reader # s /\ (link.reader # Nobody => link.reader \in Sets)
      BY <1>3, Bounds DEF IInv, ReaderInv, Typed
    <3> QED
      BY <2>1, <2>3, <3>1 DEF ReaderInv, IInv
  <2> QED
    BY <2>2, <2>4, <2>5, <2>6 DEF IInv
<1> QED
  BY <1>2, <1>3

LEMMA InvSame == IInv /\ UNCHANGED resultVars => IInv'
BY DEF resultVars, IInv, Typed, SetInv, ReaderInv, End

LEMMA InvNext == IInv /\ [Next]_vars => IInv'
<1> SUFFICES ASSUME IInv, [Next]_vars PROVE IInv'
  OBVIOUS
<1>1. CASE Execute
  BY <1>1, InvExecute
<1>2. CASE Disconnect
  BY <1>2, InvDisconnect
<1>3. CASE Lose
  BY <1>3, InvLose
<1>4. ASSUME NEW s \in Sets, NEW r \in Results, Query(s, r) \/ QueryCutOff(s, r)
      PROVE  IInv'
  BY <1>4, InvQuery, InvQueryCutOff
<1>5. ASSUME NEW s \in Sets, NextStored(s) \/ NextOnLink(s) \/ NextEnds(s) \/ NextAfterEnd(s)
      PROVE  IInv'
  BY <1>5, InvNextStored, InvNextOnLink, InvNextEnds, InvNextAfterEnd
<1>6. ASSUME NEW s \in Sets, NEW index \in 0 .. Len(sets[s].rows), SetRowIndex(s, index)
      PROVE  IInv'
  BY <1>6, InvSetRowIndex
<1>7. ASSUME NEW s \in Sets, UseNothing(s) \/ UseFreed(s) PROVE IInv'
  BY <1>7, InvCrash DEF UseNothing, UseFreed
<1>8. ASSUME NEW s \in Sets, Destroy(s) PROVE IInv'
  BY <1>8, InvDestroy
<1>9. ASSUME NEW s \in Sets, GetData(s) PROVE IInv'
  BY <1>9, InvSame DEF GetData
<1>10. CASE UNCHANGED resultVars
  BY <1>10, InvSame
<1> QED
  BY <1>1, <1>2, <1>3, <1>4, <1>5, <1>6, <1>7, <1>8, <1>9, <1>10 DEF Next, Step, vars

LEMMA ResultInvariance == Spec => []IInv
BY InvInit, InvNext, PTL DEF Spec

\* The variables of the connection and of its result sets keep their types.
THEOREM ResultTypes == Spec => []TypeOK
<1>1. ASSUME IInv PROVE TypeOK
  <2>1. ASSUME NEW s \in Sets
        PROVE  /\ sets[s].rows \in Results
               /\ {sets[s].at, sets[s].asked} \subseteq 0 .. End(s)
               /\ sets[s].handle \in 0 .. handles
               /\ sets[s].fetched => sets[s].at \in DOMAIN sets[s].rows
    <3>1. SetInv(s) /\ Typed /\ handles \in Nat
      BY <1>1, Bounds DEF IInv, Typed
    <3> QED
      BY <3>1, Objects DEF SetInv
  <2>2. {store, owned, crashed} \subseteq BOOLEAN
    BY <1>1 DEF IInv, Typed
  <2> QED
    BY <1>1, <2>1, <2>2 DEF IInv, Typed, TypeOK
<1> QED
  BY <1>1, ResultInvariance, PTL

\* The link has one reader, which the user has not destroyed; a result set whose
\* handle is not the one of the connection was closed by the user.
THEOREM OwnedByReader == Spec => []ReaderOwnsLink
<1>1. ASSUME IInv PROVE ReaderOwnsLink
  <2>1. ASSUME NEW s \in Sets, sets[s].handle # 0
        PROVE  /\ sets[s].handle = mysql => link.reader = s
               /\ sets[s].handle # mysql => sets[s].closed
    BY <1>1, <2>1 DEF IInv, SetInv
  <2> QED
    BY <1>1, <2>1 DEF IInv, ReaderInv, ReaderOwnsLink
<1> QED
  BY <1>1, ResultInvariance, PTL

-----------------------------------------------------------------------------
(* Every result set is a cursor.                                            *)

Result(s) == IF sets[s].alive THEN sets[s].rows ELSE NoResult
Shown(s) ==
    IF sets[s].alive /\ sets[s].fetched /\ ~sets[s].closed
    THEN sets[s].rows[sets[s].at]
    ELSE NoRow
Ruined(s) == sets[s].lost \/ sets[s].closed

\* The row in memory is the one the cursor shows.
LEMMA InMemoryShown ==
    ASSUME IInv, NEW s \in Sets
    PROVE  (IF Readable(s) /\ ~sets[s].closed THEN InMemory(s) ELSE NoRow) = Shown(s)
BY DEF IInv, SetInv, Readable, InMemory, Expected, Shown

LEMMA InMemoryShownNext ==
    ASSUME IInv', NEW s \in Sets
    PROVE  (IF Readable(s) /\ ~sets[s].closed THEN InMemory(s) ELSE NoRow)' = Shown(s)'
BY DEF IInv, SetInv, Readable, InMemory, Expected, Shown
\* The types of a result set and the bounds of its cursor.
LEMMA CursorTypes ==
    ASSUME IInv, NEW s \in Sets
    PROVE  /\ sets[s].rows \in Results /\ Len(sets[s].rows) \in Nat
           /\ DOMAIN sets[s].rows = 1 .. Len(sets[s].rows)
           /\ End(s) = Len(sets[s].rows) + 1
           /\ sets[s].at \in 0 .. End(s)
           /\ sets[s].rows # NoResult
           /\ sets[s].alive \in BOOLEAN /\ sets[s].fetched \in BOOLEAN
           /\ sets[s].lost \in BOOLEAN /\ sets[s].closed \in BOOLEAN
<1>1. sets[s] \in SetObjects /\ sets[s].rows \in Results /\ SetInv(s)
  BY Objects DEF IInv
<1>2. sets[s].at \in Nat /\ Len(sets[s].rows) \in Nat
  BY <1>1, Rows DEF SetObjects
<1> QED
  BY <1>1, <1>2, Rows DEF SetObjects, SetInv, End

\* What the steps of the cursor are for a result set.
LEMMA CursorInit ==
    ASSUME Init, NEW s \in Sets
    PROVE  Cursor(s)!Init
<1>1. sets[s] = Destroyed
  BY DEF Init
<1>2. ~Destroyed.alive /\ Destroyed.at = 0 /\ Destroyed.asked = 0 /\ ~Destroyed.lost
      /\ ~Destroyed.closed
  BY DEF Destroyed, NewSet
<1> QED
  BY <1>1, <1>2 DEF Cursor!Init, Cursor!Following, Readable

LEMMA CursorSame ==
    ASSUME IInv, IInv', NEW s \in Sets, sets'[s] = sets[s]
    PROVE  UNCHANGED Cursor(s)!cursor
<1>1. Shown(s)' = Shown(s) /\ Result(s)' = Result(s) /\ Ruined(s)' = Ruined(s)
  BY DEF Shown, Result, Ruined
<1>2. /\ (IF Readable(s) /\ ~sets[s].closed THEN InMemory(s) ELSE NoRow) = Shown(s)
      /\ (IF Readable(s) /\ ~sets[s].closed THEN InMemory(s) ELSE NoRow)' = Shown(s)'
  BY InMemoryShown, InMemoryShownNext
<1> QED
  BY <1>1, <1>2 DEF Cursor!cursor, Result, Ruined
\* A new result set opens a cursor.
LEMMA CursorOpens ==
    ASSUME IInv, IInv', NEW s \in Sets, ~sets[s].alive, NEW r \in Results,
           NEW has \in BOOLEAN, NEW h, NEW lost \in BOOLEAN, sets'[s] = NewSet(r, has, h, lost)
    PROVE  Cursor(s)!Next
<1>1. /\ sets'[s].alive /\ ~sets'[s].fetched /\ sets'[s].at = 0 /\ sets'[s].asked = 0
      /\ sets'[s].rows = r /\ sets'[s].lost = lost /\ ~sets'[s].closed
  BY DEF NewSet
<1>2. Cursor(s)!Open
  BY <1>1 DEF Cursor!Open, Cursor!Following, Readable
<1> QED
  BY <1>2 DEF Cursor!Next

\* next() and set_row_index(): the result set moves to row i, the row that was asked
\* for or the end of rows that were lost.
LEMMA CursorMoves ==
    ASSUME IInv, IInv', NEW s \in Sets, sets[s].alive, sets'[s].alive,
           NEW i \in 1 .. End(s), sets'[s].at = i, sets'[s].fetched <=> i < End(s),
           sets'[s].rows = sets[s].rows, sets'[s].lost = sets[s].lost,
           ~sets[s].closed, ~sets'[s].closed,
           \/ sets'[s].asked = 0 /\ i = Following(s)
           \/ sets'[s].asked = 0 /\ i = End(s) /\ sets[s].lost
           \/ sets'[s].asked = i
    PROVE  Cursor(s)!Next
<1>1. /\ Len(sets[s].rows) \in Nat /\ DOMAIN sets[s].rows = 1 .. Len(sets[s].rows)
      /\ End(s) = Len(sets[s].rows) + 1 /\ sets[s].rows # NoResult
      /\ SetInv(s) /\ Typed
  BY CursorTypes DEF IInv
<1>2. Shown(s)' = IF i \in DOMAIN sets[s].rows THEN sets[s].rows[i] ELSE NoRow
  BY <1>1 DEF Shown
<1>3. Cursor(s)!Show(i)
  BY <1>1, <1>2, InMemoryShownNext DEF Cursor!Show
<1>4. CASE sets'[s].asked = 0 /\ i = Following(s)
  <2>1. Cursor(s)!NextRow
    BY <1>1, <1>3, <1>4, FollowingInRange DEF Cursor!NextRow, Cursor!Following
  <2> QED
    BY <2>1 DEF Cursor!Next
<1>5. CASE sets'[s].asked = 0 /\ i = End(s) /\ sets[s].lost
  <2>1. Cursor(s)!EndEarly
    BY <1>1, <1>3, <1>5 DEF Cursor!EndEarly, Cursor!Following
  <2> QED
    BY <2>1 DEF Cursor!Next
<1>6. CASE sets'[s].asked = i
  <2>1. Cursor(s)!SetRowIndex
    BY <1>1, <1>3, <1>6 DEF Cursor!SetRowIndex
  <2> QED
    BY <2>1 DEF Cursor!Next
<1> QED
  BY <1>4, <1>5, <1>6
LEMMA CursorRuined ==
    ASSUME IInv, IInv', NEW s \in Sets, sets[s].alive, sets'[s].alive,
           sets'[s].at = sets[s].at, sets'[s].asked = sets[s].asked,
           sets'[s].rows = sets[s].rows, sets'[s].fetched = sets[s].fetched,
           \/ sets'[s].closed
           \/ sets'[s].lost /\ sets'[s].closed = sets[s].closed
    PROVE  Cursor(s)!Next
<1>1. /\ sets[s].rows # NoResult
      /\ (IF Readable(s) /\ ~sets[s].closed THEN InMemory(s) ELSE NoRow) = Shown(s)
      /\ (IF Readable(s) /\ ~sets[s].closed THEN InMemory(s) ELSE NoRow)' = Shown(s)'
  BY CursorTypes, InMemoryShown, InMemoryShownNext
<1>2. CASE sets'[s].closed
  <2>1. Shown(s)' = NoRow
    BY <1>2 DEF Shown
  <2>2. Cursor(s)!Abandon
    BY <1>1, <1>2, <2>1 DEF Cursor!Abandon
  <2> QED
    BY <2>2 DEF Cursor!Next
<1>3. CASE sets'[s].lost /\ sets'[s].closed = sets[s].closed
  <2>1. Shown(s)' = Shown(s)
    BY <1>3 DEF Shown
  <2>2. Cursor(s)!Lose
    BY <1>1, <1>3, <2>1 DEF Cursor!Lose
  <2> QED
    BY <2>2 DEF Cursor!Next
<1> QED
  BY <1>2, <1>3

LEMMA CursorCloses ==
    ASSUME IInv, IInv', NEW s \in Sets, sets'[s] = Destroyed
    PROVE  Cursor(s)!Next
<1>1. /\ ~sets'[s].alive /\ sets'[s].at = 0 /\ sets'[s].asked = 0 /\ ~sets'[s].lost
      /\ ~sets'[s].closed
  BY DEF Destroyed, NewSet
<1>2. Cursor(s)!Close
  BY <1>1 DEF Cursor!Close, Cursor!Following, Readable
<1> QED
  BY <1>2 DEF Cursor!Next

\* The steps of QueryResult, for one result set: its own steps, and those of the
\* connection and of the other result sets.
CursorStep(s) == [Cursor(s)!Next]_(Cursor(s)!cursor)

LEMMA CursorQuery ==
    ASSUME IInv, IInv', NEW s \in Sets, NEW q \in Sets, NEW r \in Results,
           Query(q, r) \/ QueryCutOff(q, r)
    PROVE  CursorStep(s)
<1>1. CASE q # s
  <2>1. sets'[s] = sets[s]
    BY <1>1 DEF Query, QueryCutOff, IInv, Typed
  <2> QED
    BY <2>1, CursorSame DEF CursorStep
<1>2. CASE q = s
  <2>1. /\ ~sets[s].alive
        /\ \E has, lost \in BOOLEAN, h \in {0, mysql'} : sets'[s] = NewSet(r, has, h, lost)
    BY <1>2 DEF Query, QueryCutOff, IInv, Typed
  <2> QED
    BY <2>1, CursorOpens DEF CursorStep
<1> QED
  BY <1>1, <1>2

LEMMA CursorDisconnect ==
    ASSUME IInv, IInv', NEW s \in Sets, Disconnect
    PROVE  CursorStep(s)
<1>1. CASE sets[s].handle = 0
  BY <1>1, CursorSame DEF Disconnect, CursorStep
<1>2. CASE sets[s].handle # 0
  <2>1. sets'[s] = [sets[s] EXCEPT !.closed = TRUE] /\ sets[s] \in SetObjects /\ sets[s].alive
    BY <1>2, Objects DEF Disconnect, IInv, SetInv
  <2>2. /\ sets'[s].at = sets[s].at /\ sets'[s].asked = sets[s].asked
        /\ sets'[s].fetched = sets[s].fetched /\ sets'[s].alive = sets[s].alive
        /\ sets'[s].rows = sets[s].rows /\ sets'[s].closed = TRUE
    BY <2>1, IsClosed
  <2> QED
    BY <2>1, <2>2, CursorRuined DEF CursorStep
<1> QED
  BY <1>1, <1>2

LEMMA CursorLose ==
    ASSUME IInv, IInv', NEW s \in Sets, Lose
    PROVE  CursorStep(s)
<1>1. CASE s # link.reader
  BY <1>1, CursorSame DEF Lose, CursorStep
<1>2. CASE s = link.reader
  <2>1. sets'[s] = [sets[s] EXCEPT !.lost = TRUE] /\ sets[s] \in SetObjects /\ sets[s].alive
    BY <1>2, Objects, Bounds DEF Lose, IInv, ReaderInv
  <2>2. /\ sets'[s].at = sets[s].at /\ sets'[s].asked = sets[s].asked
        /\ sets'[s].fetched = sets[s].fetched /\ sets'[s].alive = sets[s].alive
        /\ sets'[s].rows = sets[s].rows /\ sets'[s].lost = TRUE
        /\ sets'[s].closed = sets[s].closed
    BY <2>1, IsLost
  <2> QED
    BY <2>1, <2>2, CursorRuined DEF CursorStep
<1> QED
  BY <1>1, <1>2

\* A result set arrives at row i; the others stay.
LEMMA CursorArrive ==
    ASSUME IInv, IInv', NEW s \in Sets, NEW q \in Sets, sets[q].alive, ~sets[q].closed,
           NEW i \in 1 .. End(q), NEW asked \in 0 .. End(q), Arrive(q, i, asked),
           \/ asked = 0 /\ i = Following(q)
           \/ asked = 0 /\ i = End(q) /\ sets[q].lost
           \/ asked = i
    PROVE  CursorStep(s)
<1>1. /\ \A e \in Sets \ {q} : sets'[e] = sets[e]
      /\ sets'[q].at = i /\ sets'[q].asked = asked /\ (sets'[q].fetched <=> i < End(q))
      /\ sets'[q].alive = sets[q].alive /\ sets'[q].rows = sets[q].rows
      /\ sets'[q].lost = sets[q].lost /\ sets'[q].closed = sets[q].closed
  <2>1. i \in 0 .. End(q)
    OBVIOUS
  <2> QED
    BY <2>1, Arrived DEF IInv
<1>2. CASE s = q
  <2>1. Cursor(q)!Next
    BY <1>1, CursorMoves
  <2> QED
    BY <1>2, <2>1 DEF CursorStep
<1>3. CASE s # q
  BY <1>1, <1>3, CursorSame DEF CursorStep
<1> QED
  BY <1>2, <1>3

LEMMA CursorNext ==
    ASSUME IInv, IInv', NEW s \in Sets, NEW q \in Sets,
           NextStored(q) \/ NextOnLink(q) \/ NextAfterEnd(q)
    PROVE  CursorStep(s)
<1>1. /\ sets[q].alive /\ SetInv(q) /\ Typed
      /\ Following(q) \in 1 .. End(q) /\ 0 \in 0 .. End(q) /\ End(q) \in 1 .. End(q)
      /\ End(q) = Len(sets[q].rows) + 1 /\ Len(sets[q].rows) \in Nat
      /\ Following(q) = IF sets[q].at <= Len(sets[q].rows) THEN sets[q].at + 1 ELSE sets[q].at
      /\ sets[q].at \in 0 .. End(q)
  BY FollowingInRange, Objects, CursorTypes DEF IInv, NextStored, NextOnLink, NextAfterEnd, Return
<1>2. ~sets[q].closed
  BY <1>1 DEF SetInv, NextStored, NextOnLink, NextAfterEnd
<1>3. CASE NextStored(q)
  <2>1. CASE sets[q].has
    BY <1>1, <1>2, <1>3, <2>1, CursorArrive DEF NextStored
  <2>2. CASE ~sets[q].has
    <3>1. Arrive(q, End(q), 0)
      BY <1>3, <2>2 DEF NextStored
    <3>2. sets[q].lost \/ End(q) = Following(q)
      <4>1. sets[q].lost \/ sets[q].rows = <<>>
        BY <1>1, <2>2 DEF SetInv
      <4>2. sets[q].rows = <<>> => End(q) = 1
        BY <1>1
      <4> QED
        BY <1>1, <4>1, <4>2
    <3> QED
      BY <1>1, <1>2, <3>1, <3>2, CursorArrive
  <2> QED
    BY <2>1, <2>2
<1>4. CASE NextOnLink(q)
  BY <1>1, <1>2, <1>4, CursorArrive DEF NextOnLink
<1>5. CASE NextAfterEnd(q)
  <2>1. Arrive(q, End(q), 0)
    BY <1>5 DEF NextAfterEnd
  <2>2. End(q) = Following(q)
    <3>1. sets[q].at = End(q)
      BY <1>1, <1>5 DEF SetInv, NextAfterEnd
    <3> QED
      BY <1>1, <3>1
  <2> QED
    BY <1>1, <1>2, <2>1, <2>2, CursorArrive
<1> QED
  BY <1>3, <1>4, <1>5

LEMMA CursorNextEnds ==
    ASSUME IInv, IInv', NEW s \in Sets, NEW q \in Sets, NextEnds(q)
    PROVE  CursorStep(s)
<1> DEFINE o == [sets[q] EXCEPT !.at = End(q), !.asked = 0, !.fetched = FALSE, !.handle = 0]
<1>1. /\ sets[q] \in SetObjects /\ SetInv(q) /\ sets[q].alive /\ ~sets[q].closed
      /\ link.reader = q /\ End(q) \in Nat /\ End(q) >= 1
  BY Objects DEF IInv, SetInv, NextEnds, Return
<1>2. sets' = [sets EXCEPT ![q] = o]
  BY <1>1 DEF NextEnds, SetObjects
<1>3. Ended(sets[q], End(q), o)
  BY <1>1, IsEnded
<1>4. sets[q].lost \/ End(q) = Following(q)
  BY <1>1, Bounds DEF NextEnds, IInv, ReaderInv
<1> HIDE DEF o
<1>5. sets'[q] = o /\ \A e \in Sets \ {q} : sets'[e] = sets[e]
  BY <1>2 DEF IInv, Typed
<1>6. CASE s = q
  <2>1. End(q) \in 1 .. End(q) /\ ~(End(q) < End(q))
    BY <1>1
  <2>2. /\ sets'[q].at = End(q) /\ sets'[q].asked = 0 /\ ~sets'[q].fetched /\ sets'[q].alive
        /\ sets'[q].rows = sets[q].rows /\ sets'[q].lost = sets[q].lost /\ ~sets'[q].closed
    BY <1>1, <1>3, <1>5 DEF Ended
  <2>3. Cursor(q)!Next
    BY <1>1, <1>4, <2>1, <2>2, CursorMoves
  <2> QED
    BY <1>6, <2>3 DEF CursorStep
<1>7. CASE s # q
  BY <1>5, <1>7, CursorSame DEF CursorStep
<1> QED
  BY <1>6, <1>7

LEMMA CursorSetRowIndex ==
    ASSUME IInv, IInv', NEW s \in Sets, NEW q \in Sets,
           NEW index \in 0 .. Len(sets[q].rows), SetRowIndex(q, index)
    PROVE  CursorStep(s)
<1>1. /\ sets[q].alive /\ ~sets[q].closed /\ Arrive(q, index + 1, index + 1)
      /\ index + 1 \in 1 .. End(q) /\ index + 1 \in 0 .. End(q)
  BY Objects DEF IInv, SetInv, SetRowIndex, Return
<1> QED
  BY <1>1, CursorArrive

LEMMA CursorNextStep ==
    ASSUME IInv, IInv', [Next]_vars, NEW s \in Sets
    PROVE  CursorStep(s)
<1>1. ASSUME UNCHANGED sets PROVE CursorStep(s)
  BY <1>1, CursorSame DEF CursorStep
<1>2. CASE Execute
  BY <1>1, <1>2 DEF Execute
<1>3. CASE Disconnect
  BY <1>3, CursorDisconnect
<1>4. CASE Lose
  BY <1>4, CursorLose
<1>5. ASSUME NEW q \in Sets, NEW r \in Results, Query(q, r) \/ QueryCutOff(q, r)
      PROVE  CursorStep(s)
  BY <1>5, CursorQuery
<1>6. ASSUME NEW q \in Sets, NextStored(q) \/ NextOnLink(q) \/ NextEnds(q) \/ NextAfterEnd(q)
      PROVE  CursorStep(s)
  BY <1>6, CursorNext, CursorNextEnds
<1>7. ASSUME NEW q \in Sets, NEW index \in 0 .. Len(sets[q].rows), SetRowIndex(q, index)
      PROVE  CursorStep(s)
  BY <1>7, CursorSetRowIndex
<1>8. ASSUME NEW q \in Sets, UseNothing(q) \/ UseFreed(q) PROVE CursorStep(s)
  BY <1>1, <1>8 DEF UseNothing, UseFreed, Crash
<1>9. ASSUME NEW q \in Sets, Destroy(q) PROVE CursorStep(s)
  <2>1. sets'[q] = Destroyed /\ \A e \in Sets \ {q} : sets'[e] = sets[e]
    BY <1>9 DEF Destroy, IInv, Typed
  <2> QED
    BY <2>1, CursorCloses, CursorSame DEF CursorStep
<1>10. ASSUME NEW q \in Sets, GetData(q) PROVE CursorStep(s)
  BY <1>1, <1>10 DEF GetData, resultVars
<1>11. CASE UNCHANGED resultVars
  BY <1>1, <1>11 DEF resultVars
<1> QED
  BY <1>2, <1>3, <1>4, <1>5, <1>6, <1>7, <1>8, <1>9, <1>10, <1>11 DEF Next, Step, vars

\* Every result set shows its rows in turn and complete, until the next call, whatever
\* happens to the other result sets and to the connection; and ends them early only
\* after the link was lost: it implements the cursor of result_set.hpp.
THEOREM ResultSetsAreCursors == Spec => ImplementsCursor
<1>1. Init => \A s \in Sets : Cursor(s)!Init
  BY CursorInit
<1>2. IInv /\ IInv' /\ [Next]_vars =>
         [\A s \in Sets : [Cursor(s)!Next]_(Cursor(s)!cursor)]_vars
  BY CursorNextStep DEF CursorStep
<1> QED
  BY <1>1, <1>2, ResultInvariance, PTL DEF Spec, ImplementsCursor

-----------------------------------------------------------------------------
(* The buffers of get_data().                                               *)

LEMMA StreamStep == IInv /\ StreamInv /\ [Next]_vars => StreamInv'
<1> SUFFICES ASSUME IInv, StreamInv, [Next]_vars PROVE StreamInv'
  OBVIOUS
<1>1. ASSUME UNCHANGED dataVars PROVE StreamInv'
  BY <1>1, StreamSteps
<1>2. ASSUME NEW s \in Sets, GetData(s), ~strayed PROVE StreamInv'
  <2>1. InMemory(s) = Expected(s) /\ InMemory(s) # Null
    BY <1>2 DEF GetData, InMemory
  <2>2. sets[s].at \in DOMAIN sets[s].rows /\ sets[s].rows \in Results
    BY <1>2, Objects DEF IInv, SetInv, GetData, Readable
  <2>3. Len(InMemory(s)) \in 0 .. Width - 1
    BY <2>1, <2>2, Rows DEF Expected
  <2> QED
    BY <1>2, <2>3, CreateKeeps DEF GetData
<1>3. CASE DataNext
  BY <1>3, StreamSteps
<1>4. CASE Next
  BY <1>1, <1>2, <1>3, <1>4 DEF Next, Step, Execute, Disconnect, Lose, Query, QueryCutOff,
     Command, NextStored, NextOnLink, NextEnds, NextAfterEnd, SetRowIndex, Return,
     UseNothing, UseFreed, Crash, Destroy
<1> QED
  BY <1>1, <1>4 DEF vars

\* The stream of the data of a row stays within its buffer, too.
THEOREM RowDataInBounds == Spec => []StreamInBounds
<1>1. Init => StreamInv
  BY StreamStarts DEF Init
<1>2. Spec => []StreamInv
  BY <1>1, StreamStep, ResultInvariance, PTL DEF Spec
<1> QED
  BY <1>2, StreamInvImplies, PTL
=============================================================================
