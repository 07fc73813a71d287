-------------------------- MODULE TransactionProofs --------------------------
(***************************************************************************)
(* Proofs about Transaction, for any number of transactions, save points,  *)
(* writes and losses.                                                      *)
(***************************************************************************)
EXTENDS Transaction, SequenceTheorems, WellFoundedInduction, TLAPS

-----------------------------------------------------------------------------
(* Lemmas about the sequences of the model.                                 *)

LEMMA Bounds ==
    /\ MaxTransactions \in Nat /\ MaxSavePoints \in Nat /\ MaxWrites \in Nat
    /\ MaxLosses \in Nat
    /\ Transactions \subseteq Nat \ {0} /\ SavePoints \subseteq Nat \ {0}
    /\ Writes \subseteq Nat \ {0}
    /\ Nobody \notin Transactions
BY TransactionAssumption DEF Transactions, SavePoints, Writes, Nobody

\* What std::remove() and erase() do to a list that holds the element once.
LEMMA RemoveOne ==
    ASSUME NEW S, NEW s \in Seq(S), NEW e, Contains(s, e), IsInjective(s)
    PROVE  \E k \in 1 .. Len(s) :
             /\ s[k] = e
             /\ RemoveFirst(s, e) \in Seq(S)
             /\ Len(RemoveFirst(s, e)) = Len(s) - 1
             /\ \A i \in 1 .. Len(s) - 1 :
                   RemoveFirst(s, e)[i] = IF i < k THEN s[i] ELSE s[i + 1]
<1>1. PICK k \in 1 .. Len(s) : s[k] = e
  BY DEF Contains
<1>2. {i \in 1 .. Len(s) : s[i] = e} = {k}
  BY <1>1 DEF IsInjective
<1>3. SelectInSeq(s, LAMBDA v : v = e) = k
  <2>1. Min({k}) = k
    BY <1>1 DEF Min
  <2> QED
    BY <1>2, <2>1 DEF SelectInSeq
<1>4. RemoveFirst(s, e) = SubSeq(s, 1, k - 1) \o SubSeq(s, k + 1, Len(s))
  BY <1>1, <1>3 DEF RemoveFirst, RemoveAt
<1>5. /\ Len(s) \in Nat
      /\ SubSeq(s, 1, k - 1) \in Seq(S) /\ Len(SubSeq(s, 1, k - 1)) = k - 1
      /\ \A i \in 1 .. k - 1 : SubSeq(s, 1, k - 1)[i] = s[i]
  BY <1>1, SubSeqProperties
<1>6. /\ SubSeq(s, k + 1, Len(s)) \in Seq(S) /\ Len(SubSeq(s, k + 1, Len(s))) = Len(s) - k
      /\ \A i \in 1 .. Len(s) - k : SubSeq(s, k + 1, Len(s))[i] = s[k + i]
  BY <1>1, <1>5, SubSeqProperties
<1> DEFINE front == SubSeq(s, 1, k - 1)
           back == SubSeq(s, k + 1, Len(s))
<1> HIDE DEF front, back
<1>7. /\ front \o back \in Seq(S) /\ Len(front \o back) = Len(front) + Len(back)
      /\ \A i \in 1 .. Len(front) + Len(back) :
            (front \o back)[i] = IF i <= Len(front) THEN front[i] ELSE back[i - Len(front)]
  BY <1>5, <1>6, ConcatProperties DEF front, back
<1>8. RemoveFirst(s, e) = front \o back
  BY <1>4 DEF front, back
<1>9. /\ Len(front) = k - 1 /\ Len(back) = Len(s) - k
      /\ \A i \in 1 .. k - 1 : front[i] = s[i]
      /\ \A i \in 1 .. Len(s) - k : back[i] = s[k + i]
  BY <1>5, <1>6 DEF front, back
<1>10. ASSUME NEW i \in 1 .. Len(s) - 1
       PROVE  (front \o back)[i] = IF i < k THEN s[i] ELSE s[i + 1]
  <2>1. i \in 1 .. Len(front) + Len(back) /\ (i < k <=> i <= Len(front))
    BY <1>5, <1>9
  <2>2. CASE i < k
    BY <1>7, <1>9, <2>1, <2>2
  <2>3. CASE ~(i < k)
    <3>1. i - Len(front) \in 1 .. Len(s) - k /\ k + (i - Len(front)) = i + 1
      BY <1>5, <1>9, <2>3
    <3> QED
      BY <1>7, <1>9, <2>1, <2>3, <3>1
  <2> QED
    BY <2>2, <2>3
<1>11. /\ RemoveFirst(s, e) \in Seq(S) /\ Len(RemoveFirst(s, e)) = Len(s) - 1
       /\ \A i \in 1 .. Len(s) - 1 :
             RemoveFirst(s, e)[i] = IF i < k THEN s[i] ELSE s[i + 1]
  <2>1. Len(front) + Len(back) = Len(s) - 1
    BY <1>5, <1>9
  <2> QED
    BY <1>7, <1>8, <1>10, <2>1
<1> QED
  BY <1>1, <1>11

\* Among the transactions that are open there is a newest one.
LEMMA Newest ==
    ASSUME Open # {}
    PROVE  (CHOOSE u \in Open : \A v \in Open : v <= u) \in Open
<1> DEFINE Older == {MaxTransactions - u : u \in Open}
<1>1. Open \subseteq 1 .. MaxTransactions /\ MaxTransactions \in Nat
  BY Bounds DEF Open, Transactions
<1>2. Older \subseteq Nat /\ Older # {}
  <2>1. \A u \in Open : MaxTransactions - u \in Nat
    BY <1>1
  <2> QED
    BY <2>1
<1>3. PICK x \in Older : \A y \in Older : ~(<<y, x>> \in OpToRel(<, Nat))
  BY <1>2, NatLessThanWellFounded, WFMin
<1>4. \A y \in Older : ~(y < x)
  BY <1>2, <1>3 DEF OpToRel
<1>5. PICK u \in Open : x = MaxTransactions - u
  OBVIOUS
<1>6. \A v \in Open : v <= u
  <2> SUFFICES ASSUME NEW v \in Open PROVE v <= u
    OBVIOUS
  <2>1. MaxTransactions - v \in Older
    OBVIOUS
  <2> QED
    BY <1>1, <1>4, <1>5, <2>1
<1> QED
  BY <1>5, <1>6

-----------------------------------------------------------------------------
(* The inductive invariant.                                                 *)

Entries == [point : {TRUE}, id : SavePoints] \cup [point : {FALSE}, id : Writes \cup {0}]
Sessions == [live : BOOLEAN, in_trx : BOOLEAN, level : BOOLEAN, log : Seq(Entries)]
MadeWrites == [in : Transactions \cup {Nobody}, after : SUBSET SavePoints]

\* The lists and the pointers back agree (PointersValid).
PointsInv ==
    \A t \in Transactions :
        /\ IsInjective(points[t])
        /\ \A k \in DOMAIN points[t] :
              /\ fate[points[t][k]] = "held"
              /\ owner[points[t][k]] = t
              /\ trans[t] = "open"

\* The session and the transaction objects: only inside a transaction does it hold
\* anything, and then an object is open; unless a loss has hit one, an open object
\* is the only one, and the transaction of the session is its own.
SessionInv ==
    /\ ~session.in_trx => session.log = <<>>
    /\ ~session.live => ~session.in_trx
    /\ session.in_trx => Open # {}
    /\ starting # Nobody =>
         /\ trans[starting] = "none" /\ ~session.in_trx
         /\ ~hit => session.live /\ session.level
    /\ ~hit =>
         /\ Open # {} => session.live /\ session.in_trx /\ handle = "kept"
         /\ \A t, u \in Open : t = u
         /\ Open \subseteq isolated
    /\ ~crashed => Open \cap ending = {}
    /\ \A t \in ending : trans[t] # "none"
    /\ handle # "kept" => Open \subseteq left

\* The writes: what the save points of a write have become, and where the write is.
MadeInv ==
    /\ \A w \in DOMAIN made :
         /\ made[w].in # Nobody => trans[made[w].in] # "none"
         /\ \A p \in made[w].after : fate[p] # "none"
    /\ \A w \in durable : w \in DOMAIN made /\ \A p \in made[w].after : fate[p] # "undone"
    /\ ~hit => \A w \in DOMAIN made : made[w].in # Nobody =>
         /\ w \in durable => trans[made[w].in] = "committed"
         /\ (\A p \in made[w].after : fate[p] # "undone") =>
              /\ trans[made[w].in] = "open" => w \in durable \/ w \in Held
              /\ trans[made[w].in] = "committed" => w \in durable

\* What the session holds: points that exist, and writes of open transactions; the
\* order tells which writes come after which points.
IsWrite(e) == ~e.point /\ e.id # 0
LogInv ==
    \A i \in DOMAIN session.log :
        /\ session.log[i].point =>
             /\ fate[session.log[i].id] # "none"
             /\ \A w \in durable : session.log[i].id \notin made[w].after
             /\ \A j \in DOMAIN session.log : IsWrite(session.log[j]) =>
                  LET w == session.log[j].id
                      p == session.log[i].id
                  IN  /\ i < j /\ Contains(points[made[w].in], p) => p \in made[w].after
                      /\ j < i => p \notin made[w].after
        /\ IsWrite(session.log[i]) =>
             /\ session.log[i].id \in DOMAIN made
             /\ made[session.log[i].id].in \in Open
             /\ \A p \in made[session.log[i].id].after : fate[p] # "undone"

IInv == TypeOK /\ PointsInv /\ SessionInv /\ MadeInv /\ LogInv

LEMMA InvInit == Init => IInv
<1> SUFFICES ASSUME Init PROVE IInv
  OBVIOUS
<1>1. /\ <<>> \in Seq(Entries) /\ <<>> \in Seq(SavePoints) /\ <<>> \in Seq(MadeWrites)
      /\ DOMAIN <<>> = {}
  OBVIOUS
<1>2. session \in Sessions /\ session.log = <<>> /\ ~session.live /\ ~session.in_trx
  BY <1>1 DEF Init, Lost, Fresh, Sessions
<1>3. TypeOK
  <2>1. 0 \in 0 .. MaxLosses
    BY Bounds
  <2> QED
    BY <1>1, <1>2, <2>1 DEF Init, TypeOK, Sessions, Entries, MadeWrites
<1>4. PointsInv
  BY <1>1 DEF Init, PointsInv, IsInjective
<1>5. SessionInv
  BY <1>2 DEF Init, SessionInv, Open
<1>6. MadeInv
  BY <1>1 DEF Init, MadeInv
<1>7. LogInv
  BY <1>1, <1>2 DEF LogInv
<1> QED
  BY <1>3, <1>4, <1>5, <1>6, <1>7 DEF IInv

\* The types, field by field.
LEMMA Types ==
    ASSUME TypeOK
    PROVE  /\ session \in Sessions
           /\ session.live \in BOOLEAN /\ session.in_trx \in BOOLEAN
           /\ session.log \in Seq(Entries)
           /\ made \in Seq(MadeWrites)
BY DEF TypeOK, Sessions, Entries, MadeWrites

\* The session a command finds is typed, too, and holds nothing outside a transaction.
LEMMA ReachedIs ==
    ASSUME TypeOK, SessionInv
    PROVE  /\ Reached \in Sessions /\ Reached.live = TRUE
           /\ Reached.in_trx = session.in_trx
           /\ Reached.log = session.log /\ Reached.log \in Seq(Entries)
           /\ session.live => Reached = session
           /\ ~session.in_trx => session.log = <<>>
<1>1. Fresh \in Sessions /\ Fresh.live = TRUE /\ Fresh.in_trx = FALSE /\ Fresh.log = <<>>
  BY DEF Fresh, Sessions
<1> QED
  BY <1>1, Types DEF Reached, SessionInv, Sessions

\* What is left of the log of the session by every command that makes no save point
\* and writes nothing: a beginning of it, in which released points may leave gaps.
Thinned ==
    /\ session' \in Sessions
    /\ Len(session'.log) <= Len(session.log)
    /\ \A i \in 1 .. Len(session'.log) :
         session'.log[i] = session.log[i] \/ session'.log[i] = Gap

LEMMA PositionOf ==
    ASSUME IInv, NEW p \in SavePoints, Known(p)
    PROVE  /\ session.live /\ session.in_trx /\ Reached = session
           /\ Position(p) \in 1 .. Len(session.log)
           /\ session.log[Position(p)] = Point(p)
<1>1. \E i \in 1 .. Len(Reached.log) : Reached.log[i] = Point(p)
  BY DEF Known, Contains
<1>2. Position(p) \in 1 .. Len(Reached.log) /\ Reached.log[Position(p)] = Point(p)
  BY <1>1 DEF Position
<1>3. Reached.log = session.log /\ (~session.in_trx => session.log = <<>>)
  BY ReachedIs DEF IInv
<1>4. session.in_trx
  BY <1>1, <1>3
<1> QED
  BY <1>2, <1>3, <1>4, Types DEF Reached, SessionInv, IInv

LEMMA ReleaseThins ==
    ASSUME IInv, NEW p \in SavePoints, Known(p), session' = ReleasePoint(p)
    PROVE  /\ Thinned /\ session'.live /\ session'.in_trx = session.in_trx
           /\ Len(session'.log) = Len(session.log)
           /\ \A i \in 1 .. Len(session.log) :
                session'.log[i] = IF i >= Position(p) /\ session.log[i].point THEN Gap
                                  ELSE session.log[i]
<1>1. /\ session \in Sessions /\ session.log \in Seq(Entries) /\ Len(session.log) \in Nat
      /\ Reached = session /\ session.live
  BY Types, PositionOf DEF IInv
<1>2. Gap \in Entries
  BY DEF Gap, Entries
<1> DEFINE gaps == [i \in 1 .. Len(session.log) |->
                      IF i >= Position(p) /\ session.log[i].point THEN Gap ELSE session.log[i]]
<1>3. gaps \in Seq(Entries) /\ Len(gaps) = Len(session.log)
  <2>1. \A i \in 1 .. Len(session.log) : gaps[i] \in Entries
    BY <1>1, <1>2, ElementOfSeq
  <2>2. gaps \in [1 .. Len(session.log) -> Entries]
    BY <2>1
  <2> HIDE DEF gaps
  <2> QED
    BY <1>1, <2>2, SeqDef
<1>4. session' = [session EXCEPT !.log = gaps]
  BY <1>1 DEF ReleasePoint, Sessions
<1>5. \A i \in 1 .. Len(session.log) :
        gaps[i] = IF i >= Position(p) /\ session.log[i].point THEN Gap ELSE session.log[i]
  OBVIOUS
<1> HIDE DEF gaps
<1>6. session' \in Sessions /\ session'.log = gaps /\ session'.live = session.live
      /\ session'.in_trx = session.in_trx
  BY <1>1, <1>3, <1>4 DEF Sessions
<1> QED
  BY <1>1, <1>3, <1>5, <1>6 DEF Thinned

LEMMA RollBackThins ==
    ASSUME IInv, NEW p \in SavePoints, Known(p), session' = RollBackTo(p)
    PROVE  /\ Thinned /\ session'.live /\ session'.in_trx = session.in_trx
           /\ Len(session'.log) = Position(p)
           /\ \A i \in 1 .. Position(p) : session'.log[i] = session.log[i]
<1>1. /\ session \in Sessions /\ session.log \in Seq(Entries) /\ Len(session.log) \in Nat
      /\ Reached = session /\ session.live /\ Position(p) \in 1 .. Len(session.log)
  BY Types, PositionOf DEF IInv
<1>2. /\ UpTo(p) \in Seq(Entries) /\ Len(UpTo(p)) = Position(p)
      /\ \A i \in 1 .. Position(p) : UpTo(p)[i] = session.log[i]
  BY <1>1, SubSeqProperties DEF UpTo
<1>3. session' = [session EXCEPT !.log = UpTo(p)]
  BY <1>1 DEF RollBackTo
<1>4. session' \in Sessions /\ session'.log = UpTo(p) /\ session'.live = session.live
      /\ session'.in_trx = session.in_trx
  BY <1>1, <1>2, <1>3 DEF Sessions
<1> QED
  BY <1>1, <1>2, <1>4 DEF Thinned

LEMMA EmptyThins ==
    ASSUME TypeOK, session' \in Sessions, session'.log = <<>>
    PROVE  Thinned
BY Types DEF Thinned

LEMMA SameThins ==
    ASSUME TypeOK, session' \in Sessions, session'.log = session.log
    PROVE  Thinned
BY Types DEF Thinned

-----------------------------------------------------------------------------
(* Type correctness.                                                        *)

LEMMA SessionTypes ==
    ASSUME IInv, Next
    PROVE  session' \in Sessions
<1>1. session \in Sessions /\ Reached \in Sessions /\ Reached.log \in Seq(Entries)
  BY Types, ReachedIs DEF IInv
<1>2. Fresh \in Sessions /\ Lost \in Sessions /\ Ended \in Sessions
  <2>1. Fresh \in Sessions
    BY DEF Fresh, Sessions
  <2> QED
    BY <1>1, <2>1 DEF Lost, Ended, Sessions
<1>3. Leveled \in Sessions /\ Started \in Sessions
  BY <1>1 DEF Leveled, Started, Sessions
<1>4. \A e \in Entries : [Reached EXCEPT !.log = Append(@, e)] \in Sessions
  <2>1. \A e \in Entries : Append(Reached.log, e) \in Seq(Entries)
    BY <1>1
  <2> QED
    BY <1>1, <2>1 DEF Sessions
<1>5. ASSUME NEW t \in Transactions, SetIsolation(t) \/ Commit(t) \/ DestroyTransaction(t)
                                       \/ EndOnNoHandle(t)
      PROVE  session' \in Sessions
  BY <1>1, <1>2, <1>3, <1>5 DEF SetIsolation, Commit, DestroyTransaction, EndOnNoHandle
<1>6. ASSUME NEW t \in Transactions, NEW p \in SavePoints, CreateSavePoint(t, p)
      PROVE  session' \in Sessions
  <2>1. Point(p) \in Entries
    BY DEF Point, Name, Entries
  <2> QED
    BY <1>1, <1>4, <1>6, <2>1 DEF CreateSavePoint
<1>7. ASSUME NEW p \in SavePoints, CommitSavePoint(p)
      PROVE  session' \in Sessions
  BY <1>1, <1>7, ReleaseThins DEF CommitSavePoint, Thinned
<1>8. ASSUME NEW p \in SavePoints, DestroySavePoint(p)
      PROVE  session' \in Sessions
  BY <1>1, <1>8, RollBackThins DEF DestroySavePoint, Thinned
<1>9. CASE WriteRow
  <2>1. Len(made) + 1 \in Writes
    <3>1. Len(made) \in Nat
      BY Types DEF IInv
    <3> QED
      BY <1>9, <3>1, Bounds DEF WriteRow, Writes
  <2>2. Write(Len(made) + 1) \in Entries
    BY <2>1 DEF Write, Entries
  <2> QED
    BY <1>1, <1>4, <1>9, <2>2 DEF WriteRow
<1>10. ASSUME NEW p \in SavePoints, EndsUnlisted(p) PROVE session' \in Sessions
  BY <1>1, <1>10 DEF EndsUnlisted
<1>11. CASE Start \/ StartThrows \/ Disconnect \/ UseGone \/ Lose
  BY <1>1, <1>2, <1>3, <1>11 DEF Start, StartThrows, Disconnect, UseGone, Lose
<1> QED
  BY <1>5, <1>6, <1>7, <1>8, <1>9, <1>10, <1>11 DEF Next

\* A list that loses the point p, which it held once.
LEMMA RemovedIs ==
    ASSUME IInv, NEW p \in SavePoints, Ends(p), Listed(p)
    PROVE  /\ owner[p] \in Transactions /\ trans[owner[p]] = "open" /\ fate[p] = "held"
           /\ Removed(p) \in [Transactions -> Seq(SavePoints)]
           /\ \A t \in Transactions : t # owner[p] => Removed(p)[t] = points[t]
           /\ \E k \in 1 .. Len(points[owner[p]]) :
                /\ points[owner[p]][k] = p
                /\ Len(Removed(p)[owner[p]]) = Len(points[owner[p]]) - 1
                /\ \A i \in 1 .. Len(points[owner[p]]) - 1 :
                     Removed(p)[owner[p]][i] =
                        IF i < k THEN points[owner[p]][i] ELSE points[owner[p]][i + 1]
<1>1. PICK t \in Transactions : Contains(points[t], p)
  BY DEF Listed
<1>2. points[t] \in Seq(SavePoints) /\ points \in [Transactions -> Seq(SavePoints)]
  BY DEF IInv, TypeOK
<1>3. owner[p] = t /\ trans[t] = "open" /\ fate[p] = "held" /\ IsInjective(points[t])
  <2>1. PICK k \in 1 .. Len(points[t]) : points[t][k] = p
    BY <1>1 DEF Contains
  <2>2. k \in DOMAIN points[t]
    BY <1>2, <2>1
  <2> QED
    BY <2>1, <2>2 DEF IInv, PointsInv
<1>4. /\ RemoveFirst(points[t], p) \in Seq(SavePoints)
      /\ \E k \in 1 .. Len(points[t]) :
           /\ points[t][k] = p
           /\ Len(RemoveFirst(points[t], p)) = Len(points[t]) - 1
           /\ \A i \in 1 .. Len(points[t]) - 1 :
                RemoveFirst(points[t], p)[i] =
                   IF i < k THEN points[t][i] ELSE points[t][i + 1]
  BY <1>1, <1>2, <1>3, RemoveOne
<1>5. /\ Removed(p) \in [Transactions -> Seq(SavePoints)]
      /\ Removed(p)[t] = RemoveFirst(points[t], p)
      /\ \A u \in Transactions : u # t => Removed(p)[u] = points[u]
  BY <1>2, <1>3, <1>4 DEF Removed
<1> QED
  BY <1>3, <1>4, <1>5

LEMMA TypeNext ==
    ASSUME IInv, Next
    PROVE  TypeOK'
<1> USE DEF objects, user
<1>0. session' \in [live : BOOLEAN, in_trx : BOOLEAN, level : BOOLEAN,
                    log : Seq([point : {TRUE}, id : SavePoints]
                              \cup [point : {FALSE}, id : Writes \cup {0}])]
  BY SessionTypes DEF Sessions, Entries
<1>1. /\ TypeOK
      /\ hit \in BOOLEAN /\ ordered \in BOOLEAN /\ crashed \in BOOLEAN
      /\ MaxLosses \in Nat /\ MaxWrites \in Nat
      /\ durable \cup Held \subseteq Writes
  BY Bounds DEF IInv, TypeOK, Held, WritesIn
<1>2. ASSUME NEW t \in Transactions, SetIsolation(t) PROVE TypeOK'
  BY <1>0, <1>1, <1>2 DEF SetIsolation, TypeOK, Executes
<1>3. ASSUME NEW t \in Transactions, Commit(t) \/ DestroyTransaction(t) PROVE TypeOK'
  <2>1. /\ owner' \in [SavePoints -> Transactions \cup {Nobody}]
        /\ points' \in [Transactions -> Seq(SavePoints)]
    <3>1. Cleanup(t) /\ <<>> \in Seq(SavePoints)
      BY <1>3 DEF Commit, DestroyTransaction, EndOf
    <3>2. points' \in [Transactions -> Seq(SavePoints)]
      BY <1>1, <3>1 DEF Cleanup, TypeOK
    <3>3. owner' \in [SavePoints -> Transactions \cup {Nobody}]
      BY <1>1, <3>1 DEF Cleanup, TypeOK
    <3> QED
      BY <3>2, <3>3
  <2>2. /\ trans' \in [Transactions -> {"none", "open", "committed", "undone"}]
        /\ durable' \subseteq Writes /\ ending' \subseteq Transactions
    BY <1>1, <1>3 DEF Commit, DestroyTransaction, EndOf, TypeOK
  <2> QED
    BY <1>0, <1>1, <1>3, <2>1, <2>2 DEF Commit, DestroyTransaction, EndOf, TypeOK
<1>4. ASSUME NEW t \in Transactions, EndOnNoHandle(t) PROVE TypeOK'
  BY <1>0, <1>1, <1>4 DEF EndOnNoHandle, TypeOK
<1>5. ASSUME NEW t \in Transactions, NEW p \in SavePoints, CreateSavePoint(t, p)
      PROVE  TypeOK'
  <2>1. Append(points[t], p) \in Seq(SavePoints)
    BY <1>1 DEF TypeOK
  <2>2. /\ points' \in [Transactions -> Seq(SavePoints)]
        /\ owner' \in [SavePoints -> Transactions \cup {Nobody}]
        /\ fate' \in [SavePoints -> {"none", "held", "released", "undone"}]
    BY <1>1, <1>5, <2>1 DEF CreateSavePoint, TypeOK
  <2> QED
    BY <1>0, <1>1, <1>5, <2>2 DEF CreateSavePoint, Executes, TypeOK
<1>6. CASE Start
  <2>1. /\ trans' \in [Transactions -> {"none", "open", "committed", "undone"}]
        /\ isolated' \subseteq Transactions
    BY <1>1, <1>6 DEF Start, TypeOK
  <2> QED
    BY <1>0, <1>1, <1>6, <2>1 DEF Start, Executes, TypeOK
<1>7. CASE StartThrows \/ UseGone
  BY <1>0, <1>1, <1>7 DEF StartThrows, UseGone, TypeOK
<1>8. ASSUME NEW p \in SavePoints, CommitSavePoint(p) PROVE TypeOK'
  <2>1. points' \in [Transactions -> Seq(SavePoints)]
    BY <1>8, RemovedIs DEF CommitSavePoint
  <2>2. /\ owner' \in [SavePoints -> Transactions \cup {Nobody}]
        /\ fate' \in [SavePoints -> {"none", "held", "released", "undone"}]
    BY <1>1, <1>8 DEF CommitSavePoint, Detached, TypeOK
  <2>3. ordered' \in BOOLEAN
    BY <1>1, <1>8 DEF CommitSavePoint, Ends
  <2> QED
    BY <1>0, <1>1, <1>8, <2>1, <2>2, <2>3 DEF CommitSavePoint, Ends, Executes, TypeOK
<1>9. ASSUME NEW p \in SavePoints, DestroySavePoint(p) PROVE TypeOK'
  <2>1. points' \in [Transactions -> Seq(SavePoints)]
    BY <1>9, RemovedIs DEF DestroySavePoint
  <2>2. /\ owner' \in [SavePoints -> Transactions \cup {Nobody}]
        /\ fate' \in [SavePoints -> {"none", "held", "released", "undone"}]
    BY <1>1, <1>9 DEF DestroySavePoint, TypeOK
  <2>3. ordered' \in BOOLEAN /\ crashed' \in BOOLEAN
    BY <1>1, <1>9 DEF DestroySavePoint, Ends
  <2> QED
    BY <1>0, <1>1, <1>9, <2>1, <2>2, <2>3 DEF DestroySavePoint, Ends, Executes, TypeOK
<1>10. ASSUME NEW p \in SavePoints, EndsUnlisted(p) PROVE TypeOK'
  <2>1. ordered' \in BOOLEAN /\ crashed' \in BOOLEAN
    BY <1>1, <1>10 DEF EndsUnlisted, Ends
  <2> QED
    BY <1>0, <1>1, <1>10, <2>1 DEF EndsUnlisted, Ends, TypeOK
<1>11. CASE WriteRow
  <2> DEFINE t == IF Open = {} THEN Nobody ELSE CHOOSE u \in Open : \A v \in Open : v <= u
             new == [in |-> t, after |-> IF t = Nobody THEN {} ELSE ToSet(points[t])]
  <2>1. t \in Transactions \cup {Nobody}
    BY Newest DEF Open
  <2> HIDE DEF t
  <2>2. new \in MadeWrites
    <3>1. ASSUME t # Nobody PROVE ToSet(points[t]) \subseteq SavePoints
      <4>1. points[t] \in Seq(SavePoints)
        BY <1>1, <2>1, <3>1 DEF TypeOK
      <4> QED
        BY <4>1 DEF ToSet
    <3> QED
      BY <2>1, <3>1 DEF MadeWrites
  <2>3. made' = Append(made, new)
    BY <1>11 DEF WriteRow, t
  <2> HIDE DEF new
  <2>4. made' \in Seq(MadeWrites)
    BY <1>1, <2>2, <2>3, Types
  <2>5. made' \in Seq([in : Transactions \cup {Nobody}, after : SUBSET SavePoints])
    BY <2>4 DEF MadeWrites
  <2>6. durable' \subseteq Writes
    <3>1. Len(made) \in Nat
      BY <1>1, Types
    <3>2. Len(made) + 1 \in Writes
      BY <1>1, <1>11, <3>1 DEF WriteRow, Writes
    <3> QED
      BY <1>1, <1>11, <3>2 DEF WriteRow
  <2> QED
    BY <1>0, <1>1, <1>11, <2>5, <2>6 DEF WriteRow, Executes, TypeOK
<1>12. CASE Disconnect \/ Lose
  <2>1. losses' \in 0 .. MaxLosses
    BY <1>1, <1>12 DEF Disconnect, Lose, TypeOK
  <2>2. hit' \in BOOLEAN
    BY <1>1, <1>12 DEF Disconnect, Lose
  <2>3. left' \subseteq Transactions
    BY <1>1, <1>12 DEF Disconnect, Lose, TypeOK
  <2> QED
    BY <1>0, <1>1, <1>12, <2>1, <2>2, <2>3 DEF Disconnect, Lose, TypeOK
<1> QED
  BY <1>2, <1>3, <1>4, <1>5, <1>6, <1>7, <1>8, <1>9, <1>10, <1>11, <1>12 DEF Next

-----------------------------------------------------------------------------
(* The lists of save points.                                                *)

LEMMA PointsNext ==
    ASSUME IInv, Next
    PROVE  PointsInv'
<1> USE DEF objects
<1>1. PointsInv /\ TypeOK /\ points \in [Transactions -> Seq(SavePoints)]
  BY DEF IInv, TypeOK
<1>2. ASSUME UNCHANGED <<points, fate, owner, trans>> PROVE PointsInv'
  BY <1>1, <1>2 DEF PointsInv
<1>3. ASSUME NEW t \in Transactions, SetIsolation(t) \/ EndOnNoHandle(t) PROVE PointsInv'
  BY <1>2, <1>3 DEF SetIsolation, EndOnNoHandle
<1>4. CASE StartThrows \/ WriteRow \/ Disconnect \/ UseGone \/ Lose
  BY <1>2, <1>4 DEF StartThrows, WriteRow, Disconnect, UseGone, Lose
<1>5. ASSUME NEW p \in SavePoints, EndsUnlisted(p) PROVE PointsInv'
  BY <1>2, <1>5 DEF EndsUnlisted, Ends
<1>6. ASSUME NEW t \in Transactions, Commit(t) \/ DestroyTransaction(t) PROVE PointsInv'
  <2>1. /\ Cleanup(t) /\ fate' = fate
        /\ \A u \in Transactions : u # t => trans'[u] = trans[u]
    BY <1>6 DEF Commit, DestroyTransaction, EndOf, IInv, TypeOK
  <2>2. points'[t] = <<>> /\ \A u \in Transactions : u # t => points'[u] = points[u]
    BY <1>1, <2>1 DEF Cleanup
  <2>3. ASSUME NEW u \in Transactions, u # t, NEW k \in DOMAIN points[u]
        PROVE  points[u][k] \in SavePoints /\ owner'[points[u][k]] = owner[points[u][k]]
    <3>1. owner[points[u][k]] = u /\ points[u] \in Seq(SavePoints)
      BY <1>1, <2>3 DEF PointsInv
    <3>2. ~Contains(points[t], points[u][k])
      <4>1. \A l \in 1 .. Len(points[t]) : l \in DOMAIN points[t]
        BY <1>1
      <4> QED
        BY <1>1, <2>3, <3>1, <4>1 DEF PointsInv, Contains
    <3>3. points[u][k] \in SavePoints
      BY <3>1
    <3> QED
      BY <2>1, <3>2, <3>3 DEF Cleanup
  <2>4. IsInjective(<<>>) /\ DOMAIN <<>> = {}
    BY DEF IsInjective
  <2> QED
    BY <1>1, <2>1, <2>2, <2>3, <2>4 DEF PointsInv
<1>7. ASSUME NEW t \in Transactions, NEW p \in SavePoints, CreateSavePoint(t, p)
      PROVE  PointsInv'
  <2>1. /\ points' = [points EXCEPT ![t] = Append(@, p)]
        /\ owner' = [owner EXCEPT ![p] = t]
        /\ fate' = [fate EXCEPT ![p] = "held"]
        /\ UNCHANGED trans /\ trans[t] = "open" /\ fate[p] = "none"
    BY <1>7 DEF CreateSavePoint, Open
  <2>2. /\ owner \in [SavePoints -> Transactions \cup {Nobody}]
        /\ fate \in [SavePoints -> {"none", "held", "released", "undone"}]
    BY <1>1 DEF TypeOK
  <2>3. ASSUME NEW u \in Transactions, NEW k \in DOMAIN points[u]
        PROVE  /\ points[u][k] \in SavePoints /\ points[u][k] # p
               /\ fate'[points[u][k]] = "held" /\ owner'[points[u][k]] = u
    <3>1. points[u][k] \in SavePoints /\ fate[points[u][k]] = "held" /\ owner[points[u][k]] = u
      BY <1>1, <2>3 DEF PointsInv
    <3> QED
      BY <2>1, <2>2, <3>1
  <2>4. ASSUME NEW u \in Transactions, u # t
        PROVE  points'[u] = points[u]
    BY <1>1, <2>1, <2>4
  <2>5. /\ points[t] \in Seq(SavePoints) /\ points'[t] = Append(points[t], p)
        /\ DOMAIN points[t] = 1 .. Len(points[t]) /\ Len(points[t]) \in Nat
        /\ DOMAIN points'[t] = 1 .. Len(points[t]) + 1
        /\ \A k \in 1 .. Len(points[t]) : points'[t][k] = points[t][k]
        /\ points'[t][Len(points[t]) + 1] = p
    BY <1>1, <2>1
  <2>6. IsInjective(points'[t])
    <3>1. IsInjective(points[t])
      BY <1>1 DEF PointsInv
    <3> QED
      BY <2>3, <2>5, <3>1 DEF IsInjective
  <2>7. fate'[p] = "held" /\ owner'[p] = t
    BY <2>1, <2>2
  <2>8. ASSUME NEW k \in DOMAIN points'[t]
        PROVE  fate'[points'[t][k]] = "held" /\ owner'[points'[t][k]] = t /\ trans'[t] = "open"
    BY <2>1, <2>3, <2>5, <2>7, <2>8
  <2> QED
    BY <1>1, <2>1, <2>3, <2>4, <2>6, <2>8 DEF PointsInv
<1>8. CASE Start
  <2>1. \A t \in Transactions : trans[t] = "open" => trans'[t] = "open"
    BY <1>1, <1>8 DEF Start, TypeOK
  <2> QED
    BY <1>1, <1>8, <2>1 DEF Start, PointsInv
<1>9. ASSUME NEW p \in SavePoints, Ends(p), Listed(p), points' = Removed(p), trans' = trans,
             \A q \in SavePoints : q # p => fate'[q] = fate[q] /\ owner'[q] = owner[q]
      PROVE  PointsInv'
  <2> DEFINE t == owner[p]
  <2>0. /\ owner[p] \in Transactions
        /\ Removed(p) \in [Transactions -> Seq(SavePoints)]
        /\ \A u \in Transactions : u # owner[p] => Removed(p)[u] = points[u]
    BY <1>9, RemovedIs
  <2>1. t \in Transactions
    BY <2>0
  <2>2. PICK k \in 1 .. Len(points[t]) :
          /\ points[t][k] = p
          /\ Len(points'[t]) = Len(points[t]) - 1
          /\ \A i \in 1 .. Len(points[t]) - 1 :
               points'[t][i] = IF i < k THEN points[t][i] ELSE points[t][i + 1]
    <3>1. \E k \in 1 .. Len(points[t]) :
            /\ points[t][k] = p
            /\ Len(Removed(p)[t]) = Len(points[t]) - 1
            /\ \A i \in 1 .. Len(points[t]) - 1 :
                 Removed(p)[t][i] = IF i < k THEN points[t][i] ELSE points[t][i + 1]
      BY <1>9, RemovedIs
    <3>2. points'[t] = Removed(p)[t]
      BY <1>9
    <3> QED
      BY <3>1, <3>2
  <2>3. /\ points[t] \in Seq(SavePoints) /\ points'[t] \in Seq(SavePoints)
        /\ \A u \in Transactions : u # t => points'[u] = points[u]
    BY <1>1, <1>9, <2>0
  <2> HIDE DEF t
  <2>4. /\ Len(points[t]) \in Nat /\ DOMAIN points[t] = 1 .. Len(points[t])
        /\ DOMAIN points'[t] = 1 .. Len(points[t]) - 1 /\ IsInjective(points[t])
    BY <1>1, <2>1, <2>2, <2>3 DEF PointsInv
  <2>5. ASSUME NEW i \in DOMAIN points'[t]
        PROVE  /\ i \in 1 .. Len(points[t]) /\ i + 1 \in 1 .. Len(points[t])
               /\ points'[t][i] = IF i < k THEN points[t][i] ELSE points[t][i + 1]
    BY <2>2, <2>4, <2>5
  <2>6. IsInjective(points'[t])
    <3> SUFFICES ASSUME NEW a \in DOMAIN points'[t], NEW b \in DOMAIN points'[t],
                        points'[t][a] = points'[t][b]
                 PROVE  a = b
      BY DEF IsInjective
    <3> DEFINE old(i) == IF i < k THEN i ELSE i + 1
    <3>1. /\ old(a) \in DOMAIN points[t] /\ old(b) \in DOMAIN points[t]
          /\ points[t][old(a)] = points[t][old(b)]
      BY <2>4, <2>5
    <3>2. old(a) = old(b)
      BY <2>4, <3>1 DEF IsInjective
    <3> QED
      BY <2>4, <3>2
  <2>7. ASSUME NEW u \in Transactions, NEW i \in DOMAIN points'[u]
        PROVE  \E j \in DOMAIN points[u] : points'[u][i] = points[u][j] /\ points[u][j] # p
    <3>1. CASE u = t
      <4>1. PICK j \in {i, i + 1} : points'[t][i] = points[t][j] /\ j # k /\ j \in DOMAIN points[t]
        BY <2>4, <2>5, <2>7, <3>1
      <4>2. points[t][j] # p
        BY <2>2, <2>4, <4>1 DEF IsInjective
      <4> QED
        BY <3>1, <4>1, <4>2
    <3>2. CASE u # t
      <4>1. points'[u] = points[u] /\ owner[points[u][i]] = u
        BY <1>1, <2>3, <2>7, <3>2 DEF PointsInv
      <4>2. points[u][i] # p
        BY <3>2, <4>1 DEF t
      <4> QED
        BY <2>7, <4>1, <4>2
    <3> QED
      BY <3>1, <3>2
  <2>8. ASSUME NEW u \in Transactions, NEW i \in DOMAIN points'[u]
        PROVE  /\ fate'[points'[u][i]] = "held" /\ owner'[points'[u][i]] = u /\ trans'[u] = "open"
    <3>1. PICK j \in DOMAIN points[u] : points'[u][i] = points[u][j] /\ points[u][j] # p
      BY <2>7, <2>8
    <3>2. points[u][j] \in SavePoints
      BY <1>1
    <3> QED
      BY <1>1, <1>9, <3>1, <3>2 DEF PointsInv
  <2> QED
    BY <1>1, <2>3, <2>6, <2>8 DEF PointsInv
<1>10. ASSUME NEW p \in SavePoints, CommitSavePoint(p) PROVE PointsInv'
  <2>1. /\ Ends(p) /\ Listed(p) /\ points' = Removed(p) /\ trans' = trans
        /\ \A q \in SavePoints : q # p => fate'[q] = fate[q] /\ owner'[q] = owner[q]
    BY <1>1, <1>10 DEF CommitSavePoint, Ends, Detached, TypeOK
  <2> QED
    BY <1>9, <2>1
<1>11. ASSUME NEW p \in SavePoints, DestroySavePoint(p) PROVE PointsInv'
  <2>1. /\ Ends(p) /\ Listed(p) /\ points' = Removed(p) /\ trans' = trans
        /\ \A q \in SavePoints : q # p => fate'[q] = fate[q] /\ owner'[q] = owner[q]
    BY <1>1, <1>11 DEF DestroySavePoint, Ends, TypeOK
  <2> QED
    BY <1>9, <2>1
<1> QED
  BY <1>3, <1>4, <1>5, <1>6, <1>7, <1>8, <1>10, <1>11 DEF Next

-----------------------------------------------------------------------------
(* The session and the transaction objects.                                 *)

\* Nothing here depends on the save points, nor on more of the log than whether
\* there is one.
LEMMA SessionSame ==
    ASSUME IInv, TypeOK', UNCHANGED <<trans, isolated, hit, ending, left>>, starting = Nobody,
           starting' = starting, ~session'.in_trx => session'.log = <<>>,
           session'.in_trx = session.in_trx, session'.live \/ ~session'.in_trx,
           handle' \in {"kept", handle}, crashed' \/ ~crashed
    PROVE  SessionInv'
BY DEF IInv, SessionInv, Open

LEMMA SessionNext ==
    ASSUME IInv, Next, TypeOK'
    PROVE  SessionInv'
<1> USE DEF objects, user
<1>1. /\ SessionInv /\ TypeOK /\ trans \in [Transactions -> {"none", "open", "committed", "undone"}]
      /\ session \in Sessions /\ Reached \in Sessions /\ Reached.live = TRUE
      /\ Reached.in_trx = session.in_trx /\ Reached.log = session.log
      /\ session.live => Reached = session
      /\ ~session.in_trx => session.log = <<>>
  BY Types, ReachedIs DEF IInv, TypeOK
<1>2. /\ Fresh.live = TRUE /\ Fresh.in_trx = FALSE /\ Fresh.log = <<>>
      /\ Lost.live = FALSE /\ Lost.in_trx = FALSE /\ Lost.log = <<>>
  BY DEF Fresh, Lost
<1>3. ASSUME NEW t \in Transactions, SetIsolation(t) PROVE SessionInv'
  <2>1. /\ session'.live = TRUE /\ session'.in_trx = FALSE /\ session'.level = TRUE
        /\ session'.log = <<>>
    BY <1>1, <1>3 DEF SetIsolation, Leveled, Sessions
  <2>2. ~hit => Open = {}
    BY <1>1, <1>3 DEF SetIsolation, SessionInv
  <2>3. starting' = t /\ trans[t] = "none"
        /\ UNCHANGED <<trans, isolated, hit, ending, left, crashed>>
        /\ handle' = "kept" /\ Open' = Open /\ ~session.in_trx /\ ~crashed
    BY <1>1, <1>3 DEF SetIsolation, Executes, Open, Idle
  <2> QED
    BY <1>1, <2>1, <2>2, <2>3 DEF SessionInv
<1>4. ASSUME NEW t \in Transactions, Commit(t) \/ DestroyTransaction(t) PROVE SessionInv'
  <2>1. /\ starting' = Nobody /\ handle = "kept" /\ handle' = "kept" /\ t \in Open /\ ~crashed
        /\ UNCHANGED <<isolated, hit, left, crashed>> /\ ending' = ending \cup {t}
        /\ \A u \in Transactions : u # t => trans'[u] = trans[u]
        /\ trans'[t] \in {"committed", "undone"}
    BY <1>1, <1>4 DEF Commit, DestroyTransaction, EndOf, Idle
  <2>2. Open' = Open \ {t}
    BY <2>1 DEF Open
  <2>3. session'.in_trx = FALSE /\ session'.log = <<>>
    BY <1>1, <1>2, <1>4 DEF Commit, DestroyTransaction, Ended, SessionInv
  <2>4. ~hit => Open' = {}
    BY <1>1, <2>1, <2>2 DEF SessionInv
  <2>5. \A u \in ending' : trans'[u] # "none"
    BY <1>1, <2>1 DEF SessionInv, TypeOK
  <2> QED
    BY <1>1, <2>1, <2>2, <2>3, <2>4, <2>5 DEF SessionInv
<1>5. ASSUME NEW t \in Transactions, EndOnNoHandle(t) PROVE SessionInv'
  <2>1. \A u \in ending' : trans'[u] # "none"
    BY <1>1, <1>5 DEF SessionInv, EndOnNoHandle, Open
  <2> QED
    BY <1>1, <1>5, <2>1 DEF EndOnNoHandle, SessionInv, Open, Idle
<1>6. ASSUME NEW t \in Transactions, NEW p \in SavePoints, CreateSavePoint(t, p)
      PROVE  SessionInv'
  <2>1. /\ session'.live = TRUE /\ session'.in_trx = session.in_trx
        /\ ~session'.in_trx => session'.log = <<>>
    BY <1>1, <1>6 DEF CreateSavePoint, Sessions
  <2> QED
    BY <1>6, <2>1, SessionSame DEF CreateSavePoint, Executes, Idle
<1>7. CASE Start
  <2>1. /\ starting \in Transactions /\ trans[starting] = "none" /\ ~session.in_trx
        /\ ~hit => session.live /\ session.level
        /\ starting' = Nobody /\ handle' = "kept"
        /\ trans' = [trans EXCEPT ![starting] = "open"]
        /\ UNCHANGED <<hit, ending, left, crashed>>
    BY <1>1, <1>7 DEF Start, Executes, SessionInv, TypeOK
  <2>2. Open' = Open \cup {starting}
    BY <1>1, <2>1 DEF Open
  <2>3. session'.live = TRUE /\ session'.in_trx = TRUE
    BY <1>1, <1>7 DEF Start, Started, Sessions
  <2>4. ~hit => Open = {} /\ isolated' = isolated \cup {starting}
    BY <1>1, <1>7, <2>1 DEF Start, SessionInv
  <2>5. starting \notin ending /\ \A u \in ending' : trans'[u] # "none"
    BY <1>1, <2>1 DEF SessionInv
  <2> QED
    BY <1>1, <2>1, <2>2, <2>3, <2>4, <2>5 DEF SessionInv
<1>8. CASE StartThrows
  <2>1. ~hit => Open = {}
    BY <1>1, <1>8 DEF StartThrows, SessionInv
  <2> QED
    BY <1>1, <1>8, <2>1 DEF StartThrows, SessionInv, Open
<1>9. ASSUME NEW p \in SavePoints, CommitSavePoint(p) PROVE SessionInv'
  <2>1. /\ session'.live = TRUE /\ session'.in_trx = session.in_trx
        /\ ~session'.in_trx => session'.log = <<>>
    <3>1. CASE Known(p)
      <4>1. session.in_trx /\ session' = ReleasePoint(p)
        BY <1>9, <3>1, PositionOf DEF CommitSavePoint
      <4>2. session'.live /\ session' \in Sessions /\ session'.in_trx = session.in_trx
        BY <3>1, <4>1, ReleaseThins DEF Thinned
      <4>3. session'.live = TRUE
        BY <4>2 DEF Sessions
      <4> QED
        BY <4>1, <4>2, <4>3
    <3> QED
      BY <1>1, <1>9, <3>1 DEF CommitSavePoint
  <2> QED
    BY <1>9, <2>1, SessionSame DEF CommitSavePoint, Executes, Ends, Idle
<1>10. ASSUME NEW p \in SavePoints, DestroySavePoint(p) PROVE SessionInv'
  <2>1. /\ session'.live = TRUE /\ session'.in_trx = session.in_trx
        /\ ~session'.in_trx => session'.log = <<>>
    <3>1. CASE Known(p)
      <4>1. session.in_trx /\ session' = RollBackTo(p)
        BY <1>10, <3>1, PositionOf DEF DestroySavePoint
      <4>2. session'.live /\ session' \in Sessions /\ session'.in_trx = session.in_trx
        BY <3>1, <4>1, RollBackThins DEF Thinned
      <4>3. session'.live = TRUE
        BY <4>2 DEF Sessions
      <4> QED
        BY <4>1, <4>2, <4>3
    <3> QED
      BY <1>1, <1>10, <3>1 DEF DestroySavePoint
  <2> QED
    BY <1>10, <2>1, SessionSame DEF DestroySavePoint, Executes, Ends, Idle
<1>11. ASSUME NEW p \in SavePoints, EndsUnlisted(p) PROVE SessionInv'
  BY <1>1, <1>11 DEF EndsUnlisted, Ends, SessionInv, Open, Idle
<1>12. CASE WriteRow
  <2>1. /\ session'.live = TRUE /\ session'.in_trx = session.in_trx
        /\ ~session'.in_trx => session'.log = <<>>
    BY <1>1, <1>12 DEF WriteRow, Sessions
  <2> QED
    BY <1>12, <2>1, SessionSame DEF WriteRow, Executes, Idle
<1>13. CASE Disconnect
  <2>1. /\ starting' = Nobody /\ session' = Lost /\ ~crashed /\ handle' # "kept"
        /\ Open' = Open /\ (~hit' => ~hit /\ Open = {}) /\ UNCHANGED <<trans, crashed, ending>>
    BY <1>1, <1>13 DEF Disconnect, Idle, Open
  <2>2. Open \subseteq left'
    BY <1>1, <1>13, <2>1 DEF Disconnect, SessionInv, Open
  <2> QED
    BY <1>1, <1>2, <2>1, <2>2 DEF SessionInv
<1>14. CASE UseGone
  BY <1>1, <1>14 DEF UseGone, SessionInv, Open, Idle
<1>15. CASE Lose
  <2>1. /\ session' = Lost /\ Open' = Open /\ (~hit' => ~hit /\ Open = {} /\ starting = Nobody)
        /\ UNCHANGED <<trans, starting, handle, crashed, ending, left>>
    BY <1>1, <1>15 DEF Lose, Open
  <2> QED
    BY <1>1, <1>2, <2>1 DEF SessionInv
<1> QED
  BY <1>3, <1>4, <1>5, <1>6, <1>7, <1>8, <1>9, <1>10, <1>11, <1>12, <1>13, <1>14, <1>15 DEF Next

-----------------------------------------------------------------------------
(* The writes.                                                              *)

LEMMA MadeTypes ==
    ASSUME TypeOK
    PROVE  /\ Len(made) \in Nat /\ DOMAIN made = 1 .. Len(made)
           /\ \A w \in DOMAIN made :
                /\ made[w].in \in Transactions \cup {Nobody}
                /\ made[w].after \subseteq SavePoints
<1>1. made \in Seq(MadeWrites)
  BY Types
<1>2. Len(made) \in Nat /\ DOMAIN made = 1 .. Len(made)
  BY <1>1
<1>3. \A w \in DOMAIN made : made[w] \in MadeWrites
  BY <1>1
<1> QED
  BY <1>2, <1>3 DEF MadeWrites

LEMMA LogTypes ==
    ASSUME TypeOK
    PROVE  /\ Len(session.log) \in Nat /\ DOMAIN session.log = 1 .. Len(session.log)
           /\ \A i \in DOMAIN session.log :
                /\ session.log[i] \in Entries
                /\ session.log[i].point => session.log[i].id \in SavePoints
                                           /\ session.log[i] = Point(session.log[i].id)
                /\ IsWrite(session.log[i]) => session.log[i].id \in Writes
                                              /\ session.log[i] = Write(session.log[i].id)
<1>1. session.log \in Seq(Entries)
  BY Types
<1>2. Len(session.log) \in Nat /\ DOMAIN session.log = 1 .. Len(session.log)
  BY <1>1
<1>3. \A i \in DOMAIN session.log : session.log[i] \in Entries
  BY <1>1
<1>4. \A e \in Entries :
        /\ e.point => e.id \in SavePoints /\ e = Point(e.id)
        /\ IsWrite(e) => e.id \in Writes /\ e = Write(e.id)
  <2> SUFFICES ASSUME NEW e \in Entries
               PROVE  /\ e.point => e.id \in SavePoints /\ e = Point(e.id)
                      /\ IsWrite(e) => e.id \in Writes /\ e = Write(e.id)
    OBVIOUS
  <2>1. CASE e \in [point : {TRUE}, id : SavePoints]
    <3>1. e.point = TRUE /\ e.id \in SavePoints /\ e = [point |-> e.point, id |-> e.id]
      BY <2>1
    <3> QED
      BY <3>1 DEF IsWrite, Point, Name
  <2>2. CASE e \in [point : {FALSE}, id : Writes \cup {0}]
    <3>1. e.point = FALSE /\ e.id \in Writes \cup {0} /\ e = [point |-> e.point, id |-> e.id]
      BY <2>2
    <3> QED
      BY <3>1 DEF IsWrite, Write
  <2> QED
    BY <2>1, <2>2 DEF Entries
<1> QED
  BY <1>2, <1>3, <1>4

\* A write the server holds was made in a transaction that is open, and none of its
\* save points has been undone.
LEMMA HeldWrites ==
    ASSUME IInv, NEW w \in Held
    PROVE  /\ w \in Writes /\ w \in DOMAIN made /\ made[w].in \in Open
           /\ \A p \in made[w].after : fate[p] # "undone"
           /\ \E i \in DOMAIN session.log : session.log[i] = Write(w)
<1>1. w \in Writes /\ \E i \in 1 .. Len(session.log) : session.log[i] = Write(w)
  BY DEF Held, WritesIn, Contains
<1>2. PICK i \in DOMAIN session.log : session.log[i] = Write(w)
  BY <1>1, LogTypes DEF IInv
<1>3. IsWrite(session.log[i]) /\ session.log[i].id = w
  BY <1>1, <1>2, Bounds DEF IsWrite, Write
<1> QED
  BY <1>1, <1>2, <1>3 DEF IInv, LogInv

\* What every action but commit() and a new write does to the writes.
LEMMA MadeKept ==
    ASSUME IInv, UNCHANGED <<durable, made>>,
           \A t \in Transactions :
             trans[t] # "none" =>
               trans'[t] = trans[t] \/ (trans[t] = "open" /\ trans'[t] = "undone"),
           \A p \in SavePoints : fate[p] # "none" => fate'[p] # "none",
           \A p \in SavePoints : fate[p] = "undone" => fate'[p] = "undone",
           \A p \in SavePoints :
             fate'[p] = "undone" => fate[p] = "undone" \/ \A w \in durable : p \notin made[w].after,
           hit => hit',
           ~hit' => \A w \in Held :
             \/ w \in Held'
             \/ \E p \in made[w].after : fate'[p] = "undone"
             \/ trans'[made[w].in] # "open"
    PROVE  MadeInv'
<1>1. \A w \in DOMAIN made :
        /\ made[w].in \in Transactions \cup {Nobody} /\ made[w].after \subseteq SavePoints
        /\ made[w].in # Nobody => trans[made[w].in] # "none"
        /\ \A p \in made[w].after : fate[p] # "none"
  BY MadeTypes DEF IInv, MadeInv
<1>2. \A w \in DOMAIN made :
         /\ made[w].in # Nobody => trans'[made[w].in] # "none"
         /\ \A p \in made[w].after : fate'[p] # "none"
  BY <1>1
<1>3. \A w \in durable : w \in DOMAIN made /\ \A p \in made[w].after : fate'[p] # "undone"
  BY <1>1 DEF IInv, MadeInv
<1>4. ASSUME ~hit', NEW w \in DOMAIN made, made[w].in # Nobody
      PROVE  /\ w \in durable => trans'[made[w].in] = "committed"
             /\ (\A p \in made[w].after : fate'[p] # "undone") =>
                  /\ trans'[made[w].in] = "open" => w \in durable \/ w \in Held'
                  /\ trans'[made[w].in] = "committed" => w \in durable
  <2>1. made[w].in \in Transactions /\ made[w].after \subseteq SavePoints /\ ~hit
        /\ trans[made[w].in] # "none"
    BY <1>1, <1>4
  <2>2. w \in durable => trans[made[w].in] = "committed"
    BY <1>4, <2>1 DEF IInv, MadeInv
  <2>3. (\A p \in made[w].after : fate'[p] # "undone")
          => \A p \in made[w].after : fate[p] # "undone"
    BY <2>1
  <2>4. (\A p \in made[w].after : fate[p] # "undone") =>
           /\ trans[made[w].in] = "open" => w \in durable \/ w \in Held
           /\ trans[made[w].in] = "committed" => w \in durable
    BY <1>4, <2>1 DEF IInv, MadeInv
  <2> QED
    BY <1>4, <2>1, <2>2, <2>3, <2>4
<1> QED
  BY <1>2, <1>3, <1>4 DEF MadeInv

\* Where the session keeps its log, it keeps its writes.
LEMMA HeldSame ==
    ASSUME session'.log = session.log
    PROVE  Held' = Held
BY DEF Held, WritesIn

LEMMA HeldNothing ==
    ASSUME session'.log = <<>>
    PROVE  Held' = {}
<1>1. Len(<<>>) = 0
  OBVIOUS
<1> QED
  BY <1>1 DEF Held, WritesIn, Contains

LEMMA HeldAt ==
    ASSUME IInv, NEW i \in 1 .. Len(session'.log), NEW w \in Writes, session'.log[i] = Write(w)
    PROVE  w \in Held'
BY DEF Held, WritesIn, Contains

LEMMA HeldAppend ==
    ASSUME IInv, NEW e \in Entries, session'.log = Append(session.log, e)
    PROVE  /\ Held \subseteq Held'
           /\ \A w \in Writes : e = Write(w) => w \in Held'
<1>1. session.log \in Seq(Entries) /\ Len(session.log) \in Nat
  BY Types DEF IInv
<1>2. /\ Len(session'.log) = Len(session.log) + 1
      /\ \A i \in 1 .. Len(session.log) : session'.log[i] = session.log[i]
      /\ session'.log[Len(session.log) + 1] = e
  BY <1>1
<1>3. ASSUME NEW w \in Held PROVE w \in Held'
  <2>1. w \in Writes /\ \E i \in 1 .. Len(session.log) : session.log[i] = Write(w)
    BY DEF Held, WritesIn, Contains
  <2>2. PICK i \in 1 .. Len(session.log) : session.log[i] = Write(w)
    BY <2>1
  <2>3. i \in 1 .. Len(session'.log) /\ session'.log[i] = Write(w)
    BY <1>1, <1>2, <2>2
  <2> QED
    BY <2>1, <2>3, HeldAt
<1>4. Len(session.log) + 1 \in 1 .. Len(session'.log)
  BY <1>1, <1>2
<1> QED
  BY <1>2, <1>3, <1>4, HeldAt

\* What a new write is: made in the newest open transaction, after the points it lists.
LEMMA NewWrite ==
    ASSUME IInv, WriteRow
    PROVE  \E t \in Open \cup {Nobody}, a \in SUBSET SavePoints :
             /\ made' = Append(made, [in |-> t, after |-> a])
             /\ Len(made) + 1 \in Writes
             /\ Open # {} => t \in Open
             /\ t = Nobody => a = {}
             /\ t # Nobody => a = ToSet(points[t])
<1> DEFINE t == IF Open = {} THEN Nobody ELSE CHOOSE u \in Open : \A v \in Open : v <= u
           a == IF t = Nobody THEN {} ELSE ToSet(points[t])
<1>1. t \in Open \cup {Nobody} /\ (Open # {} => t \in Open)
  BY Newest
<1>2. made' = Append(made, [in |-> t, after |-> a])
  BY DEF WriteRow
<1> HIDE DEF t
<1>3. a \in SUBSET SavePoints
  <2>1. CASE t # Nobody
    <3>1. points[t] \in Seq(SavePoints)
      BY <1>1, <2>1 DEF IInv, TypeOK, Open
    <3> QED
      BY <2>1, <3>1 DEF ToSet
  <2> QED
    BY <2>1
<1>4. Len(made) + 1 \in Writes
  <2>1. Len(made) \in Nat
    BY MadeTypes DEF IInv
  <2> QED
    BY <2>1, Bounds DEF WriteRow, Writes
<1>5. (t = Nobody => a = {}) /\ (t # Nobody => a = ToSet(points[t]))
  OBVIOUS
<1> HIDE DEF a
<1> QED
  BY <1>1, <1>2, <1>3, <1>4, <1>5

LEMMA MadeWriteRow ==
    ASSUME IInv, WriteRow
    PROVE  MadeInv'
<1> USE DEF objects, user
<1>1. /\ TypeOK /\ SessionInv /\ MadeInv /\ PointsInv
      /\ session \in Sessions /\ Reached \in Sessions
      /\ Reached.log = session.log /\ (~session.in_trx => session.log = <<>>)
      /\ Reached.in_trx = session.in_trx /\ Len(made) \in Nat /\ DOMAIN made = 1 .. Len(made)
      /\ made \in Seq(MadeWrites)
  BY Types, ReachedIs, MadeTypes DEF IInv
<1>2. UNCHANGED <<trans, fate, points, hit>>
  BY DEF WriteRow
<1> DEFINE n == Len(made) + 1
<1>3. PICK t \in Open \cup {Nobody}, a \in SUBSET SavePoints :
             /\ made' = Append(made, [in |-> t, after |-> a])
             /\ n \in Writes
             /\ Open # {} => t \in Open
             /\ t = Nobody => a = {}
             /\ t # Nobody => a = ToSet(points[t])
  BY NewWrite
<1>4. /\ n \notin DOMAIN made /\ DOMAIN made' = DOMAIN made \cup {n}
      /\ \A w \in DOMAIN made : made'[w] = made[w]
      /\ made'[n].in = t /\ made'[n].after = a
  BY <1>1, <1>3
<1>5. \/ session.in_trx /\ session'.log = Append(session.log, Write(n)) /\ durable' = durable
      \/ ~session.in_trx /\ session'.log = session.log /\ durable' = durable \cup {n}
  BY <1>1 DEF WriteRow, Sessions
<1> HIDE DEF n
<1>6. Held \subseteq Held' /\ (session.in_trx => n \in Held')
  <2>1. Write(n) \in Entries
    BY <1>3 DEF Write, Entries
  <2> QED
    BY <1>3, <1>5, <2>1, HeldSame, HeldAppend
<1>7. \A p \in a : fate[p] = "held" /\ (t # Nobody => trans[t] = "open")
  <2> SUFFICES ASSUME NEW p \in a PROVE fate[p] = "held" /\ (t # Nobody => trans[t] = "open")
    OBVIOUS
  <2>1. t \in Open /\ \E k \in DOMAIN points[t] : points[t][k] = p
    BY <1>3 DEF ToSet
  <2> QED
    BY <1>1, <2>1 DEF PointsInv, Open
<1>8. t # Nobody => trans[t] = "open"
  BY <1>3 DEF Open
<1>9. \A w \in DOMAIN made' :
         /\ made'[w].in # Nobody => trans'[made'[w].in] # "none"
         /\ \A p \in made'[w].after : fate'[p] # "none"
  BY <1>1, <1>2, <1>4, <1>7, <1>8 DEF MadeInv
<1>10. \A w \in durable' : w \in DOMAIN made' /\ \A p \in made'[w].after : fate'[p] # "undone"
  BY <1>1, <1>2, <1>4, <1>5, <1>7 DEF MadeInv
<1>11. ASSUME ~hit', NEW w \in DOMAIN made', made'[w].in # Nobody
       PROVE  /\ w \in durable' => trans'[made'[w].in] = "committed"
              /\ (\A p \in made'[w].after : fate'[p] # "undone") =>
                    /\ trans'[made'[w].in] = "open" => w \in durable' \/ w \in Held'
                    /\ trans'[made'[w].in] = "committed" => w \in durable'
  <2>1. ~hit
    BY <1>2, <1>11
  <2>2. CASE w = n
    <3>1. t \in Open /\ session.in_trx /\ trans[t] = "open" /\ n \notin durable
      BY <1>1, <1>3, <1>4, <1>8, <1>11, <2>1, <2>2 DEF SessionInv, MadeInv
    <3> QED
      BY <1>2, <1>4, <1>5, <1>6, <2>2, <3>1
  <2>3. CASE w # n
    <3>1. w \in DOMAIN made /\ made'[w] = made[w] /\ (w \in durable' <=> w \in durable)
      BY <1>4, <1>5, <1>11, <2>3
    <3>2. /\ w \in durable => trans[made[w].in] = "committed"
          /\ (\A p \in made[w].after : fate[p] # "undone") =>
               /\ trans[made[w].in] = "open" => w \in durable \/ w \in Held
               /\ trans[made[w].in] = "committed" => w \in durable
      BY <1>1, <1>11, <2>1, <3>1 DEF MadeInv
    <3> QED
      BY <1>2, <1>6, <3>1, <3>2
  <2> QED
    BY <2>2, <2>3
<1> QED
  BY <1>9, <1>10, <1>11 DEF MadeInv

LEMMA MadeNext ==
    ASSUME IInv, Next, TypeOK', SessionInv'
    PROVE  MadeInv'
<1> USE DEF objects, user
<1>1. /\ TypeOK /\ SessionInv /\ MadeInv
      /\ trans \in [Transactions -> {"none", "open", "committed", "undone"}]
      /\ fate \in [SavePoints -> {"none", "held", "released", "undone"}]
      /\ session \in Sessions /\ Reached \in Sessions
      /\ Reached.log = session.log /\ (~session.in_trx => session.log = <<>>)
      /\ Reached.in_trx = session.in_trx
  BY Types, ReachedIs DEF IInv, TypeOK
<1>2. ASSUME UNCHANGED <<durable, made, trans, fate, hit>>, session'.log = session.log
      PROVE  MadeInv'
  BY <1>2, HeldSame, MadeKept
<1>3. ASSUME NEW t \in Transactions, SetIsolation(t) \/ EndOnNoHandle(t) PROVE MadeInv'
  <2>1. session'.log = session.log
    BY <1>1, <1>3 DEF SetIsolation, Leveled, EndOnNoHandle, Sessions
  <2> QED
    BY <1>2, <1>3, <2>1 DEF SetIsolation, EndOnNoHandle
<1>4. CASE StartThrows \/ UseGone
  BY <1>2, <1>4 DEF StartThrows, UseGone
<1>5. ASSUME NEW p \in SavePoints, EndsUnlisted(p) PROVE MadeInv'
  BY <1>2, <1>5 DEF EndsUnlisted, Ends
<1>6. CASE Start
  <2>1. /\ starting \in Transactions /\ trans[starting] = "none"
        /\ trans' = [trans EXCEPT ![starting] = "open"]
        /\ UNCHANGED <<durable, made, fate, hit>>
    BY <1>1, <1>6 DEF Start, SessionInv, TypeOK
  <2>2. session'.log = session.log
    BY <1>1, <1>6 DEF Start, Started, Sessions
  <2>3. \A t \in Transactions : trans[t] # "none" => trans'[t] = trans[t]
    BY <1>1, <2>1
  <2> QED
    BY <2>1, <2>2, <2>3, HeldSame, MadeKept
<1>7. CASE Disconnect \/ Lose
  <2>1. /\ session'.log = <<>> /\ UNCHANGED <<durable, made, trans, fate>>
        /\ hit => hit'
        /\ ~hit' => Open = {}
    BY <1>7 DEF Disconnect, Lose, Lost, Fresh
  <2>2. ~hit' => Held = {}
    BY <2>1, HeldWrites
  <2> QED
    BY <2>1, <2>2, MadeKept
<1>8. ASSUME NEW t \in Transactions, DestroyTransaction(t) PROVE MadeInv'
  <2>1. /\ t \in Open /\ trans[t] = "open" /\ trans' = [trans EXCEPT ![t] = "undone"]
        /\ UNCHANGED <<durable, made, fate, hit>>
    BY <1>8 DEF DestroyTransaction, EndOf, Open
  <2>2. /\ trans'[t] = "undone"
        /\ \A u \in Transactions : u # t => trans'[u] = trans[u]
    BY <1>1, <2>1
  <2>3. ~hit => Open \subseteq {t}
    BY <1>1, <2>1 DEF SessionInv
  <2>4. ~hit' => \A w \in Held : trans'[made[w].in] # "open"
    BY <2>1, <2>2, <2>3, HeldWrites
  <2> QED
    BY <2>1, <2>2, <2>4, MadeKept
<1>9. ASSUME NEW t \in Transactions, Commit(t) PROVE MadeInv'
  <2>1. /\ t \in Open /\ trans[t] = "open" /\ trans' = [trans EXCEPT ![t] = "committed"]
        /\ durable' = durable \cup Held
        /\ UNCHANGED <<made, fate, hit>>
    BY <1>9 DEF Commit, EndOf, Open
  <2>2. /\ trans'[t] = "committed"
        /\ \A u \in Transactions : u # t => trans'[u] = trans[u]
    BY <1>1, <2>1
  <2>3. ~hit => Open \subseteq {t}
    BY <1>1, <2>1 DEF SessionInv
  <2>4. \A w \in DOMAIN made : made[w].in \in Transactions \cup {Nobody}
    BY <1>1, MadeTypes
  <2>5. \A w \in DOMAIN made' :
          /\ made'[w].in # Nobody => trans'[made'[w].in] # "none"
          /\ \A p \in made'[w].after : fate'[p] # "none"
    BY <1>1, <2>1, <2>2, <2>4 DEF MadeInv
  <2>6. \A w \in durable' : w \in DOMAIN made' /\ \A p \in made'[w].after : fate'[p] # "undone"
    BY <1>1, <2>1, HeldWrites DEF MadeInv
  <2>7. ASSUME ~hit', NEW w \in DOMAIN made', made'[w].in # Nobody
        PROVE  /\ w \in durable' => trans'[made'[w].in] = "committed"
               /\ (\A p \in made'[w].after : fate'[p] # "undone") =>
                    /\ trans'[made'[w].in] = "open" => w \in durable' \/ w \in Held'
                    /\ trans'[made'[w].in] = "committed" => w \in durable'
    <3>1. /\ ~hit /\ w \in DOMAIN made /\ made'[w] = made[w]
          /\ made[w].in # Nobody /\ made[w].in \in Transactions
      BY <2>1, <2>4, <2>7
    <3>2. /\ w \in durable => trans[made[w].in] = "committed"
          /\ (\A p \in made[w].after : fate[p] # "undone") =>
               /\ trans[made[w].in] = "open" => w \in durable \/ w \in Held
               /\ trans[made[w].in] = "committed" => w \in durable
      BY <1>1, <3>1 DEF MadeInv
    <3>3. w \in Held => made[w].in = t
      BY <2>3, <3>1, HeldWrites
    <3>4. trans'[made[w].in] # "open"
      BY <2>2, <2>3, <3>1 DEF Open
    <3> QED
      BY <2>1, <2>2, <3>1, <3>2, <3>3, <3>4
  <2> QED
    BY <2>5, <2>6, <2>7 DEF MadeInv
<1>10. ASSUME NEW t \in Transactions, NEW p \in SavePoints, CreateSavePoint(t, p)
       PROVE  MadeInv'
  <2>1. /\ fate' = [fate EXCEPT ![p] = "held"] /\ fate[p] = "none"
        /\ UNCHANGED <<durable, made, trans, hit>>
    BY <1>10 DEF CreateSavePoint
  <2>2. fate'[p] = "held" /\ \A q \in SavePoints : q # p => fate'[q] = fate[q]
    BY <1>1, <2>1
  <2>3. \A w \in Held : w \in Held'
    <3>1. CASE session.in_trx
      <4>1. session'.log = Append(session.log, Point(p))
        BY <1>1, <1>10, <3>1 DEF CreateSavePoint, Sessions
      <4>2. Point(p) \in Entries
        BY DEF Point, Name, Entries
      <4> QED
        BY <1>1, <4>1, <4>2, HeldAppend
    <3>2. CASE ~session.in_trx
      <4>1. session'.log = session.log
        BY <1>1, <1>10, <3>2 DEF CreateSavePoint, Sessions
      <4> QED
        BY <4>1, HeldSame
    <3> QED
      BY <3>1, <3>2
  <2> QED
    BY <2>1, <2>2, <2>3, MadeKept
<1>11. ASSUME NEW p \in SavePoints, CommitSavePoint(p) PROVE MadeInv'
  <2>1. /\ UNCHANGED <<durable, made, trans, hit>>
        /\ fate[p] \in {"held", "released"}
        /\ \/ Known(p) /\ session' = ReleasePoint(p) /\ fate' = [fate EXCEPT ![p] = "released"]
           \/ session' = Reached /\ fate' = fate
    BY <1>11 DEF CommitSavePoint, Ends
  <2>2. \A q \in SavePoints : q # p => fate'[q] = fate[q]
    BY <1>1, <2>1
  <2>3. fate'[p] \in {"held", "released"}
    BY <1>1, <2>1
  <2>4. CASE Known(p) /\ session' = ReleasePoint(p)
    <3>1. ASSUME NEW w \in Held PROVE w \in Held'
      <4>1. PICK i \in DOMAIN session.log : session.log[i] = Write(w)
        BY HeldWrites
      <4>2. i \in 1 .. Len(session'.log) /\ session'.log[i] = Write(w)
        BY <1>1, <2>4, <4>1, ReleaseThins, LogTypes DEF Write
      <4> QED
        BY <3>1, <4>2, HeldAt, HeldWrites
    <3> QED
      BY <2>1, <2>2, <2>3, <3>1, MadeKept
  <2>5. CASE session' = Reached
    BY <1>1, <2>1, <2>2, <2>3, <2>5, HeldSame, MadeKept
  <2> QED
    BY <2>1, <2>4, <2>5
<1>12. ASSUME NEW p \in SavePoints, DestroySavePoint(p) PROVE MadeInv'
  <2>1. /\ UNCHANGED <<durable, made, trans, hit>>
        /\ Ends(p) /\ Listed(p) /\ fate[p] \in {"held", "released"}
        /\ Known(p) => session' = RollBackTo(p) /\ fate' = [fate EXCEPT ![p] = "undone"]
        /\ ~Known(p) => session' = Reached /\ fate' = [fate EXCEPT ![p] = @]
    BY <1>12 DEF DestroySavePoint, Ends
  <2>2. \A q \in SavePoints : q # p => fate'[q] = fate[q]
    BY <1>1, <2>1
  <2>3. CASE ~Known(p)
    <3>1. fate' = fate /\ session'.log = session.log
      BY <1>1, <2>1, <2>3
    <3> QED
      BY <1>2, <2>1, <3>1
  <2>4. CASE Known(p)
    <3>1. fate'[p] = "undone" /\ session' = RollBackTo(p)
      BY <1>1, <2>1, <2>4
    <3>2. /\ Position(p) \in DOMAIN session.log /\ session.log[Position(p)] = Point(p)
          /\ Point(p).point /\ Point(p).id = p
      BY <1>1, <2>4, PositionOf, LogTypes DEF Point, Name
    <3>3. \A w \in durable : p \notin made[w].after
      BY <3>2 DEF IInv, LogInv
    <3>4. ASSUME ~hit', NEW w \in Held
          PROVE  w \in Held' \/ (fate'[p] = "undone" /\ p \in made[w].after)
      <4>1. PICK i \in DOMAIN session.log : session.log[i] = Write(w)
        BY HeldWrites
      <4>2. w \in Writes /\ made[w].in \in Open /\ IsWrite(Write(w)) /\ Write(w).id = w
        BY HeldWrites, Bounds DEF IsWrite, Write
      <4>3. CASE i <= Position(p)
        <5>1. i \in 1 .. Len(session'.log) /\ session'.log[i] = Write(w)
          BY <1>1, <2>4, <3>1, <3>2, <4>1, <4>3, RollBackThins, LogTypes
        <5>2. w \in Held'
          BY <4>2, <5>1, HeldAt
        <5> QED
          BY <5>2
      <4>4. CASE Position(p) < i
        <5>1. owner[p] \in Open /\ Contains(points[owner[p]], p)
          <6>1. owner[p] \in Transactions /\ trans[owner[p]] = "open"
            BY <2>1, RemovedIs
          <6>2. \E k \in 1 .. Len(points[owner[p]]) : points[owner[p]][k] = p
            BY <2>1, RemovedIs
          <6> QED
            BY <6>1, <6>2 DEF Contains, Open
        <5>2. owner[p] = made[w].in
          BY <1>1, <2>1, <3>4, <4>2, <5>1 DEF SessionInv
        <5>3. p \in made[w].after
          BY <3>2, <4>1, <4>2, <4>4, <5>1, <5>2 DEF IInv, LogInv
        <5> QED
          BY <3>1, <5>3
      <4> QED
        BY <1>1, <3>2, <4>3, <4>4, LogTypes
    <3> QED
      BY <2>1, <2>2, <3>1, <3>3, <3>4, MadeKept
  <2> QED
    BY <2>3, <2>4
<1>13. CASE WriteRow
  BY <1>13, MadeWriteRow
<1> QED
  BY <1>3, <1>4, <1>5, <1>6, <1>7, <1>8, <1>9, <1>10, <1>11, <1>12, <1>13 DEF Next

-----------------------------------------------------------------------------
(* What the session holds.                                                  *)

LEMMA EmptyLog ==
    ASSUME session'.log = <<>>
    PROVE  LogInv'
<1>1. DOMAIN <<>> = {}
  OBVIOUS
<1> QED
  BY <1>1 DEF LogInv

LEMMA ThinnedKeeps ==
    ASSUME IInv, Thinned, UNCHANGED <<made, durable, trans>>,
           \A p \in SavePoints : fate[p] # "none" => fate'[p] # "none",
           \A t \in Transactions, p \in SavePoints :
             Contains(points'[t], p) => Contains(points[t], p),
           \A i \in 1 .. Len(session'.log) : IsWrite(session'.log[i]) =>
             \A p \in made[session'.log[i].id].after : fate'[p] # "undone"
    PROVE  LogInv'
<1>1. /\ Len(session.log) \in Nat /\ DOMAIN session.log = 1 .. Len(session.log)
      /\ \A i \in DOMAIN session.log : session.log[i].point => session.log[i].id \in SavePoints
  BY LogTypes DEF IInv
<1>2. Len(session'.log) \in Nat /\ DOMAIN session'.log = 1 .. Len(session'.log)
  <2>1. session'.log \in Seq(Entries)
    BY DEF Thinned, Sessions
  <2> QED
    BY <2>1
<1>3. ~Gap.point /\ ~IsWrite(Gap)
  BY DEF Gap, IsWrite
<1>4. ASSUME NEW i \in DOMAIN session'.log, session'.log[i].point \/ IsWrite(session'.log[i])
      PROVE  i \in DOMAIN session.log /\ session'.log[i] = session.log[i]
  BY <1>1, <1>2, <1>3, <1>4 DEF Thinned
<1>5. Open' = Open
  BY DEF Open
<1>6. \A w \in DOMAIN made : made[w].in \in Transactions \cup {Nobody}
  BY MadeTypes DEF IInv
<1>7. ASSUME NEW i \in DOMAIN session'.log, session'.log[i].point
      PROVE  /\ fate'[session'.log[i].id] # "none"
             /\ \A w \in durable' : session'.log[i].id \notin made'[w].after
  BY <1>1, <1>4, <1>7 DEF IInv, LogInv
<1>8. ASSUME NEW i \in DOMAIN session'.log, session'.log[i].point,
             NEW j \in DOMAIN session'.log, IsWrite(session'.log[j])
      PROVE  /\ i < j /\ Contains(points'[made'[session'.log[j].id].in], session'.log[i].id)
                  => session'.log[i].id \in made'[session'.log[j].id].after
             /\ j < i => session'.log[i].id \notin made'[session'.log[j].id].after
  <2> DEFINE w == session.log[j].id
             p == session.log[i].id
  <2>1. /\ i \in DOMAIN session.log /\ session'.log[i] = session.log[i]
        /\ j \in DOMAIN session.log /\ session'.log[j] = session.log[j]
    BY <1>4, <1>8
  <2>2. /\ i < j /\ Contains(points[made[w].in], p) => p \in made[w].after
        /\ j < i => p \notin made[w].after
        /\ made[w].in \in Open
    BY <1>8, <2>1 DEF IInv, LogInv
  <2>3. p \in SavePoints /\ made[w].in \in Transactions
    BY <1>1, <1>8, <2>1, <2>2 DEF Open
  <2> HIDE DEF w, p
  <2>4. Contains(points'[made[w].in], p) => Contains(points[made[w].in], p)
    BY <2>3
  <2> QED
    BY <2>1, <2>2, <2>4 DEF w, p
<1>9. ASSUME NEW i \in DOMAIN session'.log, IsWrite(session'.log[i])
      PROVE  /\ session'.log[i].id \in DOMAIN made'
             /\ made'[session'.log[i].id].in \in Open'
             /\ \A p \in made'[session'.log[i].id].after : fate'[p] # "undone"
  <2>1. i \in DOMAIN session.log /\ session'.log[i] = session.log[i] /\ i \in 1 .. Len(session'.log)
    BY <1>2, <1>4, <1>9
  <2> QED
    BY <1>5, <1>9, <2>1 DEF IInv, LogInv
<1> QED
  BY <1>7, <1>8, <1>9 DEF LogInv

LEMMA LogWriteRow ==
    ASSUME IInv, WriteRow
    PROVE  LogInv'
<1> USE DEF objects, user
<1>1. /\ TypeOK /\ SessionInv /\ MadeInv /\ PointsInv
      /\ session \in Sessions /\ Reached \in Sessions
      /\ Reached.log = session.log /\ (~session.in_trx => session.log = <<>>)
      /\ Reached.in_trx = session.in_trx /\ Len(made) \in Nat /\ DOMAIN made = 1 .. Len(made)
      /\ made \in Seq(MadeWrites)
  BY Types, ReachedIs, MadeTypes DEF IInv
<1>2. UNCHANGED <<trans, fate, points>> /\ Open' = Open
  BY DEF WriteRow, Open
<1> DEFINE n == Len(made) + 1
<1>3. PICK t \in Open \cup {Nobody}, a \in SUBSET SavePoints :
             /\ made' = Append(made, [in |-> t, after |-> a])
             /\ n \in Writes
             /\ Open # {} => t \in Open
             /\ t = Nobody => a = {}
             /\ t # Nobody => a = ToSet(points[t])
  BY NewWrite
<1>4. /\ n \notin DOMAIN made /\ DOMAIN made' = DOMAIN made \cup {n}
      /\ \A w \in DOMAIN made : made'[w] = made[w]
      /\ made'[n].in = t /\ made'[n].after = a
  BY <1>1, <1>3
<1>5. CASE ~session.in_trx
  <2>1. session'.log = <<>>
    BY <1>1, <1>5 DEF WriteRow
  <2> QED
    BY <2>1, EmptyLog
<1>6. CASE session.in_trx
  <2>1. session'.log = Append(session.log, Write(n)) /\ durable' = durable
    BY <1>1, <1>6 DEF WriteRow, Sessions
  <2>2. t \in Open /\ t \in Transactions /\ a = ToSet(points[t])
    BY <1>1, <1>3, <1>6, Bounds DEF SessionInv, Open
  <2> HIDE DEF n
  <2> DEFINE m == Len(session.log) + 1
  <2>3. /\ DOMAIN session.log = 1 .. Len(session.log) /\ Len(session.log) \in Nat
        /\ session.log \in Seq(Entries)
    BY <1>1, LogTypes, Types
  <2>4. /\ m \notin DOMAIN session.log /\ DOMAIN session'.log = DOMAIN session.log \cup {m}
        /\ \A i \in DOMAIN session.log : session'.log[i] = session.log[i] /\ i < m /\ ~(m < i)
        /\ session'.log[m] = Write(n) /\ m \in Nat
    BY <2>1, <2>3
  <2>5. ~Write(n).point /\ Write(n).id = n /\ IsWrite(Write(n))
    BY <1>3, Bounds DEF Write, IsWrite
  <2> HIDE DEF m
  <2>6. \A p \in a : fate[p] = "held"
    BY <1>1, <2>2 DEF PointsInv, ToSet
  <2>7. \A w \in durable : w \in DOMAIN made
    BY <1>1 DEF MadeInv
  <2>8. ASSUME NEW i \in DOMAIN session'.log, session'.log[i].point
        PROVE  /\ i \in DOMAIN session.log /\ session'.log[i] = session.log[i]
               /\ fate'[session'.log[i].id] # "none"
               /\ \A w \in durable' : session'.log[i].id \notin made'[w].after
    <3>1. i \in DOMAIN session.log /\ session'.log[i] = session.log[i]
      BY <2>4, <2>5, <2>8
    <3> QED
      BY <1>2, <1>4, <2>1, <2>7, <2>8, <3>1 DEF IInv, LogInv
  <2>9. ASSUME NEW i \in DOMAIN session'.log, session'.log[i].point,
               NEW j \in DOMAIN session'.log, IsWrite(session'.log[j])
        PROVE  /\ i < j /\ Contains(points'[made'[session'.log[j].id].in], session'.log[i].id)
                    => session'.log[i].id \in made'[session'.log[j].id].after
               /\ j < i => session'.log[i].id \notin made'[session'.log[j].id].after
    <3>1. i \in DOMAIN session.log /\ session'.log[i] = session.log[i] /\ session.log[i].point
      BY <2>8, <2>9
    <3>2. CASE j \in DOMAIN session.log
      <4>1. session'.log[j] = session.log[j] /\ session.log[j].id \in DOMAIN made
        BY <2>4, <2>9, <3>2 DEF IInv, LogInv
      <4>2. made'[session'.log[j].id] = made[session.log[j].id]
        BY <1>4, <4>1
      <4> QED
        BY <1>2, <2>9, <3>1, <3>2, <4>1, <4>2 DEF IInv, LogInv
    <3>3. CASE j = m
      <4>1. session'.log[j].id = n /\ ~(j < i)
        BY <2>4, <2>5, <3>1, <3>3
      <4>2. Contains(points[t], session.log[i].id) => session.log[i].id \in a
        <5>1. points[t] \in Seq(SavePoints) /\ DOMAIN points[t] = 1 .. Len(points[t])
          BY <1>1, <2>2 DEF TypeOK
        <5> QED
          BY <2>2, <5>1 DEF Contains, ToSet
      <4> QED
        BY <1>2, <1>4, <3>1, <4>1, <4>2
    <3> QED
      BY <2>4, <3>2, <3>3
  <2>10. ASSUME NEW i \in DOMAIN session'.log, IsWrite(session'.log[i])
         PROVE  /\ session'.log[i].id \in DOMAIN made'
                /\ made'[session'.log[i].id].in \in Open'
                /\ \A p \in made'[session'.log[i].id].after : fate'[p] # "undone"
    <3>1. CASE i \in DOMAIN session.log
      <4>1. session'.log[i] = session.log[i] /\ session.log[i].id \in DOMAIN made
        BY <2>4, <2>10, <3>1 DEF IInv, LogInv
      <4> QED
        BY <1>2, <1>4, <2>10, <3>1, <4>1 DEF IInv, LogInv
    <3>2. CASE i = m
      BY <1>2, <1>4, <2>2, <2>4, <2>5, <2>6, <3>2
    <3> QED
      BY <2>4, <3>1, <3>2
  <2> QED
    BY <2>8, <2>9, <2>10 DEF LogInv
<1> QED
  BY <1>5, <1>6

LEMMA LogCreate ==
    ASSUME IInv, NEW t \in Transactions, NEW p \in SavePoints, CreateSavePoint(t, p)
    PROVE  LogInv'
<1>1. /\ TypeOK /\ MadeInv /\ session \in Sessions /\ Reached \in Sessions
      /\ Reached.log = session.log /\ (~session.in_trx => session.log = <<>>)
      /\ Reached.in_trx = session.in_trx
      /\ points \in [Transactions -> Seq(SavePoints)]
      /\ fate \in [SavePoints -> {"none", "held", "released", "undone"}]
  BY Types, ReachedIs DEF IInv, TypeOK
<1>2. /\ UNCHANGED <<trans, made, durable>> /\ Open' = Open /\ fate[p] = "none"
      /\ fate' = [fate EXCEPT ![p] = "held"]
      /\ points' = [points EXCEPT ![t] = Append(@, p)]
  BY DEF CreateSavePoint, Open
<1>3. CASE ~session.in_trx
  <2>1. session'.log = <<>>
    BY <1>1, <1>3 DEF CreateSavePoint
  <2> QED
    BY <2>1, EmptyLog
<1>4. CASE session.in_trx
  <2>1. session'.log = Append(session.log, Point(p))
    BY <1>1, <1>4 DEF CreateSavePoint, Sessions
  <2> DEFINE m == Len(session.log) + 1
  <2>2. /\ DOMAIN session.log = 1 .. Len(session.log) /\ Len(session.log) \in Nat
        /\ session.log \in Seq(Entries)
    BY <1>1, LogTypes, Types
  <2>3. /\ m \notin DOMAIN session.log /\ DOMAIN session'.log = DOMAIN session.log \cup {m}
        /\ \A i \in DOMAIN session.log : session'.log[i] = session.log[i] /\ i < m /\ ~(m < i)
        /\ session'.log[m] = Point(p) /\ m \in Nat
    BY <2>1, <2>2
  <2>4. Point(p).point /\ Point(p).id = p /\ ~IsWrite(Point(p))
    BY DEF Point, Name, IsWrite
  <2> HIDE DEF m
  <2>5. fate'[p] = "held" /\ \A q \in SavePoints : q # p => fate'[q] = fate[q]
    BY <1>1, <1>2
  <2>6. \A w \in DOMAIN made : p \notin made[w].after /\ made[w].after \subseteq SavePoints
    BY <1>1, <1>2, MadeTypes DEF MadeInv
  <2>7. \A w \in durable : w \in DOMAIN made
    BY <1>1 DEF MadeInv
  <2>8. \A i \in DOMAIN session.log : session.log[i].point =>
          /\ session.log[i].id \in SavePoints /\ session.log[i].id # p
          /\ fate'[session.log[i].id] # "none"
    BY <1>1, <1>2, <2>5, LogTypes DEF IInv, LogInv
  <2>9. \A u \in Transactions, q \in SavePoints :
          q # p /\ Contains(points'[u], q) => Contains(points[u], q)
    <3> SUFFICES ASSUME NEW u \in Transactions, NEW q \in SavePoints, q # p,
                        Contains(points'[u], q)
                 PROVE  Contains(points[u], q)
      OBVIOUS
    <3>1. CASE u = t
      <4>1. /\ points'[t] = Append(points[t], p) /\ Len(points[t]) \in Nat
            /\ points[t] \in Seq(SavePoints)
        BY <1>1, <1>2
      <4> QED
        BY <3>1, <4>1 DEF Contains
    <3>2. CASE u # t
      BY <1>1, <1>2, <3>2
    <3> QED
      BY <3>1, <3>2
  <2>10. \A j \in DOMAIN session'.log : IsWrite(session'.log[j]) =>
           /\ j \in DOMAIN session.log /\ session'.log[j] = session.log[j]
           /\ session.log[j].id \in DOMAIN made /\ made[session.log[j].id].in \in Open
           /\ \A q \in made[session.log[j].id].after : fate[q] # "undone"
    BY <2>3, <2>4 DEF IInv, LogInv
  <2>11. ASSUME NEW i \in DOMAIN session'.log, session'.log[i].point
         PROVE  /\ fate'[session'.log[i].id] # "none"
                /\ \A w \in durable' : session'.log[i].id \notin made'[w].after
    <3>1. CASE i \in DOMAIN session.log
      BY <1>2, <2>3, <2>8, <2>11, <3>1 DEF IInv, LogInv
    <3>2. CASE i = m
      BY <1>2, <2>3, <2>4, <2>5, <2>6, <2>7, <3>2
    <3> QED
      BY <2>3, <3>1, <3>2
  <2>12. ASSUME NEW i \in DOMAIN session'.log, session'.log[i].point,
                NEW j \in DOMAIN session'.log, IsWrite(session'.log[j])
         PROVE  /\ i < j /\ Contains(points'[made'[session'.log[j].id].in], session'.log[i].id)
                     => session'.log[i].id \in made'[session'.log[j].id].after
                /\ j < i => session'.log[i].id \notin made'[session'.log[j].id].after
    <3>1. CASE i \in DOMAIN session.log
      <4>1. /\ session'.log[i] = session.log[i] /\ session'.log[j] = session.log[j]
            /\ j \in DOMAIN session.log /\ made[session.log[j].id].in \in Transactions
            /\ session.log[i].id \in SavePoints /\ session.log[i].id # p
        BY <2>3, <2>8, <2>10, <2>12, <3>1 DEF Open
      <4>2. Contains(points'[made[session.log[j].id].in], session.log[i].id)
              => Contains(points[made[session.log[j].id].in], session.log[i].id)
        BY <2>9, <4>1
      <4> QED
        BY <1>2, <2>12, <3>1, <4>1, <4>2 DEF IInv, LogInv
    <3>2. CASE i = m
      BY <1>2, <2>3, <2>4, <2>6, <2>10, <2>12, <3>2
    <3> QED
      BY <2>3, <3>1, <3>2
  <2>13. ASSUME NEW i \in DOMAIN session'.log, IsWrite(session'.log[i])
         PROVE  /\ session'.log[i].id \in DOMAIN made'
                /\ made'[session'.log[i].id].in \in Open'
                /\ \A q \in made'[session'.log[i].id].after : fate'[q] # "undone"
    BY <1>2, <2>5, <2>6, <2>10, <2>13
  <2> QED
    BY <2>11, <2>12, <2>13 DEF LogInv
<1> QED
  BY <1>3, <1>4

LEMMA RemovedShrinks ==
    ASSUME IInv, NEW p \in SavePoints, Ends(p), Listed(p), points' = Removed(p)
    PROVE  \A t \in Transactions, q \in SavePoints :
             Contains(points'[t], q) => Contains(points[t], q)
<1> SUFFICES ASSUME NEW t \in Transactions, NEW q \in SavePoints, Contains(points'[t], q)
             PROVE  Contains(points[t], q)
  OBVIOUS
<1>1. CASE t # owner[p]
  BY <1>1, RemovedIs
<1>2. CASE t = owner[p]
  <2>1. \E k \in 1 .. Len(points[owner[p]]) :
          /\ points[owner[p]][k] = p
          /\ Len(Removed(p)[owner[p]]) = Len(points[owner[p]]) - 1
          /\ \A i \in 1 .. Len(points[owner[p]]) - 1 :
               Removed(p)[owner[p]][i] =
                  IF i < k THEN points[owner[p]][i] ELSE points[owner[p]][i + 1]
    BY RemovedIs
  <2>2. Len(points[t]) \in Nat
    BY DEF IInv, TypeOK
  <2>3. PICK k \in 1 .. Len(points[t]) :
          /\ Len(points'[t]) = Len(points[t]) - 1
          /\ \A i \in 1 .. Len(points[t]) - 1 :
               points'[t][i] = IF i < k THEN points[t][i] ELSE points[t][i + 1]
    BY <1>2, <2>1
  <2>4. PICK i \in 1 .. Len(points'[t]) : points'[t][i] = q
    BY DEF Contains
  <2>5. i \in 1 .. Len(points[t]) /\ i + 1 \in 1 .. Len(points[t])
    BY <2>2, <2>3, <2>4
  <2> QED
    BY <2>2, <2>3, <2>4, <2>5 DEF Contains
<1> QED
  BY <1>1, <1>2

LEMMA LogNext ==
    ASSUME IInv, Next
    PROVE  LogInv'
<1> USE DEF objects, user
<1>1. /\ TypeOK /\ SessionInv /\ session \in Sessions /\ Reached \in Sessions
      /\ fate \in [SavePoints -> {"none", "held", "released", "undone"}]
      /\ Reached.log = session.log /\ (~session.in_trx => session.log = <<>>)
      /\ Reached.in_trx = session.in_trx /\ session.log \in Seq(Entries)
  BY Types, ReachedIs DEF IInv, TypeOK
<1>2. ASSUME session'.log = session.log, UNCHANGED <<made, durable, trans>>,
             \A p \in SavePoints : fate'[p] = fate[p],
             \A t \in Transactions, p \in SavePoints :
               Contains(points'[t], p) => Contains(points[t], p),
             session' \in Sessions
      PROVE  LogInv'
  <2>1. Thinned
    BY <1>1, <1>2, SameThins
  <2>2. \A i \in 1 .. Len(session'.log) : IsWrite(session'.log[i]) =>
          \A p \in made[session'.log[i].id].after : fate'[p] # "undone"
    <3>1. \A i \in DOMAIN session.log : IsWrite(session.log[i]) =>
            /\ session.log[i].id \in DOMAIN made
            /\ \A p \in made[session.log[i].id].after : fate[p] # "undone"
      BY DEF IInv, LogInv
    <3>2. \A w \in DOMAIN made : made[w].after \subseteq SavePoints
      BY <1>1, MadeTypes
    <3>3. DOMAIN session.log = 1 .. Len(session.log)
      BY <1>1
    <3> QED
      BY <1>2, <3>1, <3>2, <3>3
  <2> QED
    BY <1>2, <2>1, <2>2, ThinnedKeeps
<1>3. ASSUME session'.log = session.log, UNCHANGED <<made, durable, trans, fate, points>>
      PROVE  LogInv'
  BY <1>3 DEF IInv, LogInv, Open
<1>4. ASSUME NEW t \in Transactions, SetIsolation(t) \/ EndOnNoHandle(t) PROVE LogInv'
  <2>1. session'.log = session.log
    BY <1>1, <1>4 DEF SetIsolation, Leveled, EndOnNoHandle, Sessions
  <2> QED
    BY <1>3, <1>4, <2>1 DEF SetIsolation, EndOnNoHandle
<1>5. CASE StartThrows \/ UseGone
  BY <1>3, <1>5 DEF StartThrows, UseGone
<1>6. ASSUME NEW p \in SavePoints, EndsUnlisted(p) PROVE LogInv'
  BY <1>3, <1>6 DEF EndsUnlisted, Ends
<1>7. CASE Start
  <2>1. session'.log = <<>>
    BY <1>1, <1>7 DEF Start, Started, SessionInv, Sessions
  <2> QED
    BY <2>1, EmptyLog
<1>8. CASE Disconnect \/ Lose
  <2>1. session'.log = <<>>
    BY <1>8 DEF Disconnect, Lose, Lost, Fresh
  <2> QED
    BY <2>1, EmptyLog
<1>9. ASSUME NEW t \in Transactions, Commit(t) \/ DestroyTransaction(t) PROVE LogInv'
  <2>1. session'.log = <<>>
    BY <1>1, <1>9 DEF Commit, DestroyTransaction, Ended, Fresh, SessionInv
  <2> QED
    BY <2>1, EmptyLog
<1>10. ASSUME NEW t \in Transactions, NEW p \in SavePoints, CreateSavePoint(t, p) PROVE LogInv'
  BY <1>10, LogCreate
<1>11. CASE WriteRow
  BY <1>11, LogWriteRow
<1>12. ASSUME NEW p \in SavePoints, CommitSavePoint(p) PROVE LogInv'
  <2>1. /\ Ends(p) /\ Listed(p) /\ points' = Removed(p) /\ fate[p] \in {"held", "released"}
        /\ UNCHANGED <<made, durable, trans>>
        /\ \/ Known(p) /\ session' = ReleasePoint(p) /\ fate' = [fate EXCEPT ![p] = "released"]
           \/ session' = Reached /\ fate' = fate
    BY <1>12 DEF CommitSavePoint, Ends
  <2>2. \A t \in Transactions, q \in SavePoints :
          Contains(points'[t], q) => Contains(points[t], q)
    BY <2>1, RemovedShrinks
  <2>3. CASE session' = Reached /\ fate' = fate
    BY <1>1, <1>2, <2>1, <2>2, <2>3
  <2>4. CASE Known(p) /\ session' = ReleasePoint(p) /\ fate' = [fate EXCEPT ![p] = "released"]
    <3>1. fate'[p] = "released" /\ \A q \in SavePoints : q # p => fate'[q] = fate[q]
      BY <1>1, <2>4
    <3>2. Thinned
      BY <2>4, ReleaseThins
    <3>3. ASSUME NEW i \in 1 .. Len(session'.log), IsWrite(session'.log[i])
          PROVE  \A q \in made[session'.log[i].id].after : fate'[q] # "undone"
      <4>1. session'.log[i] = session.log[i] /\ i \in DOMAIN session.log
        BY <1>1, <3>3, <2>4, ReleaseThins DEF Gap, IsWrite
      <4>2. /\ session.log[i].id \in DOMAIN made
            /\ \A q \in made[session.log[i].id].after : fate[q] # "undone"
        BY <3>3, <4>1 DEF IInv, LogInv
      <4>3. made[session.log[i].id].after \subseteq SavePoints
        BY <1>1, <4>2, MadeTypes
      <4> QED
        BY <3>1, <4>1, <4>2, <4>3
    <3>4. \A q \in SavePoints : fate[q] # "none" => fate'[q] # "none"
      BY <3>1
    <3> QED
      BY <2>1, <2>2, <3>2, <3>3, <3>4, ThinnedKeeps
  <2> QED
    BY <2>1, <2>3, <2>4
<1>13. ASSUME NEW p \in SavePoints, DestroySavePoint(p) PROVE LogInv'
  <2>1. /\ Ends(p) /\ Listed(p) /\ points' = Removed(p) /\ fate[p] \in {"held", "released"}
        /\ UNCHANGED <<made, durable, trans>>
        /\ Known(p) => session' = RollBackTo(p) /\ fate' = [fate EXCEPT ![p] = "undone"]
        /\ ~Known(p) => session' = Reached /\ fate' = [fate EXCEPT ![p] = @]
    BY <1>13 DEF DestroySavePoint, Ends
  <2>2. \A t \in Transactions, q \in SavePoints :
          Contains(points'[t], q) => Contains(points[t], q)
    BY <2>1, RemovedShrinks
  <2>3. CASE ~Known(p)
    BY <1>1, <1>2, <2>1, <2>2, <2>3
  <2>4. CASE Known(p)
    <3>1. /\ fate'[p] = "undone" /\ (\A q \in SavePoints : q # p => fate'[q] = fate[q])
          /\ session' = RollBackTo(p)
      BY <1>1, <2>1, <2>4
    <3>2. /\ Position(p) \in DOMAIN session.log /\ session.log[Position(p)] = Point(p)
          /\ Point(p).point /\ Point(p).id = p /\ ~IsWrite(Point(p))
      BY <1>1, <2>4, PositionOf, LogTypes DEF Point, Name, IsWrite
    <3>3. ASSUME NEW i \in 1 .. Len(session'.log), IsWrite(session'.log[i])
          PROVE  \A q \in made[session'.log[i].id].after : fate'[q] # "undone"
      <4>1. session'.log[i] = session.log[i] /\ i \in DOMAIN session.log /\ i <= Position(p)
        BY <1>1, <2>4, <3>1, <3>2, <3>3, RollBackThins, LogTypes
      <4>2. i < Position(p)
        BY <1>1, <3>2, <3>3, <4>1, LogTypes
      <4>3. /\ session.log[i].id \in DOMAIN made
            /\ \A q \in made[session.log[i].id].after : fate[q] # "undone"
            /\ p \notin made[session.log[i].id].after
        BY <3>2, <3>3, <4>1, <4>2 DEF IInv, LogInv
      <4>4. made[session.log[i].id].after \subseteq SavePoints
        BY <1>1, <4>3, MadeTypes
      <4> QED
        BY <3>1, <4>1, <4>3, <4>4
    <3>4. \A q \in SavePoints : fate[q] # "none" => fate'[q] # "none"
      BY <3>1
    <3>5. Thinned
      BY <2>4, <3>1, RollBackThins
    <3> QED
      BY <2>1, <2>2, <3>3, <3>4, <3>5, ThinnedKeeps
  <2> QED
    BY <2>3, <2>4
<1> QED
  BY <1>4, <1>5, <1>6, <1>7, <1>8, <1>9, <1>10, <1>11, <1>12, <1>13 DEF Next

-----------------------------------------------------------------------------
(* The theorems.                                                            *)

LEMMA InvNext == IInv /\ [Next]_vars => IInv'
<1> SUFFICES ASSUME IInv, [Next]_vars PROVE IInv'
  OBVIOUS
<1>1. CASE Next
  <2>1. TypeOK' /\ PointsInv' /\ LogInv'
    BY <1>1, TypeNext, PointsNext, LogNext
  <2>2. SessionInv'
    BY <1>1, <2>1, SessionNext
  <2>3. MadeInv'
    BY <1>1, <2>1, <2>2, MadeNext
  <2> QED
    BY <2>1, <2>2, <2>3 DEF IInv
<1>2. CASE UNCHANGED vars
  <2>1. UNCHANGED <<handle, session, durable, starting, trans, isolated, points, owner, fate>>
    BY <1>2 DEF vars, objects
  <2>2. UNCHANGED <<made, crashed, losses, hit, ordered, ending, left>>
    BY <1>2 DEF vars, user
  <2>3. TypeOK'
    BY <2>1, <2>2 DEF IInv, TypeOK
  <2>4. PointsInv' /\ SessionInv'
    BY <2>1, <2>2 DEF IInv, PointsInv, SessionInv, Open
  <2>5. MadeInv'
    BY <2>1, <2>2, HeldSame DEF IInv, MadeInv
  <2>6. LogInv'
    BY <2>1, <2>2 DEF IInv, LogInv, Open
  <2> QED
    BY <2>3, <2>4, <2>5, <2>6 DEF IInv
<1> QED
  BY <1>1, <1>2

LEMMA Invariance == Spec => []IInv
BY InvInit, InvNext, PTL DEF Spec

\* Every variable stays within its type.
THEOREM TypeCorrect == Spec => []TypeOK
<1>1. IInv => TypeOK
  BY DEF IInv
<1> QED
  BY <1>1, Invariance, PTL

\* A transaction lists exactly the live save points that point back to it, each once:
\* cleanup() and remove_save_point() never follow a dangling pointer.
THEOREM PointersAreValid == Spec => []PointersValid
<1>1. ASSUME IInv, NEW t \in Transactions, NEW p \in ToSet(points[t])
      PROVE  fate[p] = "held" /\ owner[p] = t /\ trans[t] = "open"
  BY <1>1 DEF IInv, PointsInv, ToSet
<1>2. IInv => PointersValid
  BY <1>1 DEF IInv, PointsInv, PointersValid
<1> QED
  BY <1>2, Invariance, PTL

\* Whatever the losses, mysql_commit() and mysql_rollback() get a null or dangling
\* handle only from a transaction that was there when the user closed the connection.
THEOREM EndsAreSafe == Spec => []EndIsSafe
<1>1. IInv => EndIsSafe
  BY DEF IInv, SessionInv, EndIsSafe
<1> QED
  BY <1>1, Invariance, PTL

\* Unless a loss hits a transaction, it runs at the isolation level it was given.
THEOREM IsolationIsKept == Spec => []IsolationKept
<1>1. IInv => IsolationKept
  BY DEF IInv, SessionInv, IsolationKept
<1> QED
  BY <1>1, Invariance, PTL

\* A destroyed save point has taken the writes made after it along, for good.
THEOREM SavePointsUndo == Spec => []SavePointUndoes
<1>1. ASSUME IInv, NEW w \in Held \cup durable, NEW p \in made[w].after
      PROVE  fate[p] # "undone"
  <2>1. CASE w \in Held
    BY <1>1, <2>1, HeldWrites
  <2>2. CASE w \in durable
    BY <1>1, <2>2 DEF IInv, MadeInv
  <2> QED
    BY <2>1, <2>2
<1>2. IInv => SavePointUndoes
  BY <1>1 DEF SavePointUndoes
<1> QED
  BY <1>2, Invariance, PTL

\* What the server holds belongs to a transaction object that can still end it; and
\* unless a loss hits a transaction, its writes become durable when commit() is called,
\* all of them and not before.
THEOREM ChangesAreHeldBack == Spec => []HeldBack
<1>1. ASSUME IInv PROVE \A w \in Held : made[w].in \in Open
  BY <1>1, HeldWrites
<1>2. ASSUME IInv, ~hit, NEW w \in durable, made[w].in # Nobody
      PROVE  trans[made[w].in] = "committed"
  BY <1>2 DEF IInv, MadeInv
<1>3. ASSUME IInv, ~hit PROVE CommitsAll
  BY <1>3 DEF IInv, MadeInv, CommitsAll
<1>4. IInv => HeldBack
  BY <1>1, <1>2, <1>3 DEF HeldBack
<1> QED
  BY <1>4, Invariance, PTL

\* Unless a loss hits a transaction, the rollback of a destructor undoes no write of
\* another transaction.
THEOREM RollsBackOwn == Spec => RollbackOwn
<1>1. ASSUME IInv, NEW t \in Transactions,
             ~hit, trans'[t] = "undone", trans[t] = "open", NEW w \in Held \ Held'
      PROVE  made[w].in = t
  <2>1. w \in Held /\ made[w].in \in Open
    BY <1>1, HeldWrites
  <2>2. t \in Open
    BY <1>1 DEF Open
  <2> QED
    BY <1>1, <2>1, <2>2 DEF IInv, SessionInv
<1>2. IInv =>
        [\A t \in Transactions : ~hit /\ trans'[t] = "undone" /\ trans[t] = "open" =>
           \A w \in Held \ Held' : made[w].in = t]_vars
  BY <1>1
<1> QED
  BY <1>2, Invariance, PTL DEF Spec, RollbackOwn

-----------------------------------------------------------------------------
(* The lists and the points the server knows.                               *)

PointsOnce ==
    \A i, j \in DOMAIN session.log :
        session.log[i].point /\ session.log[i] = session.log[j] => i = j

\* The points a transaction lists are those of the server that are held, and in order.
Mirrors(t) ==
    /\ \A k \in DOMAIN points[t] :
         \E i \in DOMAIN session.log : session.log[i] = Point(points[t][k])
    /\ \A i \in DOMAIN session.log :
         session.log[i].point /\ fate[session.log[i].id] = "held" =>
           \E k \in DOMAIN points[t] : points[t][k] = session.log[i].id
    /\ \A k, l \in DOMAIN points[t], i, j \in DOMAIN session.log :
         /\ k < l
         /\ session.log[i] = Point(points[t][k])
         /\ session.log[j] = Point(points[t][l])
         => i < j

MirrorInv ==
    ~hit /\ ordered =>
        /\ ~crashed
        /\ \A p \in SavePoints : fate[p] \in {"held", "released"} /\ owner[p] # Nobody => Listed(p)
        /\ \A t \in Open : Mirrors(t)

LEMMA OnceNext ==
    ASSUME IInv, PointsOnce, Next
    PROVE  PointsOnce'
<1> USE DEF objects, user
<1>1. /\ TypeOK /\ SessionInv /\ session \in Sessions /\ Reached \in Sessions
      /\ Reached.log = session.log /\ (~session.in_trx => session.log = <<>>)
      /\ Reached.in_trx = session.in_trx /\ session.log \in Seq(Entries)
      /\ Len(session.log) \in Nat /\ DOMAIN session.log = 1 .. Len(session.log)
  BY Types, ReachedIs, LogTypes DEF IInv, TypeOK
<1>2. ASSUME session'.log = session.log PROVE PointsOnce'
  BY <1>2 DEF PointsOnce
<1>3. ASSUME session'.log = <<>> PROVE PointsOnce'
  <2>1. DOMAIN <<>> = {}
    OBVIOUS
  <2> QED
    BY <1>3, <2>1 DEF PointsOnce
<1>4. ASSUME Thinned PROVE PointsOnce'
  <2>1. DOMAIN session'.log = 1 .. Len(session'.log) /\ Len(session'.log) \in Nat
    <3>1. session'.log \in Seq(Entries)
      BY <1>4 DEF Thinned, Sessions
    <3> QED
      BY <3>1
  <2>2. \A i \in DOMAIN session'.log : session'.log[i].point =>
          i \in DOMAIN session.log /\ session'.log[i] = session.log[i]
    BY <1>1, <1>4, <2>1 DEF Thinned, Gap
  <2> QED
    BY <2>2 DEF PointsOnce
<1>5. ASSUME NEW e \in Entries, session'.log = Append(session.log, e),
             e.point => \A i \in DOMAIN session.log : session.log[i] # e
      PROVE  PointsOnce'
  <2> DEFINE m == Len(session.log) + 1
  <2>1. /\ DOMAIN session'.log = DOMAIN session.log \cup {m}
        /\ \A i \in DOMAIN session.log : session'.log[i] = session.log[i]
        /\ session'.log[m] = e
    BY <1>1, <1>5
  <2> HIDE DEF m
  <2> QED
    BY <1>5, <2>1 DEF PointsOnce
<1>6. ASSUME NEW t \in Transactions, SetIsolation(t) \/ EndOnNoHandle(t) PROVE PointsOnce'
  <2>1. session'.log = session.log
    BY <1>1, <1>6 DEF SetIsolation, Leveled, EndOnNoHandle, Sessions
  <2> QED
    BY <1>2, <2>1
<1>7. CASE StartThrows \/ UseGone
  BY <1>2, <1>7 DEF StartThrows, UseGone
<1>8. CASE Start
  <2>1. session'.log = session.log
    BY <1>1, <1>8 DEF Start, Started, Sessions
  <2> QED
    BY <1>2, <2>1
<1>9. CASE Disconnect \/ Lose
  <2>1. session'.log = <<>>
    BY <1>9 DEF Disconnect, Lose, Lost, Fresh
  <2> QED
    BY <1>3, <2>1
<1>10. ASSUME NEW t \in Transactions, Commit(t) \/ DestroyTransaction(t) PROVE PointsOnce'
  <2>1. session'.log = <<>>
    BY <1>1, <1>10 DEF Commit, DestroyTransaction, Ended, Fresh, SessionInv
  <2> QED
    BY <1>3, <2>1
<1>11. ASSUME NEW t \in Transactions, NEW p \in SavePoints, CreateSavePoint(t, p)
       PROVE  PointsOnce'
  <2>1. CASE session.in_trx
    <3>1. session'.log = Append(session.log, Point(p)) /\ fate[p] = "none"
      BY <1>1, <1>11, <2>1 DEF CreateSavePoint, Sessions
    <3>2. Point(p) \in Entries /\ Point(p).point /\ Point(p).id = p
      BY DEF Point, Name, Entries
    <3>3. \A i \in DOMAIN session.log : session.log[i] # Point(p)
      BY <3>1, <3>2 DEF IInv, LogInv
    <3> QED
      BY <1>5, <3>1, <3>2, <3>3
  <2>2. CASE ~session.in_trx
    <3>1. session'.log = session.log
      BY <1>1, <1>11, <2>2 DEF CreateSavePoint
    <3> QED
      BY <1>2, <3>1
  <2> QED
    BY <2>1, <2>2
<1>12. CASE WriteRow
  <2> DEFINE n == Len(made) + 1
  <2>1. n \in Writes
    BY <1>12, NewWrite
  <2>2. CASE session.in_trx
    <3>1. session'.log = Append(session.log, Write(n))
      BY <1>1, <1>12, <2>2 DEF WriteRow, Sessions
    <3> HIDE DEF n
    <3>2. Write(n) \in Entries /\ ~Write(n).point
      BY <2>1 DEF Write, Entries
    <3> QED
      BY <1>5, <3>1, <3>2
  <2>3. CASE ~session.in_trx
    <3>1. session'.log = session.log
      BY <1>1, <1>12, <2>3 DEF WriteRow
    <3> QED
      BY <1>2, <3>1
  <2> QED
    BY <2>2, <2>3
<1>13. ASSUME NEW p \in SavePoints, CommitSavePoint(p) \/ DestroySavePoint(p) \/ EndsUnlisted(p)
       PROVE  PointsOnce'
  <2>1. \/ Known(p) /\ session' = ReleasePoint(p)
        \/ Known(p) /\ session' = RollBackTo(p)
        \/ session'.log = session.log
    BY <1>1, <1>13 DEF CommitSavePoint, DestroySavePoint, EndsUnlisted
  <2> QED
    BY <1>2, <1>4, <2>1, ReleaseThins, RollBackThins
<1> QED
  BY <1>6, <1>7, <1>8, <1>9, <1>10, <1>11, <1>12, <1>13 DEF Next

\* Nothing is listed or owned unless a transaction is open.
LEMMA OwnedIsOpen ==
    ASSUME IInv, ~hit, ordered, MirrorInv, NEW p \in SavePoints,
           fate[p] \in {"held", "released"}, owner[p] # Nobody
    PROVE  owner[p] \in Open /\ Contains(points[owner[p]], p) /\ handle = "kept"
<1>1. PICK t \in Transactions : Contains(points[t], p)
  BY DEF MirrorInv, Listed
<1>2. PICK k \in DOMAIN points[t] : points[t][k] = p
  <2>1. points[t] \in Seq(SavePoints)
    BY DEF IInv, TypeOK
  <2> QED
    BY <1>1, <2>1 DEF Contains
<1>3. owner[p] = t /\ t \in Open
  BY <1>2 DEF IInv, PointsInv, Open
<1> QED
  BY <1>1, <1>3 DEF IInv, SessionInv

\* A step that leaves the objects, and the points the server holds, as they are.
LEMMA MirrorSame ==
    ASSUME IInv, MirrorInv, UNCHANGED <<trans, points, fate, owner>>, hit => hit',
           ordered' => ordered, ~hit' /\ ordered' => ~crashed',
           ~hit' => \A i \in DOMAIN session'.log : session'.log[i].point =>
                      i \in DOMAIN session.log /\ session'.log[i] = session.log[i],
           ~hit' => \A i \in DOMAIN session.log : session.log[i].point =>
                      i \in DOMAIN session'.log /\ session'.log[i] = session.log[i]
    PROVE  MirrorInv'
<1> SUFFICES ASSUME ~hit', ordered'
             PROVE  /\ ~crashed'
                    /\ \A p \in SavePoints :
                         fate'[p] \in {"held", "released"} /\ owner'[p] # Nobody => Listed(p)'
                    /\ \A t \in Open' : Mirrors(t)'
  BY DEF MirrorInv
<1>1. /\ \A p \in SavePoints : fate[p] \in {"held", "released"} /\ owner[p] # Nobody => Listed(p)
      /\ \A t \in Open : Mirrors(t)
  BY DEF MirrorInv
<1>2. Open' = Open /\ \A p \in SavePoints : Listed(p)' <=> Listed(p)
  BY DEF Open, Listed
<1>3. \A p : Point(p).point
  BY DEF Point
<1>4. ASSUME NEW t \in Open, Mirrors(t) PROVE Mirrors(t)'
  <2>1. \A i : \A p : (i \in DOMAIN session'.log /\ session'.log[i] = Point(p))
                  <=> (i \in DOMAIN session.log /\ session.log[i] = Point(p))
    BY <1>3
  <2>2. \A k \in DOMAIN points[t] :
         \E i \in DOMAIN session'.log : session'.log[i] = Point(points[t][k])
    BY <1>4, <2>1 DEF Mirrors
  <2>3. \A i \in DOMAIN session'.log :
         session'.log[i].point /\ fate[session'.log[i].id] = "held" =>
           \E k \in DOMAIN points[t] : points[t][k] = session'.log[i].id
    BY <1>4 DEF Mirrors
  <2>4. \A k, l \in DOMAIN points[t], i, j \in DOMAIN session'.log :
         /\ k < l
         /\ session'.log[i] = Point(points[t][k])
         /\ session'.log[j] = Point(points[t][l])
         => i < j
    BY <1>4, <2>1 DEF Mirrors
  <2> QED
    BY <2>2, <2>3, <2>4 DEF Mirrors
<1> QED
  BY <1>1, <1>2, <1>4

\* The end of a save point that was listed last.
LEMMA MirrorEnds ==
    ASSUME IInv, PointsOnce, MirrorInv, NEW p \in SavePoints, Ends(p), Listed(p),
           points' = Removed(p), UNCHANGED <<trans, hit>>, ordered' => ordered,
           Known(p) => ~crashed', fate'[p] # "held", owner'[p] = Nobody \/ ~Known(p),
           \A q \in SavePoints : q # p => fate'[q] = fate[q] /\ owner'[q] = owner[q],
           Known(p) =>
             /\ \A i \in DOMAIN session'.log : session'.log[i].point =>
                  i \in DOMAIN session.log /\ session'.log[i] = session.log[i]
             /\ \A i \in DOMAIN session.log : session.log[i].point /\ i < Position(p) =>
                  i \in DOMAIN session'.log /\ session'.log[i] = session.log[i]
    PROVE  MirrorInv'
<1> SUFFICES ASSUME ~hit', ordered'
             PROVE  /\ ~crashed'
                    /\ \A q \in SavePoints :
                         fate'[q] \in {"held", "released"} /\ owner'[q] # Nobody => Listed(q)'
                    /\ \A t \in Open' : Mirrors(t)'
  BY DEF MirrorInv
<1>0. owner[p] \in Open
  BY RemovedIs DEF Open
<1> PICK t \in Open : t = owner[p]
  BY <1>0
<1> DEFINE n == Len(points[t])
<1>1. /\ \A q \in SavePoints : fate[q] \in {"held", "released"} /\ owner[q] # Nobody => Listed(q)
      /\ Mirrors(t)
      /\ TypeOK /\ points \in [Transactions -> Seq(SavePoints)]
      /\ Open' = Open /\ \A u \in Open : t = u
  BY DEF MirrorInv, IInv, TypeOK, SessionInv, Open
<1>2. points[t] \in Seq(SavePoints) /\ n \in Nat /\ DOMAIN points[t] = 1 .. n /\ t \in Transactions
  BY <1>1 DEF Open
<1>3. /\ n # 0 /\ points[t][n] = p
      /\ points'[t] \in Seq(SavePoints) /\ DOMAIN points'[t] = 1 .. n - 1
      /\ \A k \in 1 .. n - 1 : points'[t][k] = points[t][k] /\ k \in DOMAIN points[t]
  <2>1. /\ Removed(p) \in [Transactions -> Seq(SavePoints)]
        /\ \E k \in 1 .. Len(points[owner[p]]) :
             /\ points[owner[p]][k] = p
             /\ Len(Removed(p)[owner[p]]) = Len(points[owner[p]]) - 1
             /\ \A i \in 1 .. Len(points[owner[p]]) - 1 :
                  Removed(p)[owner[p]][i] =
                     IF i < k THEN points[owner[p]][i] ELSE points[owner[p]][i + 1]
    BY RemovedIs
  <2>2. PICK k \in 1 .. n :
             /\ points[t][k] = p
             /\ Len(points'[t]) = n - 1
             /\ \A i \in 1 .. n - 1 :
                  points'[t][i] = IF i < k THEN points[t][i] ELSE points[t][i + 1]
    BY <2>1
  <2>3. p = points[t][n]
    BY DEF Ends, Last
  <2> HIDE DEF n
  <2>4. k = n
    <3>1. IsInjective(points[t])
      BY <1>2 DEF IInv, PointsInv
    <3>2. k \in 1 .. n /\ points[t][k] = points[t][n]
      BY <2>2, <2>3
    <3>3. k \in DOMAIN points[t] /\ n \in DOMAIN points[t]
      BY <1>2, <3>2
    <3> QED
      BY <3>1, <3>2, <3>3 DEF IsInjective
  <2>5. points'[t] \in Seq(SavePoints)
    BY <1>2, <2>1
  <2>6. n # 0 /\ DOMAIN points'[t] = 1 .. n - 1
    BY <1>2, <2>2, <2>5
  <2>7. \A i \in 1 .. n - 1 : points'[t][i] = points[t][i] /\ i \in DOMAIN points[t]
    BY <1>2, <2>2, <2>4
  <2> QED
    BY <2>3, <2>5, <2>6, <2>7
<1> HIDE DEF n
<1>4. /\ \A k \in 1 .. n - 1 : points[t][k] # p
      /\ \A q \in SavePoints : q # p /\ Contains(points[t], q) => Contains(points'[t], q)
  <2>1. IsInjective(points[t])
    BY <1>2 DEF IInv, PointsInv
  <2>2. \A k \in 1 .. n - 1 : points[t][k] # p
    BY <1>2, <1>3, <2>1 DEF IsInjective
  <2>3. ASSUME NEW q \in SavePoints, q # p, Contains(points[t], q)
        PROVE  Contains(points'[t], q)
    <3>1. PICK k \in 1 .. n : points[t][k] = q
      BY <1>2, <2>3 DEF Contains, n
    <3>2. k \in 1 .. n - 1 /\ Len(points'[t]) = n - 1
      BY <1>2, <1>3, <2>3, <3>1
    <3> QED
      BY <1>3, <3>1, <3>2 DEF Contains
  <2> QED
    BY <2>2, <2>3
<1>5. /\ session.live /\ session.in_trx /\ Known(p)
      /\ Position(p) \in DOMAIN session.log /\ session.log[Position(p)] = Point(p)
  <2>1. PICK i \in DOMAIN session.log : session.log[i] = Point(p)
    BY <1>1, <1>2, <1>3 DEF Mirrors
  <2>2. Reached.log = session.log /\ DOMAIN session.log = 1 .. Len(session.log)
    BY <1>1, ReachedIs, LogTypes DEF IInv
  <2>3. Known(p)
    BY <2>1, <2>2 DEF Known, Contains
  <2> QED
    BY <2>2, <2>3, PositionOf
<1>6. /\ \A i \in DOMAIN session'.log : session'.log[i].point =>
           i \in DOMAIN session.log /\ session'.log[i] = session.log[i]
      /\ \A i \in DOMAIN session.log : session.log[i].point /\ i < Position(p) =>
           i \in DOMAIN session'.log /\ session'.log[i] = session.log[i]
      /\ ~crashed' /\ owner'[p] = Nobody
  BY <1>5
<1>7. ASSUME NEW q \in SavePoints, fate'[q] \in {"held", "released"}, owner'[q] # Nobody
      PROVE  Listed(q)'
  <2>1. q # p /\ fate[q] \in {"held", "released"} /\ owner[q] # Nobody
    BY <1>6, <1>7
  <2>2. owner[q] \in Open /\ Contains(points[owner[q]], q)
    BY <2>1, OwnedIsOpen
  <2>3. owner[q] = t
    BY <1>1, <2>2
  <2> QED
    BY <1>2, <1>4, <2>1, <2>2, <2>3 DEF Listed
<1>8. Mirrors(t)'
  <2>1. \A q : Point(q).point /\ Point(q).id = q
    BY DEF Point, Name
  <2>2. ASSUME NEW k \in DOMAIN points'[t]
        PROVE  \E i \in DOMAIN session'.log : session'.log[i] = Point(points'[t][k])
    <3>1. /\ k \in 1 .. n - 1 /\ points'[t][k] = points[t][k]
          /\ k \in DOMAIN points[t] /\ n \in DOMAIN points[t] /\ k < n
      BY <1>2, <1>3, <2>2
    <3>2. PICK i \in DOMAIN session.log : session.log[i] = Point(points[t][k])
      BY <1>1, <3>1 DEF Mirrors
    <3>3. i < Position(p)
      BY <1>1, <1>3, <1>5, <3>1, <3>2 DEF Mirrors
    <3>4. i \in DOMAIN session'.log /\ session'.log[i] = session.log[i]
      BY <1>6, <2>1, <3>2, <3>3
    <3> QED
      BY <3>1, <3>2, <3>4
  <2>3. ASSUME NEW i \in DOMAIN session'.log, session'.log[i].point,
               fate'[session'.log[i].id] = "held"
        PROVE  \E k \in DOMAIN points'[t] : points'[t][k] = session'.log[i].id
    <3>1. i \in DOMAIN session.log /\ session'.log[i] = session.log[i]
          /\ session.log[i].id \in SavePoints
      BY <1>1, <1>6, <2>3, LogTypes
    <3>2. session.log[i].id # p /\ fate[session.log[i].id] = "held"
      BY <2>3, <3>1
    <3>3. PICK k \in DOMAIN points[t] : points[t][k] = session.log[i].id
      BY <1>1, <2>3, <3>1, <3>2 DEF Mirrors
    <3>4. k \in 1 .. n - 1
      BY <1>2, <1>3, <3>2, <3>3
    <3> QED
      BY <1>3, <3>1, <3>3, <3>4
  <2>4. ASSUME NEW k \in DOMAIN points'[t], NEW l \in DOMAIN points'[t],
               NEW i \in DOMAIN session'.log, NEW j \in DOMAIN session'.log,
               k < l, session'.log[i] = Point(points'[t][k]),
               session'.log[j] = Point(points'[t][l])
        PROVE  i < j
    <3>1. /\ i \in DOMAIN session.log /\ session'.log[i] = session.log[i]
          /\ j \in DOMAIN session.log /\ session'.log[j] = session.log[j]
      BY <1>6, <2>1, <2>4
    <3>2. /\ k \in DOMAIN points[t] /\ points'[t][k] = points[t][k]
          /\ l \in DOMAIN points[t] /\ points'[t][l] = points[t][l]
      BY <1>3, <2>4
    <3> QED
      <4>1. session.log[i] = Point(points[t][k]) /\ session.log[j] = Point(points[t][l])
        BY <2>4, <3>1, <3>2
      <4> QED
        BY <1>1, <2>4, <3>1, <3>2, <4>1 DEF Mirrors
  <2> QED
    BY <2>2, <2>3, <2>4 DEF Mirrors
<1> QED
  BY <1>1, <1>6, <1>7, <1>8

\* The server knows every point that is listed.
LEMMA MirrorKnows ==
    ASSUME IInv, MirrorInv, NEW p \in SavePoints, Ends(p), Listed(p), ~Known(p),
           ordered' => ordered, hit' = hit
    PROVE  MirrorInv'
<1> SUFFICES ASSUME ~hit, ordered PROVE FALSE
  BY DEF MirrorInv
<1>1. PICK k \in 1 .. Len(points[owner[p]]) : points[owner[p]][k] = p
  <2>1. \E k \in 1 .. Len(points[owner[p]]) :
          /\ points[owner[p]][k] = p
          /\ Len(Removed(p)[owner[p]]) = Len(points[owner[p]]) - 1
          /\ \A i \in 1 .. Len(points[owner[p]]) - 1 :
               Removed(p)[owner[p]][i] =
                  IF i < k THEN points[owner[p]][i] ELSE points[owner[p]][i + 1]
    BY RemovedIs
  <2> QED
    BY <2>1
<1>2. owner[p] \in Open /\ points[owner[p]] \in Seq(SavePoints)
  BY RemovedIs DEF Open, IInv, TypeOK
<1>3. PICK i \in DOMAIN session.log : session.log[i] = Point(p)
  <2>1. Mirrors(owner[p]) /\ k \in DOMAIN points[owner[p]]
    BY <1>1, <1>2 DEF MirrorInv
  <2> QED
    BY <1>1, <2>1 DEF Mirrors
<1>4. Reached.log = session.log /\ DOMAIN session.log = 1 .. Len(session.log)
  BY ReachedIs, LogTypes DEF IInv
<1> QED
  BY <1>3, <1>4 DEF Known, Contains

\* Unless it hits a transaction, a loss leaves nothing to mirror.
LEMMA MirrorLost ==
    ASSUME IInv, MirrorInv, Disconnect \/ Lose
    PROVE  MirrorInv'
<1> USE DEF objects, user
<1>1. /\ UNCHANGED <<trans, points, owner, fate, crashed, ordered>>
      /\ ~hit' => ~hit /\ Open = {}
  BY DEF Disconnect, Lose
<1>2. Open' = Open /\ \A p \in SavePoints : Listed(p)' <=> Listed(p)
  BY <1>1 DEF Open, Listed
<1> SUFFICES ASSUME ~hit', ordered' PROVE MirrorInv'
  BY DEF MirrorInv
<1>3. \A p \in SavePoints : fate'[p] \in {"held", "released"} /\ owner'[p] # Nobody => Listed(p)'
  BY <1>1, <1>2 DEF MirrorInv
<1>4. ~crashed' /\ Open' = {}
  BY <1>1, <1>2 DEF MirrorInv
<1> QED
  BY <1>3, <1>4 DEF MirrorInv

LEMMA MirrorWriteRow ==
    ASSUME IInv, MirrorInv, WriteRow
    PROVE  MirrorInv'
<1> USE DEF objects, user
<1>1. /\ session \in Sessions /\ Reached \in Sessions /\ session.log \in Seq(Entries)
      /\ Reached.log = session.log
  BY Types, ReachedIs DEF IInv
<1>2. UNCHANGED <<trans, points, owner, fate, crashed, ordered, hit>> /\ ~crashed'
  BY DEF WriteRow, Idle
<1> DEFINE n == Len(made) + 1
<1>3. session'.log = session.log \/ session'.log = Append(session.log, Write(n))
  BY <1>1 DEF WriteRow, Sessions
<1> HIDE DEF n
<1>4. /\ \A i \in DOMAIN session'.log : session'.log[i].point =>
           i \in DOMAIN session.log /\ session'.log[i] = session.log[i]
      /\ \A i \in DOMAIN session.log : session.log[i].point =>
           i \in DOMAIN session'.log /\ session'.log[i] = session.log[i]
  <2>1. CASE session'.log = session.log
    BY <2>1
  <2>2. CASE session'.log = Append(session.log, Write(n))
    <3>1. /\ DOMAIN session'.log = DOMAIN session.log \cup {Len(session.log) + 1}
          /\ \A i \in DOMAIN session.log : session'.log[i] = session.log[i]
          /\ session'.log[Len(session.log) + 1] = Write(n)
      BY <1>1, <2>2
    <3> QED
      BY <3>1 DEF Write
  <2> QED
    BY <1>3, <2>1, <2>2
<1> QED
  BY <1>2, <1>4, MirrorSame

LEMMA MirrorCreate ==
    ASSUME IInv, MirrorInv, NEW t \in Transactions, NEW p \in SavePoints, CreateSavePoint(t, p)
    PROVE  MirrorInv'
<1> USE DEF objects, user
<1>1. /\ TypeOK /\ SessionInv /\ session \in Sessions /\ Reached \in Sessions
      /\ points \in [Transactions -> Seq(SavePoints)]
      /\ fate \in [SavePoints -> {"none", "held", "released", "undone"}]
      /\ owner \in [SavePoints -> Transactions \cup {Nobody}]
      /\ Reached.log = session.log /\ session.log \in Seq(Entries)
      /\ Len(session.log) \in Nat /\ DOMAIN session.log = 1 .. Len(session.log)
  BY Types, ReachedIs, LogTypes DEF IInv, TypeOK
<1>2. /\ UNCHANGED <<trans, hit, ordered, crashed>> /\ Open' = Open /\ t \in Open /\ ~crashed
      /\ fate[p] = "none"
      /\ fate' = [fate EXCEPT ![p] = "held"]
      /\ owner' = [owner EXCEPT ![p] = t]
      /\ points' = [points EXCEPT ![t] = Append(@, p)]
  BY DEF CreateSavePoint, Open, Idle
<1> SUFFICES ASSUME ~hit, ordered PROVE MirrorInv'
  BY <1>2 DEF MirrorInv
<1>3. /\ session.in_trx /\ Mirrors(t) /\ \A u \in Open : u = t
      /\ \A q \in SavePoints : fate[q] \in {"held", "released"} /\ owner[q] # Nobody => Listed(q)
  BY <1>1, <1>2 DEF SessionInv, MirrorInv
<1>4. session'.log = Append(session.log, Point(p))
  <2>1. Reached.in_trx = session.in_trx
    BY ReachedIs DEF IInv
  <2> QED
    BY <1>1, <1>3, <2>1 DEF CreateSavePoint, Sessions
<1> DEFINE m == Len(session.log) + 1
           n == Len(points[t]) + 1
<1>5. /\ DOMAIN session'.log = DOMAIN session.log \cup {m}
      /\ \A i \in DOMAIN session.log : session'.log[i] = session.log[i] /\ i < m
      /\ session'.log[m] = Point(p)
  BY <1>1, <1>4
<1>6. /\ DOMAIN points'[t] = DOMAIN points[t] \cup {n}
      /\ \A k \in DOMAIN points[t] : points'[t][k] = points[t][k] /\ k < n /\ ~(n < k)
      /\ points'[t][n] = p /\ points[t] \in Seq(SavePoints) /\ n \in Nat
      /\ \A u \in Transactions : u # t => points'[u] = points[u]
  BY <1>1, <1>2
<1> HIDE DEF m, n
<1>7. /\ fate'[p] = "held" /\ owner'[p] = t
      /\ \A q \in SavePoints : q # p => fate'[q] = fate[q] /\ owner'[q] = owner[q]
  BY <1>1, <1>2
<1>8. \A q : Point(q).point /\ Point(q).id = q
  BY DEF Point, Name
<1>9. /\ \A i \in DOMAIN session.log : session.log[i].point =>
           session.log[i].id \in SavePoints /\ session.log[i].id # p
      /\ \A k \in DOMAIN points[t] : points[t][k] \in SavePoints /\ points[t][k] # p
  BY <1>1, <1>2, <1>6, LogTypes DEF IInv, LogInv, PointsInv
<1>10. Mirrors(t)'
  <2>1. ASSUME NEW k \in DOMAIN points'[t]
        PROVE  \E i \in DOMAIN session'.log : session'.log[i] = Point(points'[t][k])
    <3>1. CASE k \in DOMAIN points[t]
      BY <1>3, <1>5, <1>6, <3>1 DEF Mirrors
    <3>2. CASE k = n
      BY <1>5, <1>6, <3>2
    <3> QED
      BY <1>6, <3>1, <3>2
  <2>2. ASSUME NEW i \in DOMAIN session'.log, session'.log[i].point,
               fate'[session'.log[i].id] = "held"
        PROVE  \E k \in DOMAIN points'[t] : points'[t][k] = session'.log[i].id
    <3>1. CASE i \in DOMAIN session.log
      <4>1. session'.log[i] = session.log[i] /\ fate[session.log[i].id] = "held"
        BY <1>5, <1>7, <1>9, <2>2, <3>1
      <4> QED
        BY <1>3, <1>6, <2>2, <3>1, <4>1 DEF Mirrors
    <3>2. CASE i = m
      BY <1>5, <1>6, <1>8, <3>2
    <3> QED
      BY <1>5, <3>1, <3>2
  <2>3. ASSUME NEW k \in DOMAIN points'[t], NEW l \in DOMAIN points'[t],
               NEW i \in DOMAIN session'.log, NEW j \in DOMAIN session'.log,
               k < l, session'.log[i] = Point(points'[t][k]),
               session'.log[j] = Point(points'[t][l])
        PROVE  i < j
    <3>1. k \in DOMAIN points[t] /\ points'[t][k] = points[t][k]
      <4>1. k # n
        BY <1>6, <2>3
      <4> QED
        BY <1>6, <4>1
    <3>2. i \in DOMAIN session.log /\ session.log[i] = Point(points[t][k]) /\ i < m
      BY <1>5, <1>8, <1>9, <2>3, <3>1
    <3>3. CASE l = n
      <4>1. j = m
        BY <1>5, <1>6, <1>8, <1>9, <2>3, <3>3
      <4> QED
        BY <3>2, <4>1
    <3>4. CASE l \in DOMAIN points[t]
      <4>1. points'[t][l] = points[t][l]
        BY <1>6, <3>4
      <4>2. j \in DOMAIN session.log /\ session.log[j] = Point(points[t][l])
        BY <1>5, <1>8, <1>9, <2>3, <3>4, <4>1
      <4> QED
        BY <1>3, <2>3, <3>1, <3>2, <3>4, <4>2 DEF Mirrors
    <3> QED
      BY <1>6, <3>3, <3>4
  <2> QED
    BY <2>1, <2>2, <2>3 DEF Mirrors
<1>11. ASSUME NEW q \in SavePoints, fate'[q] \in {"held", "released"}, owner'[q] # Nobody
       PROVE  Listed(q)'
  <2>1. CASE q = p
    <3>1. points'[t] \in Seq(SavePoints)
      BY <1>2, <1>6
    <3>2. n \in 1 .. Len(points'[t])
      BY <1>6, <3>1
    <3> QED
      BY <1>6, <2>1, <3>2 DEF Listed, Contains
  <2>2. CASE q # p
    <3>1. fate[q] \in {"held", "released"} /\ owner[q] # Nobody
      BY <1>7, <1>11, <2>2
    <3>2. owner[q] \in Open /\ Contains(points[owner[q]], q)
      BY <3>1, OwnedIsOpen
    <3>3. PICK k \in 1 .. Len(points[t]) : points[t][k] = q
      BY <1>3, <3>2 DEF Contains
    <3>4. k \in DOMAIN points[t]
      BY <1>6, <3>3
    <3>5. k \in DOMAIN points'[t] /\ points'[t][k] = q
      BY <1>6, <3>3, <3>4
    <3>6. k \in 1 .. Len(points'[t])
      BY <1>2, <1>6, <3>5
    <3> QED
      BY <3>5, <3>6 DEF Listed, Contains
  <2> QED
    BY <2>1, <2>2
<1> QED
  BY <1>2, <1>3, <1>10, <1>11 DEF MirrorInv

LEMMA MirrorNext ==
    ASSUME IInv, PointsOnce, MirrorInv, Next, IInv', PointsOnce'
    PROVE  MirrorInv'
<1> USE DEF objects, user
<1>1. /\ TypeOK /\ SessionInv /\ session \in Sessions /\ Reached \in Sessions
      /\ points \in [Transactions -> Seq(SavePoints)]
      /\ trans \in [Transactions -> {"none", "open", "committed", "undone"}]
      /\ fate \in [SavePoints -> {"none", "held", "released", "undone"}]
      /\ owner \in [SavePoints -> Transactions \cup {Nobody}]
      /\ Reached.log = session.log /\ (~session.in_trx => session.log = <<>>)
      /\ Reached.in_trx = session.in_trx
      /\ Len(session.log) \in Nat /\ DOMAIN session.log = 1 .. Len(session.log)
  BY Types, ReachedIs, LogTypes DEF IInv, TypeOK
<1>2. ASSUME session'.log = session.log, UNCHANGED <<trans, points, fate, owner>>, hit => hit',
             ordered' => ordered, ~hit' /\ ordered' => ~crashed'
      PROVE  MirrorInv'
  BY <1>2, MirrorSame
<1>3. ASSUME NEW t \in Transactions, SetIsolation(t) PROVE MirrorInv'
  <2>1. session'.log = session.log
    BY <1>1, <1>3 DEF SetIsolation, Leveled, Sessions
  <2> QED
    BY <1>2, <1>3, <2>1 DEF SetIsolation, Idle
<1>4. ASSUME NEW t \in Transactions, EndOnNoHandle(t) PROVE MirrorInv'
  <2>1. ~hit' => FALSE
    BY <1>1, <1>4 DEF EndOnNoHandle, SessionInv
  <2> QED
    BY <2>1 DEF MirrorInv
<1>5. CASE StartThrows
  BY <1>2, <1>5 DEF StartThrows, MirrorInv
<1>6. CASE UseGone
  <2>1. ~hit' /\ ordered' => FALSE
    BY <1>1, <1>6, OwnedIsOpen DEF UseGone, SessionInv
  <2> QED
    BY <2>1 DEF MirrorInv
<1>7. ASSUME NEW p \in SavePoints, EndsUnlisted(p) PROVE MirrorInv'
  <2>1. ~hit' /\ ordered' => FALSE
    BY <1>7 DEF EndsUnlisted, Ends, MirrorInv
  <2> QED
    BY <2>1 DEF MirrorInv
<1>8. CASE Disconnect
  BY <1>8, MirrorLost
<1>9. CASE Lose
  BY <1>9, MirrorLost
<1>10. ASSUME NEW t \in Transactions, Commit(t) \/ DestroyTransaction(t) PROVE MirrorInv'
  <2>1. /\ t \in Open /\ Cleanup(t) /\ UNCHANGED <<hit, ordered, fate, crashed>> /\ ~crashed
        /\ trans'[t] # "open" /\ \A u \in Transactions : u # t => trans'[u] = trans[u]
    BY <1>1, <1>10 DEF Commit, DestroyTransaction, EndOf, Idle
  <2> SUFFICES ASSUME ~hit', ordered' PROVE MirrorInv'
    BY DEF MirrorInv
  <2>2. Open' = {}
    <3>1. \A u \in Open : u = t
      BY <1>1, <2>1 DEF SessionInv
    <3> QED
      BY <2>1, <3>1 DEF Open
  <2>3. ASSUME NEW p \in SavePoints, fate'[p] \in {"held", "released"}, owner'[p] # Nobody
        PROVE  FALSE
    <3>1. ~Contains(points[t], p) /\ owner[p] # Nobody /\ fate[p] \in {"held", "released"}
      BY <2>1, <2>3 DEF Cleanup
    <3>2. owner[p] \in Open /\ Contains(points[owner[p]], p)
      BY <2>1, <3>1, OwnedIsOpen
    <3> QED
      BY <1>1, <2>1, <3>1, <3>2 DEF SessionInv
  <2> QED
    BY <2>1, <2>2, <2>3 DEF MirrorInv
<1>11. CASE Start
  <2>1. /\ starting \in Transactions /\ trans[starting] = "none" /\ ~session.in_trx
        /\ trans' = [trans EXCEPT ![starting] = "open"]
        /\ UNCHANGED <<points, owner, fate, hit, ordered, crashed>>
    BY <1>1, <1>11 DEF Start, SessionInv, TypeOK
  <2> SUFFICES ASSUME ~hit', ordered' PROVE MirrorInv'
    BY DEF MirrorInv
  <2> PICK t \in Transactions : t = starting
    BY <2>1
  <2>2. Open' = {t}
    <3>1. Open = {}
      BY <1>1, <2>1 DEF SessionInv
    <3> QED
      BY <1>1, <2>1, <3>1 DEF Open
  <2>3. session'.log = <<>> /\ DOMAIN session'.log = {}
    BY <1>1, <1>11, <2>1 DEF Start, Started, Sessions
  <2>4. DOMAIN points[t] = {}
    BY <2>1 DEF IInv, PointsInv
  <2>5. Mirrors(t)'
    <3>1. /\ \A k \in DOMAIN points'[t] : FALSE
          /\ \A i \in DOMAIN session'.log : FALSE
      BY <2>1, <2>3, <2>4
    <3> QED
      BY <3>1 DEF Mirrors
  <2>6. \A u \in Open' : Mirrors(u)'
    BY <2>2, <2>5
  <2>7. \A p \in SavePoints : fate'[p] \in {"held", "released"} /\ owner'[p] # Nobody => Listed(p)'
    BY <2>1 DEF MirrorInv, Listed
  <2>8. ~crashed'
    BY <2>1 DEF MirrorInv
  <2> QED
    BY <2>6, <2>7, <2>8 DEF MirrorInv
<1>12. ASSUME NEW t \in Transactions, NEW p \in SavePoints, CreateSavePoint(t, p)
       PROVE  MirrorInv'
  BY <1>12, MirrorCreate
<1>13. CASE WriteRow
  BY <1>13, MirrorWriteRow
<1>14. ASSUME NEW p \in SavePoints, CommitSavePoint(p) PROVE MirrorInv'
  <2>1. /\ Ends(p) /\ Listed(p) /\ points' = Removed(p) /\ UNCHANGED <<trans, hit, crashed>>
        /\ ordered' => ordered
        /\ ~crashed'
        /\ \/ /\ Known(p) /\ session' = ReleasePoint(p)
              /\ fate' = [fate EXCEPT ![p] = "released"]
              /\ owner' = [owner EXCEPT ![p] = Nobody]
           \/ ~Known(p) /\ fate' = fate /\ owner' = owner
    BY <1>14 DEF CommitSavePoint, Ends, Detached, Idle
  <2>2. CASE Known(p)
    <3>1. /\ fate'[p] # "held" /\ owner'[p] = Nobody
          /\ \A q \in SavePoints : q # p => fate'[q] = fate[q] /\ owner'[q] = owner[q]
      BY <1>1, <2>1, <2>2
    <3>2. /\ \A i \in DOMAIN session'.log : session'.log[i].point =>
               i \in DOMAIN session.log /\ session'.log[i] = session.log[i]
          /\ \A i \in DOMAIN session.log : session.log[i].point /\ i < Position(p) =>
               i \in DOMAIN session'.log /\ session'.log[i] = session.log[i]
      <4>1. DOMAIN session'.log = 1 .. Len(session'.log)
        <5>1. session'.log \in Seq(Entries)
          BY <2>1, <2>2, ReleaseThins DEF Thinned, Sessions
        <5> QED
          BY <5>1
      <4>2. /\ Len(session'.log) = Len(session.log)
            /\ \A i \in 1 .. Len(session.log) :
                 session'.log[i] = IF i >= Position(p) /\ session.log[i].point THEN Gap
                                   ELSE session.log[i]
        BY <2>1, <2>2, ReleaseThins
      <4>3. Position(p) \in Nat
        BY <2>2, PositionOf
      <4> QED
        BY <1>1, <4>1, <4>2, <4>3 DEF Gap
    <3> QED
      BY <2>1, <2>2, <3>1, <3>2, MirrorEnds
  <2>3. CASE ~Known(p)
    BY <2>1, <2>3, MirrorKnows
  <2> QED
    BY <2>2, <2>3
<1>15. ASSUME NEW p \in SavePoints, DestroySavePoint(p) PROVE MirrorInv'
  <2>1. /\ Ends(p) /\ Listed(p) /\ points' = Removed(p) /\ UNCHANGED <<trans, hit>>
        /\ ordered' => ordered
        /\ Known(p) => ~crashed' /\ session' = RollBackTo(p)
                       /\ fate' = [fate EXCEPT ![p] = "undone"]
        /\ owner' = [owner EXCEPT ![p] = Nobody]
    BY <1>15 DEF DestroySavePoint, Ends
  <2>2. CASE Known(p)
    <3>1. /\ fate'[p] # "held" /\ owner'[p] = Nobody
          /\ \A q \in SavePoints : q # p => fate'[q] = fate[q] /\ owner'[q] = owner[q]
      BY <1>1, <2>1, <2>2
    <3>2. /\ \A i \in DOMAIN session'.log : session'.log[i].point =>
               i \in DOMAIN session.log /\ session'.log[i] = session.log[i]
          /\ \A i \in DOMAIN session.log : session.log[i].point /\ i < Position(p) =>
               i \in DOMAIN session'.log /\ session'.log[i] = session.log[i]
      <4>1. DOMAIN session'.log = 1 .. Len(session'.log)
        <5>1. session'.log \in Seq(Entries)
          BY <2>1, <2>2, RollBackThins DEF Thinned, Sessions
        <5> QED
          BY <5>1
      <4>2. /\ Len(session'.log) = Position(p)
            /\ \A i \in 1 .. Position(p) : session'.log[i] = session.log[i]
        BY <2>1, <2>2, RollBackThins
      <4>3. Position(p) \in 1 .. Len(session.log)
        BY <2>2, PositionOf
      <4> QED
        BY <1>1, <4>1, <4>2, <4>3
    <3> QED
      BY <2>1, <2>2, <3>1, <3>2, MirrorEnds
  <2>3. CASE ~Known(p)
    BY <2>1, <2>3, MirrorKnows
  <2> QED
    BY <2>2, <2>3
<1> QED
  BY <1>3, <1>4, <1>5, <1>6, <1>7, <1>8, <1>9, <1>10, <1>11, <1>12, <1>13, <1>14, <1>15 DEF Next

\* While save points are ended in the reverse order and no loss hits a transaction, the
\* list of a transaction is the list of the server; no destructor ends the program.
THEOREM ListsMirrorServer == Spec => []ListMirrorsServer
<1>1. Init => PointsOnce /\ MirrorInv
  <2>1. DOMAIN <<>> = {}
    OBVIOUS
  <2> QED
    BY <2>1 DEF Init, Lost, Fresh, PointsOnce, MirrorInv, Open
<1>2. IInv /\ PointsOnce /\ MirrorInv /\ [Next]_vars => PointsOnce' /\ MirrorInv'
  <2> SUFFICES ASSUME IInv, PointsOnce, MirrorInv, [Next]_vars
               PROVE  PointsOnce' /\ MirrorInv'
    OBVIOUS
  <2>1. IInv'
    BY InvNext
  <2>2. CASE Next
    <3>1. PointsOnce'
      BY <2>2, OnceNext
    <3> QED
      BY <2>1, <2>2, <3>1, MirrorNext
  <2>3. CASE UNCHANGED vars
    <3>1. UNCHANGED <<session, trans, points, owner, fate, crashed, hit, ordered>>
      BY <2>3 DEF vars, objects, user
    <3> QED
      BY <3>1, MirrorSame DEF PointsOnce, MirrorInv
  <2> QED
    BY <2>2, <2>3
<1>3. IInv /\ MirrorInv => ListMirrorsServer
  <2> SUFFICES ASSUME IInv, MirrorInv, ~hit, ordered
               PROVE  /\ ~crashed
                      /\ \A t \in Open :
                           /\ ToSet(points[t]) = {p \in SavePoints :
                                  fate[p] = "held" /\ Contains(session.log, Point(p))}
                           /\ \A k, l \in DOMAIN points[t], i, j \in DOMAIN session.log :
                                /\ k < l
                                /\ session.log[i] = Point(points[t][k])
                                /\ session.log[j] = Point(points[t][l])
                                => i < j
    BY DEF ListMirrorsServer
  <2>1. ~crashed /\ \A t \in Open : Mirrors(t)
    BY DEF MirrorInv
  <2>2. DOMAIN session.log = 1 .. Len(session.log)
    BY LogTypes DEF IInv
  <2>3. \A q : Point(q).point /\ Point(q).id = q
    BY DEF Point, Name
  <2>4. ASSUME NEW t \in Open
        PROVE  ToSet(points[t]) = {p \in SavePoints :
                   fate[p] = "held" /\ Contains(session.log, Point(p))}
    <3>1. points[t] \in Seq(SavePoints) /\ t \in Transactions
      BY <2>4 DEF IInv, TypeOK, Open
    <3>2. ASSUME NEW k \in DOMAIN points[t]
          PROVE  /\ points[t][k] \in SavePoints /\ fate[points[t][k]] = "held"
                 /\ Contains(session.log, Point(points[t][k]))
      <4>1. points[t][k] \in SavePoints /\ fate[points[t][k]] = "held"
        BY <3>1, <3>2 DEF IInv, PointsInv
      <4>2. PICK i \in DOMAIN session.log : session.log[i] = Point(points[t][k])
        BY <2>1, <2>4, <3>2 DEF Mirrors
      <4> QED
        BY <2>2, <4>1, <4>2 DEF Contains
    <3>3. ASSUME NEW p \in SavePoints, fate[p] = "held", Contains(session.log, Point(p))
          PROVE  \E k \in DOMAIN points[t] : points[t][k] = p
      <4>1. PICK i \in DOMAIN session.log : session.log[i] = Point(p)
        BY <2>2, <3>3 DEF Contains
      <4>2. session.log[i].point /\ session.log[i].id = p
        BY <2>3, <4>1
      <4> QED
        BY <2>1, <2>4, <3>3, <4>2 DEF Mirrors
    <3> QED
      BY <3>2, <3>3 DEF ToSet
  <2>5. ASSUME NEW t \in Open, NEW k \in DOMAIN points[t], NEW l \in DOMAIN points[t],
               NEW i \in DOMAIN session.log, NEW j \in DOMAIN session.log, k < l,
               session.log[i] = Point(points[t][k]), session.log[j] = Point(points[t][l])
        PROVE  i < j
    BY <2>1, <2>5 DEF Mirrors
  <2> QED
    BY <2>1, <2>4, <2>5
<1> QED
  BY <1>1, <1>2, <1>3, Invariance, PTL DEF Spec
=============================================================================
