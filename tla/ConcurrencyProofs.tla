------------------------- MODULE ConcurrencyProofs -------------------------
(***************************************************************************)
(* Proofs about Concurrency, for any number of clients, statements and     *)
(* handles, whatever the clients do with their handles.                    *)
(***************************************************************************)
EXTENDS Concurrency, SequenceTheorems, TLAPS

-----------------------------------------------------------------------------
(* What the updates of a worker leave it.                                   *)

LEMMA StatusUpdate ==
    ASSUME worker \in [Handles -> Workers], NEW h, NEW s \in Statuses
    PROVE  [worker EXCEPT ![h].status = s] \in [Handles -> Workers]
BY DEF Workers

LEMMA StoredUpdate ==
    ASSUME worker \in [Handles -> Workers], NEW h
    PROVE  [worker EXCEPT ![h].stored = TRUE] \in [Handles -> Workers]
BY DEF Workers

LEMMA MemoryUpdate ==
    ASSUME worker \in [Handles -> Workers], NEW h
    PROVE  [worker EXCEPT ![h].memory = "freed"] \in [Handles -> Workers]
BY DEF Workers

LEMMA ToldUpdate ==
    ASSUME TypeOK, NEW c \in Clients, NEW s \in {"succeed", "failed"}, Tell(c, s)
    PROVE  told' \in [Clients -> [Handles -> {"none", "succeed", "failed"}]]
BY DEF Tell, TypeOK

-----------------------------------------------------------------------------
(* Type correctness.                                                        *)

LEMMA TypeInit == Init => TypeOK
<1> SUFFICES ASSUME Init PROVE TypeOK
  OBVIOUS
<1>1. NewWorker(NoStatement, FALSE) \in Workers
  BY DEF NewWorker, Workers, Statuses
<1>2. [NewWorker(NoStatement, FALSE) EXCEPT !.memory = "none"] \in Workers
  BY <1>1 DEF Workers
<1>3. worker \in [Handles -> Workers]
  BY <1>2 DEF Init
<1>4. querys_in \in Seq(Handles) /\ next_handle \in 0 .. MaxHandles
  BY ConcurrencyAssumption DEF Init
<1> QED
  BY <1>3, <1>4 DEF Init, TypeOK, ThreadPcs, Calls, NoWorker, NoHandle, NotFound

LEMMA TypeAdd ==
    ASSUME TypeOK, NEW c \in Clients, NEW s \in Statements \cup {NoStatement},
           NEW k \in BOOLEAN, Add(c, s, k)
    PROVE  TypeOK'
<1> USE DEF TypeOK, callVars
<1>1. next_handle + 1 \in Handles
  BY ConcurrencyAssumption DEF Add, Handles
<1>2. NewWorker(s, k) \in Workers
  BY DEF NewWorker, Workers, Statuses
<1>3. querys_in' \in Seq(Handles) /\ worker' \in [Handles -> Workers]
  BY <1>1, <1>2 DEF Add, Enqueue
<1>4. /\ thread_pc' \in [Handles -> ThreadPcs]
      /\ known' \in [Clients -> SUBSET Handles]
  <2>1. CASE AddToRunning(c, next_handle + 1)
    BY <1>1, <2>1 DEF AddToRunning
  <2>2. CASE AddAndSpawn(c, next_handle + 1)
    BY <1>1, <2>2 DEF AddAndSpawn, ThreadPcs
  <2>3. CASE AddAndThrow(c, next_handle + 1)
    BY <2>3 DEF AddAndThrow
  <2> QED
    BY <2>1, <2>2, <2>3 DEF Add
<1>5. querys_out' \subseteq Handles /\ next_handle' \in 0 .. MaxHandles
  BY <1>1, ConcurrencyAssumption DEF Add, Enqueue, Handles
<1> QED
  BY <1>3, <1>4, <1>5 DEF Add

LEMMA TypeThreadStep ==
    ASSUME TypeOK, NEW t \in Handles, ThreadStep(t)
    PROVE  TypeOK'
<1> USE DEF TypeOK, queueVars, threadVars, callVars, clientVars
<1>1. CASE Take(t)
  BY <1>1 DEF Take, ThreadPcs
<1>2. CASE ThreadStart(t) \/ FindEmpty(t) \/ Leave(t) \/ ExecuteFreed(t)
  BY <1>2 DEF ThreadStart, FindEmpty, Leave, ExecuteFreed, ThreadPcs
<1>3. CASE RetireFreed(t)
  BY <1>3 DEF RetireFreed, ThreadPcs, NoWorker
<1>4. CASE Begin(t) \/ Publish(t) \/ Fail(t) \/ PublishEarly(t)
  <2>0. PICK status \in Statuses : SetStatus(t, status)
    BY <1>4 DEF Begin, Publish, Fail, PublishEarly, Statuses
  <2>1. worker' \in [Handles -> Workers] /\ UNCHANGED thread_w
    BY <2>0, StatusUpdate DEF SetStatus
  <2>2. thread_pc' \in [Handles -> ThreadPcs]
    BY <1>4 DEF Begin, Publish, Fail, PublishEarly, Executing, ThreadPcs
  <2> QED
    BY <1>4, <2>1, <2>2 DEF Begin, Publish, Fail, PublishEarly, Executing
<1>5. CASE StoreResult(t) \/ StoreLate(t)
  <2>1. worker' \in [Handles -> Workers] /\ UNCHANGED thread_w
    BY <1>5, StoredUpdate DEF StoreResult, StoreLate, SetResult
  <2>2. thread_pc' \in [Handles -> ThreadPcs]
    BY <1>5 DEF StoreResult, StoreLate, Executing, ThreadPcs
  <2> QED
    BY <1>5, <2>1, <2>2 DEF StoreResult, StoreLate, Executing
<1>6. CASE Retire(t)
  <2>1. worker' \in [Handles -> Workers]
    BY <1>6, MemoryUpdate DEF Retire
  <2>2. /\ thread_pc' \in [Handles -> ThreadPcs]
        /\ thread_w' \in [Handles -> Handles \cup {NoWorker}]
    BY <1>6 DEF Retire, Executing, ThreadPcs
  <2> QED
    BY <1>6, <2>1, <2>2 DEF Retire, Executing
<1> QED
  BY <1>1, <1>2, <1>3, <1>4, <1>5, <1>6 DEF ThreadStep

LEMMA TypeCallStep ==
    ASSUME TypeOK, NEW c \in Clients, CallStep(c)
    PROVE  TypeOK'
<1> USE DEF TypeOK, queueVars, threadVars, callVars, clientVars
<1>1. CASE GetWorker(c)
  BY <1>1 DEF GetWorker, NoHandle, Removed
<1>2. CASE ReturnStatus(c) \/ WaitReturn(c)
  <2>1. Proceed(c, "none")
    BY <1>2 DEF ReturnStatus, WaitReturn
  <2>2. told' \in [Clients -> [Handles -> {"none", "succeed", "failed"}]]
    BY <1>2, ToldUpdate DEF ReturnStatus, WaitReturn
  <2> QED
    BY <2>1, <2>2 DEF Proceed, Calls
<1>3. CASE WaitLoop(c) \/ ReturnResult(c)
  BY <1>3 DEF WaitLoop, ReturnResult, Proceed, Calls
<1>4. CASE ReturnFreedResult(c)
  BY <1>4 DEF ReturnFreedResult
<1> QED
  BY <1>1, <1>2, <1>3, <1>4 DEF CallStep

LEMMA TypeNext == TypeOK /\ [Next]_vars => TypeOK'
<1> SUFFICES ASSUME TypeOK, [Next]_vars PROVE TypeOK'
  OBVIOUS
<1>1. CASE UNCHANGED vars
  BY <1>1 DEF TypeOK, vars
<1>2. ASSUME NEW c \in Clients, NEW op \in Lookups, NEW h \in Handles, Invoke(c, op, h)
      PROVE  TypeOK'
  BY <1>2, ConcurrencyAssumption DEF Invoke, Calls, TypeOK, queueVars, threadVars
<1>3. ASSUME NEW c \in Clients, NEW h \in Handles, Release(c, h)
      PROVE  TypeOK'
  <2>1. worker' \in [Handles -> Workers]
    BY <1>3, MemoryUpdate DEF Release, TypeOK
  <2> QED
    BY <1>3, <2>1 DEF Release, TypeOK, threadVars, callVars, clientVars
<1> QED
  BY <1>1, <1>2, <1>3, TypeAdd, TypeThreadStep, TypeCallStep DEF Next, ClientChoice

\* Every variable keeps its type: no step stores a value of another shape.
THEOREM TypeCorrect == Spec => []TypeOK
BY TypeInit, TypeNext, PTL DEF Spec

-----------------------------------------------------------------------------
(* The inductive invariant.  The queue is the interval of handles after the *)
(* last one taken, so that everything can be said by comparing a handle with *)
(* two counters: what is beyond next_handle does not exist yet, what is      *)
(* beyond Taken still waits, and what a thread holds is not beyond Taken.    *)

Fresh == \A h \in Handles : h > next_handle => ~Live(h) /\ thread_pc[h] = "none"
QueuedIsWaiting == \A h \in Handles : h > Taken => worker[h].status = "waiting"
HeldIsTaken == \A t \in Handles : Holds(t) => thread_w[t] \in 1 .. Taken
HeldOnce ==
    \A t, u \in Handles :
        Holds(t) /\ Holds(u) /\ t # u => thread_w[t] # thread_w[u]
HeldIsUnfinished ==
    \A t \in Handles :
        thread_pc[t] \in {"begin", "running", "publish"} => ~Finished(thread_w[t])
Kept(h) == worker[h].keep = TRUE
OutIsKept == \A h \in Handles : h \in querys_out <=> Live(h) /\ Kept(h)
LiveIsReachable ==
    \A h \in Handles : Live(h) =>
        \/ Kept(h)
        \/ h > Taken
        \/ \E t \in Handles : Holds(t) /\ thread_w[t] = h

IInv ==
    /\ TypeOK
    /\ QueueInOrder
    /\ Fresh
    /\ QueuedIsWaiting
    /\ HeldIsTaken
    /\ HeldOnce
    /\ HeldIsUnfinished
    /\ OutIsKept
    /\ LiveIsReachable
    /\ FlagHonest

LEMMA QueuedIsInterval ==
    TypeOK /\ QueueInOrder =>
        \A h \in Handles : Queued(h) <=> h > Taken /\ h <= next_handle
<1> SUFFICES ASSUME TypeOK, QueueInOrder, NEW h \in Handles
             PROVE  Queued(h) <=> h > Taken /\ h <= next_handle
  OBVIOUS
<1>1. next_handle \in Nat /\ Len(querys_in) \in Nat /\ h \in Nat /\ Taken \in Int
  BY DEF TypeOK, Taken, Handles
<1>2. ASSUME h > Taken, h <= next_handle PROVE Queued(h)
  <2>1. h - Taken \in 1 .. Len(querys_in) /\ Taken + (h - Taken) = h
    BY <1>1, <1>2 DEF Taken
  <2> QED
    BY <2>1 DEF QueueInOrder, Queued
<1> QED
  BY <1>1, <1>2 DEF QueueInOrder, Queued, Taken

LEMMA InvInit == Init => IInv
<1> SUFFICES ASSUME Init PROVE IInv
  OBVIOUS
<1>1. TypeOK
  BY TypeInit
<1>2. QueueInOrder /\ Taken = 0
  <2>1. Len(querys_in) = 0 /\ next_handle = 0
    BY DEF Init
  <2> QED
    BY <2>1 DEF QueueInOrder, Taken
<1>3. \A h \in Handles : /\ worker[h].memory = "none"
                         /\ worker[h].status = "waiting"
                         /\ thread_pc[h] = "none"
  BY DEF Init, NewWorker
<1> QED
  BY <1>1, <1>2, <1>3
     DEF IInv, Init, Fresh, QueuedIsWaiting, HeldIsTaken, HeldOnce, HeldIsUnfinished,
         OutIsKept, LiveIsReachable, FlagHonest, Live, Holds

\* A step that leaves the queue, the workers and the threads alone.
LEMMA InvIdle ==
    ASSUME IInv, TypeOK', UNCHANGED <<queueVars, threadVars>>
    PROVE  IInv'
BY DEF IInv, queueVars, threadVars, QueueInOrder, Taken, Fresh, QueuedIsWaiting,
       HeldIsTaken, HeldOnce, HeldIsUnfinished, OutIsKept, LiveIsReachable, FlagHonest,
       Live, Kept, Holds, Finished

LEMMA InvAdd ==
    ASSUME IInv, TypeOK', NEW c \in Clients, NEW s \in Statements \cup {NoStatement},
           NEW k \in BOOLEAN, Add(c, s, k)
    PROVE  IInv'
<1> DEFINE h == next_handle + 1
<1>1. /\ h \in Handles
      /\ next_handle' = h
      /\ Len(querys_in') = Len(querys_in) + 1
      /\ \A i \in 1 .. Len(querys_in) : querys_in'[i] = querys_in[i]
      /\ querys_in'[Len(querys_in) + 1] = h
  BY ConcurrencyAssumption DEF Add, Enqueue, IInv, TypeOK, Handles
<1>2. next_handle \in Nat /\ Len(querys_in) \in Nat /\ Taken \in Int /\ Taken <= next_handle
  BY DEF IInv, TypeOK, Taken, QueueInOrder
<1>3. Taken' = Taken
  BY <1>1, <1>2 DEF Taken
<1>4. /\ worker' = [worker EXCEPT ![h] = NewWorker(s, k)]
      /\ worker'[h] = NewWorker(s, k)
      /\ \A g \in Handles \ {h} : worker'[g] = worker[g]
  BY <1>1 DEF Add, Enqueue, IInv, TypeOK
<1>5. /\ UNCHANGED <<thread_running, thread_w>>
      /\ \A t \in Handles \ {h} : thread_pc'[t] = thread_pc[t]
      /\ thread_pc'[h] \in {"none", "starting"}
      /\ thread_pc[h] = "none"
  BY <1>1, <1>2 DEF Add, AddToRunning, AddAndSpawn, AddAndThrow, IInv, TypeOK, Fresh
<1>6. \A t \in Handles : Holds(t)' <=> Holds(t)
  BY <1>5 DEF Holds
<1>7. QueueInOrder'
  BY <1>1, <1>2, <1>3 DEF QueueInOrder, Taken, IInv
<1>8. Fresh' /\ QueuedIsWaiting'
  BY <1>1, <1>2, <1>3, <1>4, <1>5 DEF Fresh, QueuedIsWaiting, IInv, Live, NewWorker, Handles
<1>9. HeldIsTaken' /\ HeldOnce'
  BY <1>3, <1>5, <1>6 DEF HeldIsTaken, HeldOnce, IInv
<1>10. HeldIsUnfinished'
  <2> SUFFICES ASSUME NEW t \in Handles, thread_pc'[t] \in {"begin", "running", "publish"}
               PROVE  ~Finished(thread_w[t])'
    BY DEF HeldIsUnfinished
  <2>1. t # h /\ thread_pc'[t] = thread_pc[t] /\ thread_w[t] \in 1 .. Taken
    BY <1>5 DEF IInv, HeldIsTaken, Holds
  <2>2. worker'[thread_w[t]] = worker[thread_w[t]]
    BY <1>1, <1>2, <1>4, <2>1 DEF IInv, TypeOK, Handles
  <2> QED
    BY <1>5, <2>1, <2>2 DEF IInv, HeldIsUnfinished, Finished
<1>11. OutIsKept'
  <2>1. ~Live(h) /\ h \notin querys_out
    BY <1>1, <1>2 DEF IInv, Fresh, OutIsKept
  <2> QED
    BY <1>1, <1>4, <2>1 DEF Add, Enqueue, IInv, OutIsKept, Live, Kept, NewWorker
<1>12. LiveIsReachable'
  BY <1>1, <1>2, <1>3, <1>4, <1>5, <1>6 DEF IInv, LiveIsReachable, Live, Kept
<1>13. FlagHonest'
  BY <1>5, <1>6 DEF IInv, FlagHonest
<1> QED
  BY <1>7, <1>8, <1>9, <1>10, <1>11, <1>12, <1>13 DEF IInv

LEMMA InvRelease ==
    ASSUME IInv, TypeOK', NEW c \in Clients, NEW h \in Handles, Release(c, h)
    PROVE  IInv'
<1>1. /\ querys_out' = querys_out \ {h}
      /\ worker'[h] = [worker[h] EXCEPT !.memory = "freed"]
      /\ \A g \in Handles \ {h} : worker'[g] = worker[g]
      /\ UNCHANGED <<next_handle, querys_in, threadVars>>
  BY DEF Release, IInv, TypeOK
<1>2. Taken' = Taken /\ UNCHANGED <<thread_pc, thread_w, thread_running>>
  BY <1>1 DEF Taken, threadVars
<1>3. \A g \in Handles : /\ worker'[g].status = worker[g].status
                         /\ Kept(g)' <=> Kept(g)
                         /\ Live(g)' <=> Live(g) /\ g # h
  BY <1>1 DEF Live, Kept, IInv, TypeOK, Workers
<1>4. QueueInOrder' /\ Fresh' /\ QueuedIsWaiting'
  BY <1>1, <1>2, <1>3 DEF IInv, QueueInOrder, Fresh, QueuedIsWaiting
<1>5. HeldIsTaken' /\ HeldOnce' /\ FlagHonest'
  BY <1>2 DEF IInv, HeldIsTaken, HeldOnce, FlagHonest, Holds
<1>6. HeldIsUnfinished'
  <2>1. \A t \in Handles : Holds(t) => thread_w[t] \in Handles
    BY DEF IInv, HeldIsTaken, TypeOK, NoWorker
  <2> QED
    BY <1>2, <1>3, <2>1 DEF IInv, HeldIsUnfinished, Finished, Holds
<1>7. OutIsKept' /\ LiveIsReachable'
  BY <1>1, <1>2, <1>3 DEF IInv, OutIsKept, LiveIsReachable, Holds
<1> QED
  BY <1>4, <1>5, <1>6, <1>7 DEF IInv

\* Threads that move on without a change to a worker or to the queue.
LEMMA InvMove ==
    ASSUME IInv, TypeOK', NEW t \in Handles,
           ThreadStart(t) \/ FindEmpty(t) \/ Leave(t) \/ RetireFreed(t)
    PROVE  IInv'
<1>1. UNCHANGED queueVars /\ Taken' = Taken
  BY DEF ThreadStart, FindEmpty, Leave, RetireFreed, queueVars, Taken
<1>2. \A u \in Handles \ {t} : thread_pc'[u] = thread_pc[u] /\ thread_w'[u] = thread_w[u]
  BY DEF ThreadStart, FindEmpty, Leave, RetireFreed, IInv, TypeOK
<1>3. /\ thread_pc[t] # "none"
      /\ Holds(t)' => (Holds(t) /\ UNCHANGED <<thread_pc, thread_w>>)
      /\ thread_pc'[t] \notin {"begin", "running", "publish"}
  BY DEF ThreadStart, FindEmpty, Leave, RetireFreed, IInv, TypeOK, Holds
<1>4. QueueInOrder' /\ QueuedIsWaiting' /\ OutIsKept'
  BY <1>1 DEF IInv, QueueInOrder, QueuedIsWaiting, OutIsKept, queueVars, Live, Kept
<1>5. Fresh'
  BY <1>1, <1>2, <1>3 DEF IInv, Fresh, queueVars, Live
<1>6. HeldIsTaken' /\ HeldOnce' /\ HeldIsUnfinished'
  BY <1>1, <1>2, <1>3
     DEF IInv, HeldIsTaken, HeldOnce, HeldIsUnfinished, Holds, Finished, queueVars
<1>7. LiveIsReachable'
  <2>1. Holds(t) => (Holds(t)' /\ thread_w'[t] = thread_w[t]) \/ ~Live(thread_w[t])
    BY DEF ThreadStart, FindEmpty, Leave, RetireFreed, IInv, TypeOK, Holds
  <2> QED
    BY <1>1, <1>2, <2>1 DEF IInv, LiveIsReachable, Live, Kept, Holds, queueVars
<1>8. FlagHonest'
  <2>1. thread_running' => thread_pc'[t] \in {"take", "leave", "retire"}
    BY DEF ThreadStart, FindEmpty, Leave, RetireFreed, IInv, TypeOK
  <2> QED
    BY <2>1 DEF FlagHonest, Holds
<1> QED
  BY <1>4, <1>5, <1>6, <1>7, <1>8 DEF IInv

LEMMA InvTake ==
    ASSUME IInv, TypeOK', NEW t \in Handles, Take(t)
    PROVE  IInv'
<1>1. /\ Len(querys_in') = Len(querys_in) - 1
      /\ Len(querys_in) \in Nat \ {0}
      /\ \A i \in 1 .. Len(querys_in') : querys_in'[i] = querys_in[i + 1]
      /\ Head(querys_in) = querys_in[1]
  BY DEF Take, IInv, TypeOK
<1>2. /\ UNCHANGED <<next_handle, querys_out, worker, thread_running>>
      /\ next_handle \in Nat /\ Taken \in Nat
      /\ Taken' = Taken + 1
  BY <1>1 DEF Take, IInv, TypeOK, Taken, QueueInOrder
<1>3. /\ thread_pc[t] = "take" /\ thread_pc'[t] = "begin"
      /\ thread_w'[t] = Taken + 1
      /\ Taken + 1 \in Handles /\ Taken + 1 <= next_handle
  <2>1. querys_in[1] = Taken + 1 /\ querys_in[1] \in Handles
    BY <1>1 DEF IInv, QueueInOrder, TypeOK
  <2> QED
    BY <1>1, <1>2, <2>1 DEF Take, IInv, TypeOK, Taken
<1>4. \A u \in Handles \ {t} : thread_pc'[u] = thread_pc[u] /\ thread_w'[u] = thread_w[u]
  BY DEF Take, IInv, TypeOK
<1>5. QueueInOrder'
  BY <1>1, <1>2 DEF IInv, QueueInOrder, Taken
<1>6. Fresh' /\ QueuedIsWaiting' /\ OutIsKept'
  BY <1>2, <1>3, <1>4 DEF IInv, Fresh, QueuedIsWaiting, OutIsKept, Live, Kept, Handles
<1>7. HeldIsTaken' /\ HeldOnce'
  BY <1>2, <1>3, <1>4 DEF IInv, HeldIsTaken, HeldOnce, Holds
<1>8. HeldIsUnfinished'
  <2>1. ~Finished(thread_w'[t])
    BY <1>2, <1>3 DEF IInv, QueuedIsWaiting, Finished
  <2> QED
    BY <1>2, <1>3, <1>4, <2>1 DEF IInv, HeldIsUnfinished, Finished
<1>9. LiveIsReachable'
  BY <1>2, <1>3, <1>4 DEF IInv, LiveIsReachable, Live, Kept, Holds, Handles
<1>10. FlagHonest'
  BY <1>3 DEF FlagHonest, Holds
<1> QED
  BY <1>5, <1>6, <1>7, <1>8, <1>9, <1>10 DEF IInv

\* The steps of execute() on a live worker, and the end of the loop body.
LEMMA InvExecute ==
    ASSUME IInv, TypeOK', NEW t \in Handles,
           \/ Begin(t) \/ StoreResult(t) \/ Publish(t) \/ Fail(t)
           \/ PublishEarly(t) \/ StoreLate(t) \/ Retire(t)
    PROVE  IInv'
<1> PICK w : w = thread_w[t]
  OBVIOUS
<1> USE DEF Begin, StoreResult, Publish, Fail, PublishEarly, StoreLate, Retire
<1>1. /\ Holds(t) /\ Live(w) /\ w \in Handles /\ w \in 1 .. Taken
      /\ UNCHANGED <<next_handle, querys_in, querys_out, thread_running>>
      /\ Taken' = Taken
  BY DEF Executing, Holds, IInv, HeldIsTaken, TypeOK, Taken, NoWorker, Handles
<1>2. \A u \in Handles \ {t} : thread_pc'[u] = thread_pc[u] /\ thread_w'[u] = thread_w[u]
  BY DEF Executing, SetStatus, SetResult, IInv, TypeOK
<1>3. \A h \in Handles \ {w} : worker'[h] = worker[h]
  BY <1>1 DEF Executing, SetStatus, SetResult, IInv, TypeOK
<1>4. worker'[w].keep = worker[w].keep
  BY <1>1 DEF SetStatus, SetResult, IInv, TypeOK, Workers
<1>5. \/ Holds(t)' /\ thread_w'[t] = w /\ Live(w)'
      \/ thread_pc'[t] = "take" /\ (Live(w)' <=> Kept(w))
  <2>1. CASE Retire(t)
    <3>1. thread_pc'[t] = "take" /\ worker[w].keep \in BOOLEAN
      BY <1>1, <2>1 DEF Executing, IInv, TypeOK, Workers
    <3> QED
      BY <1>1, <2>1, <3>1 DEF Live, Kept, IInv, TypeOK, Workers
  <2>2. CASE ~Retire(t)
    <3>1. thread_pc'[t] \in {"running", "publish", "retire", "late"} /\ thread_w'[t] = w
      BY <1>1, <2>2 DEF Executing, SetStatus, SetResult, IInv, TypeOK
    <3>2. worker'[w].memory = worker[w].memory
      BY <1>1, <2>2 DEF SetStatus, SetResult, IInv, TypeOK, Workers
    <3> QED
      BY <1>1, <3>1, <3>2 DEF Holds, Live
  <2> QED
    BY <2>1, <2>2
<1>6. QueueInOrder' /\ Fresh' /\ QueuedIsWaiting'
  <2>1. w <= Taken /\ w <= next_handle /\ Taken <= next_handle /\ Taken \in Int
    BY <1>1 DEF IInv, TypeOK, QueueInOrder, Taken
  <2>2. QueueInOrder'
    BY <1>1 DEF IInv, QueueInOrder
  <2>3. \A h \in Handles : h > Taken => h # w
    BY <2>1 DEF Handles
  <2>4. thread_pc[t] # "none" /\ t <= next_handle
    BY <1>1 DEF IInv, Fresh, Holds, Handles, TypeOK
  <2>5. Fresh'
    BY <1>1, <1>2, <1>3, <2>1, <2>3, <2>4 DEF IInv, Fresh, Live, Handles
  <2>6. QueuedIsWaiting'
    BY <1>1, <1>3, <2>3 DEF IInv, QueuedIsWaiting
  <2> QED
    BY <2>2, <2>5, <2>6
<1>7. HeldIsTaken' /\ HeldOnce'
  BY <1>1, <1>2, <1>5 DEF IInv, HeldIsTaken, HeldOnce, Holds
<1>8. HeldIsUnfinished'
  <2>1. thread_pc'[t] \in {"begin", "running", "publish"} => ~Finished(w)' /\ thread_w'[t] = w
    BY <1>1 DEF Executing, SetStatus, SetResult, IInv, TypeOK, HeldIsUnfinished, Finished,
                Workers
  <2>2. \A u \in Handles \ {t} : Holds(u) => thread_w[u] \in Handles \ {w}
    BY <1>1 DEF IInv, HeldOnce, HeldIsTaken, TypeOK, NoWorker
  <2> QED
    BY <1>2, <1>3, <2>1, <2>2 DEF IInv, HeldIsUnfinished, Finished, Holds
<1>9. OutIsKept'
  <2>1. w \in querys_out <=> Live(w)' /\ Kept(w)'
    BY <1>1, <1>4, <1>5 DEF IInv, OutIsKept, Kept
  <2> QED
    BY <1>1, <1>3, <2>1 DEF IInv, OutIsKept, Live, Kept
<1>10. LiveIsReachable'
  <2> SUFFICES ASSUME NEW h \in Handles, Live(h)', ~Kept(h)', ~(h > Taken)
               PROVE  \E u \in Handles : Holds(u)' /\ thread_w'[u] = h
    BY <1>1 DEF LiveIsReachable
  <2>1. CASE h = w
    BY <1>4, <1>5, <2>1 DEF Kept
  <2>2. CASE h # w
    <3>1. PICK u \in Handles : Holds(u) /\ thread_w[u] = h
      BY <1>3, <2>2 DEF IInv, LiveIsReachable, Live, Kept
    <3> QED
      BY <1>2, <2>2, <3>1 DEF Holds
  <2> QED
    BY <2>1, <2>2
<1>11. FlagHonest'
  BY <1>5 DEF FlagHonest
<1> QED
  BY <1>6, <1>7, <1>8, <1>9, <1>10, <1>11 DEF IInv

LEMMA InvNext == IInv /\ [Next]_vars => IInv'
<1> SUFFICES ASSUME IInv, [Next]_vars PROVE IInv'
  OBVIOUS
<1>1. TypeOK'
  BY TypeNext DEF IInv
<1>2. ASSUME NEW t \in Handles, ThreadStep(t) PROVE IInv'
  <2>1. CASE ExecuteFreed(t)
    BY <1>1, <2>1, InvIdle DEF ExecuteFreed
  <2> QED
    BY <1>1, <1>2, <2>1, InvMove, InvTake, InvExecute DEF ThreadStep
<1>3. ASSUME NEW c \in Clients, CallStep(c) PROVE IInv'
  <2>1. UNCHANGED <<queueVars, threadVars>>
    BY <1>3 DEF CallStep, GetWorker, ReturnStatus, WaitLoop, WaitReturn, ReturnResult,
                ReturnFreedResult, Proceed
  <2> QED
    BY <1>1, <2>1, InvIdle
<1>4. ASSUME NEW c \in Clients, NEW op \in Lookups, NEW h \in Handles, Invoke(c, op, h)
      PROVE  IInv'
  BY <1>1, <1>4, InvIdle DEF Invoke
<1>5. CASE UNCHANGED vars
  <2>1. UNCHANGED <<queueVars, threadVars>>
    BY <1>5 DEF vars, queueVars, threadVars
  <2> QED
    BY <1>1, <2>1, InvIdle
<1> QED
  BY <1>1, <1>2, <1>3, <1>4, <1>5, InvAdd, InvRelease DEF Next, ClientChoice

LEMMA Invariance == Spec => []IInv
BY InvInit, InvNext, PTL DEF Spec

-----------------------------------------------------------------------------
(* What the invariant gives.                                                *)

\* The queue holds the handles after the last one taken, in order, however many
\* threads drain it (add() and the critical section of worker_thread()).
THEOREM QueueOrdered == Spec => []QueueInOrder
<1>1. IInv => QueueInOrder
  BY DEF IInv
<1> QED
  BY <1>1, Invariance, PTL

\* However many threads start_thread() lets run, no worker is executed by two of
\* them, and none that is executed is still in the queue.
THEOREM OneExecutorEach == Spec => []SingleExecutor
<1>1. IInv => SingleExecutor
  <2> SUFFICES ASSUME IInv, NEW t \in Handles, Holds(t)
               PROVE  /\ ~Queued(thread_w[t])
                      /\ \A u \in Handles \ {t} : Holds(u) => thread_w[u] # thread_w[t]
    BY DEF SingleExecutor
  <2>1. thread_w[t] \in Handles /\ ~(thread_w[t] > Taken)
    BY DEF IInv, HeldIsTaken, TypeOK, NoWorker, Handles, Taken
  <2>2. ~Queued(thread_w[t])
    BY <2>1, QueuedIsInterval DEF IInv
  <2> QED
    BY <2>2 DEF IInv, HeldOnce
<1> QED
  BY <1>1, Invariance, PTL

\* g_thread_running is true only while a started thread will still reset it.
THEOREM FlagIsHonest == Spec => []FlagHonest
<1>1. IInv => FlagHonest
  BY DEF IInv
<1> QED
  BY <1>1, Invariance, PTL

\* g_querys_out never refers to a deleted worker, whenever clients release.
THEOREM OutAlwaysLive == Spec => []OutIsLive
<1>1. IInv => OutIsLive
  BY DEF IInv, OutIsKept, OutIsLive, TypeOK
<1> QED
  BY <1>1, Invariance, PTL

\* A worker that is not deleted can still be: nothing is lost track of, even
\* when the thread could not be started or the handle was never returned.
THEOREM NothingLeaks == Spec => []NoLeak
<1>1. IInv => NoLeak
  <2> SUFFICES ASSUME IInv, NEW h \in Handles, Live(h)
               PROVE  \/ h \in querys_out
                      \/ Queued(h)
                      \/ \E t \in Handles : Holds(t) /\ thread_w[t] = h
    BY DEF NoLeak
  <2>1. CASE Kept(h)
    BY <2>1 DEF IInv, OutIsKept
  <2>2. CASE h > Taken
    <3>1. h <= next_handle
      BY DEF IInv, Fresh, Handles, TypeOK
    <3> QED
      BY <2>2, <3>1, QueuedIsInterval DEF IInv
  <2> QED
    BY <2>1, <2>2 DEF IInv, LiveIsReachable
<1> QED
  BY <1>1, Invariance, PTL

\* The outcome of a command never changes once execute() has published it.
THEOREM OutcomeStands == Spec => OutcomeIsFinal
<1>1. IInv /\ [Next]_vars =>
        [\A h \in Handles : Finished(h) => worker'[h].status = worker[h].status]_vars
  <2> SUFFICES ASSUME IInv, Next, NEW h \in Handles, Finished(h)
               PROVE  worker'[h].status = worker[h].status
    OBVIOUS
  <2>1. ASSUME NEW c \in Clients, NEW s \in Statements \cup {NoStatement},
               NEW k \in BOOLEAN, Add(c, s, k)
        PROVE  worker'[h] = worker[h]
    <3>1. h # next_handle + 1
      BY DEF IInv, QueuedIsWaiting, Finished, TypeOK, QueueInOrder, Taken, Handles
    <3> QED
      BY <2>1, <3>1 DEF Add, Enqueue, IInv, TypeOK
  <2>2. ASSUME NEW t \in Handles, ThreadStep(t)
        PROVE  worker'[h].status = worker[h].status
    <3>1. CASE Begin(t) \/ Publish(t) \/ Fail(t) \/ PublishEarly(t)
      <4>1. h # thread_w[t]
        BY <3>1 DEF Begin, Publish, Fail, PublishEarly, Executing, IInv, HeldIsUnfinished
      <4> QED
        BY <3>1, <4>1 DEF Begin, Publish, Fail, PublishEarly, SetStatus, IInv, TypeOK
    <3>2. CASE StoreResult(t) \/ StoreLate(t) \/ Retire(t)
      <4>1. worker' \in {worker, [worker EXCEPT ![thread_w[t]].stored = TRUE],
                           [worker EXCEPT ![thread_w[t]].memory = "freed"]}
        BY <3>2 DEF StoreResult, StoreLate, Retire, SetResult
      <4>2. worker \in [Handles -> Workers]
        BY DEF IInv, TypeOK
      <4> QED
        BY <4>1, <4>2 DEF Workers
    <3>3. CASE \/ ThreadStart(t) \/ Take(t) \/ FindEmpty(t) \/ Leave(t)
               \/ RetireFreed(t) \/ ExecuteFreed(t)
      BY <3>3 DEF ThreadStart, Take, FindEmpty, Leave, RetireFreed, ExecuteFreed, queueVars
    <3> QED
      BY <2>2, <3>1, <3>2, <3>3 DEF ThreadStep
  <2>3. ASSUME NEW c \in Clients, CallStep(c)
        PROVE  worker' = worker
    BY <2>3 DEF CallStep, GetWorker, ReturnStatus, WaitLoop, WaitReturn, ReturnResult,
                ReturnFreedResult, Proceed, queueVars
  <2>4. ASSUME NEW c \in Clients, NEW op \in Lookups, NEW g \in Handles, Invoke(c, op, g)
        PROVE  worker' = worker
    BY <2>4 DEF Invoke, queueVars
  <2>5. ASSUME NEW c \in Clients, NEW g \in Handles, Release(c, g)
        PROVE  worker'[h].status = worker[h].status
    BY <2>5 DEF Release, IInv, TypeOK, Workers
  <2> QED
    BY <2>1, <2>2, <2>3, <2>4, <2>5 DEF Next, ClientChoice
<1> QED
  BY <1>1, Invariance, PTL DEF Spec, OutcomeIsFinal
=============================================================================
