---------------------------- MODULE Concurrency ----------------------------
(***************************************************************************)
(* The namespace mariadb::concurrency: clients hand SQL commands to a      *)
(* queue that a detached thread drains, and poll the worker object of a    *)
(* command through its handle.  Models src/src/concurrency.cpp and         *)
(* src/src/worker.cpp.                                                     *)
(*                                                                         *)
(* A step is what happens between two points where another thread can get  *)
(* in: a critical section of g_mutex is one step, and every access to a    *)
(* worker or to g_thread_running made without the mutex is a step of its   *)
(* own.  A worker object is named by the handle it was created with, and a *)
(* thread by the handle of the command whose add() spawned it.             *)
(***************************************************************************)
EXTENDS Integers, Sequences

CONSTANTS
    Clients,       \* the application threads that call the namespace
    Statements,    \* the prepared statements of concurrency::create_statement
    NoStatement,   \* a command given as SQL text: it gets its own connection
    MaxHandles,    \* bound: how many commands are added in a behaviour
    ReleasePolicy, \* when a client calls release_handle:
                   \*   "never", "finished" (told the outcome), "anytime"
    Lookups,       \* bound: which of the calls that look a handle up are made
    SharedHandles, \* may a client use a handle another client was given
    SpawnMayFail,  \* may the std::thread constructor throw
    WeakStores     \* may m_status become visible before m_result

ASSUME ConcurrencyAssumption ==
    /\ NoStatement \notin Statements
    /\ MaxHandles \in Nat \ {0}
    /\ ReleasePolicy \in {"never", "finished", "anytime"}
    /\ Lookups \subseteq {"worker_status", "wait_handle", "get_result"}
    /\ {SharedHandles, SpawnMayFail, WeakStores} \subseteq BOOLEAN

Handles == 1 .. MaxHandles
Removed == 0    \* get_worker's static `removed` worker
NoHandle == 0   \* a client outside the namespace
NotFound == -1  \* the caller has not been through get_worker yet
NoWorker == 0   \* a thread whose local w is NULL

Statuses == {"waiting", "executing", "succeed", "failed", "removed"}
Unfinished == {"waiting", "executing"}  \* the values below status::succeed

VARIABLES
    next_handle,    \* g_next_handle
    querys_in,      \* g_querys_in, the queue of workers
    querys_out,     \* g_querys_out, its keys: entry h points to worker h
    thread_running, \* g_thread_running
    worker,         \* the worker objects and whether their memory is live
    thread_pc,      \* where each worker thread is in worker_thread()
    thread_w,       \* its local variable w
    call,           \* the call each client is in, "none" outside the namespace
    arg,            \* the handle it passed
    ref,            \* the worker get_worker returned to it
    known,          \* the handles each client was given
    told,           \* what each client was told of the outcome of a handle
    corrupted       \* undefined behaviour has destroyed the process

queueVars == <<next_handle, querys_in, querys_out, worker>>
threadVars == <<thread_running, thread_pc, thread_w>>
callVars == <<call, arg, ref>>
clientVars == <<call, arg, ref, known, told>>
vars == <<next_handle, querys_in, querys_out, thread_running, worker,
          thread_pc, thread_w, call, arg, ref, known, told, corrupted>>

Workers ==
    [memory : {"none", "live", "freed"}, status : Statuses, stored : BOOLEAN,
     keep : BOOLEAN, statement : Statements \cup {NoStatement}]

\* A worker as its constructor leaves it: `stored` tells whether m_result or
\* m_result_set holds the answer of the server.
NewWorker(s, k) ==
    [memory |-> "live", status |-> "waiting", stored |-> FALSE,
     keep |-> k, statement |-> s]

Init ==
    /\ next_handle = 0
    /\ querys_in = <<>>
    /\ querys_out = {}
    /\ thread_running = FALSE
    /\ worker = [h \in Handles |->
                   [NewWorker(NoStatement, FALSE) EXCEPT !.memory = "none"]]
    /\ thread_pc = [h \in Handles |-> "none"]
    /\ thread_w = [h \in Handles |-> NoWorker]
    /\ call = [c \in Clients |-> "none"]
    /\ arg = [c \in Clients |-> NoHandle]
    /\ ref = [c \in Clients |-> NotFound]
    /\ known = [c \in Clients |-> {}]
    /\ told = [c \in Clients |-> [h \in Handles |-> "none"]]
    /\ corrupted = FALSE

Live(h) == worker[h].memory = "live"

-----------------------------------------------------------------------------
(* add(): one critical section, from the new worker to start_thread().      *)

\* Mutants: the handle is taken before the counter is incremented; the queue is
\* filled at its front.
EnqueueOldHandle(h, s, k) ==
    /\ next_handle' = h
    /\ worker' = [worker EXCEPT ![h] = NewWorker(s, k)]
    /\ querys_in' = Append(querys_in, h - 1)
    /\ querys_out' = IF k THEN querys_out \cup {h - 1} ELSE querys_out

EnqueueFront(h, s, k) ==
    /\ next_handle' = h
    /\ worker' = [worker EXCEPT ![h] = NewWorker(s, k)]
    /\ querys_in' = <<h>> \o querys_in
    /\ querys_out' = IF k THEN querys_out \cup {h} ELSE querys_out

Enqueue(h, s, k) ==
    /\ next_handle' = h
    /\ worker' = [worker EXCEPT ![h] = NewWorker(s, k)]
    /\ querys_in' = Append(querys_in, h)
    /\ querys_out' = IF k THEN querys_out \cup {h} ELSE querys_out

\* start_thread() while g_thread_running reads true.
AddToRunning(c, h) ==
    /\ thread_running
    /\ known' = [known EXCEPT ![c] = @ \cup {h}]
    /\ UNCHANGED thread_pc

\* start_thread() while g_thread_running reads false.
AddAndSpawn(c, h) ==
    /\ ~thread_running
    /\ thread_pc' = [thread_pc EXCEPT ![h] = "starting"]
    /\ known' = [known EXCEPT ![c] = @ \cup {h}]

\* The std::thread constructor throws: the worker stays in the containers and
\* the caller gets an exception instead of the handle.
AddAndThrow(c, h) ==
    /\ SpawnMayFail
    /\ ~thread_running
    /\ UNCHANGED <<thread_pc, known>>

Add(c, s, k) ==
    /\ call[c] = "none"
    /\ next_handle < MaxHandles
    /\ Enqueue(next_handle + 1, s, k)
    /\ \/ AddToRunning(c, next_handle + 1)
       \/ AddAndSpawn(c, next_handle + 1)
       \/ AddAndThrow(c, next_handle + 1)
    /\ UNCHANGED <<thread_running, thread_w, callVars, told, corrupted>>

-----------------------------------------------------------------------------
(* worker_thread() and worker::execute().                                   *)

\* The flag is written by the new thread itself, without the mutex.
ThreadStart(t) ==
    /\ thread_pc[t] = "starting"
    /\ thread_running' = TRUE
    /\ thread_pc' = [thread_pc EXCEPT ![t] = "take"]
    /\ UNCHANGED <<queueVars, thread_w, clientVars, corrupted>>

\* Mutant: the worker is read but not erased from the queue.
TakeAndKeep(t) ==
    /\ thread_pc[t] = "take"
    /\ querys_in # <<>>
    /\ thread_w' = [thread_w EXCEPT ![t] = Head(querys_in)]
    /\ thread_pc' = [thread_pc EXCEPT ![t] = "begin"]
    /\ UNCHANGED <<queueVars, thread_running, clientVars, corrupted>>

Take(t) ==
    /\ thread_pc[t] = "take"
    /\ querys_in # <<>>
    /\ thread_w' = [thread_w EXCEPT ![t] = Head(querys_in)]
    /\ querys_in' = Tail(querys_in)
    /\ thread_pc' = [thread_pc EXCEPT ![t] = "begin"]
    /\ UNCHANGED <<next_handle, querys_out, worker, thread_running,
                   clientVars, corrupted>>

FindEmpty(t) ==
    /\ thread_pc[t] = "take"
    /\ querys_in = <<>>
    /\ thread_pc' = [thread_pc EXCEPT ![t] = "leave"]
    /\ UNCHANGED <<queueVars, thread_running, thread_w, clientVars, corrupted>>

\* A step of execute() on a live worker, from one pc to another.
Executing(t, from, to) ==
    /\ thread_pc[t] = from
    /\ Live(thread_w[t])
    /\ thread_pc' = [thread_pc EXCEPT ![t] = to]
    /\ UNCHANGED <<next_handle, querys_in, querys_out, thread_running,
                   clientVars, corrupted>>

SetStatus(t, s) ==
    /\ worker' = [worker EXCEPT ![thread_w[t]].status = s]
    /\ UNCHANGED thread_w

SetResult(t) ==
    /\ worker' = [worker EXCEPT ![thread_w[t]].stored = TRUE]
    /\ UNCHANGED thread_w

\* Mutant: a failed command goes on to m_status = succeed.
FailAndGoOn(t) == Executing(t, "running", "publish") /\ SetStatus(t, "failed")

Begin(t) == Executing(t, "begin", "running") /\ SetStatus(t, "executing")
StoreResult(t) == Executing(t, "running", "publish") /\ SetResult(t)
Publish(t) == Executing(t, "publish", "retire") /\ SetStatus(t, "succeed")
Fail(t) == Executing(t, "running", "retire") /\ SetStatus(t, "failed")

\* The two plain stores are not ordered for a reader that takes no lock.
PublishEarly(t) ==
    /\ WeakStores
    /\ Executing(t, "running", "late")
    /\ SetStatus(t, "succeed")
StoreLate(t) == Executing(t, "late", "retire") /\ SetResult(t)

\* Mutants: the worker is never deleted; the loop is left after one command.
RetireWithoutDelete(t) ==
    /\ Executing(t, "retire", "take")
    /\ thread_w' = [thread_w EXCEPT ![t] = NoWorker]
    /\ UNCHANGED worker

RetireAndLeave(t) ==
    /\ Executing(t, "retire", "leave")
    /\ thread_w' = [thread_w EXCEPT ![t] = NoWorker]
    /\ UNCHANGED worker

\* if (!w->keep_handle()) delete w; and the end of the scope of w.
Retire(t) ==
    /\ Executing(t, "retire", "take")
    /\ thread_w' = [thread_w EXCEPT ![t] = NoWorker]
    /\ worker' = IF worker[thread_w[t]].keep
                 THEN worker
                 ELSE [worker EXCEPT ![thread_w[t]].memory = "freed"]

\* keep_handle() is read from memory a client has already deleted: what is
\* still there, or a value that has the worker deleted a second time.
RetireFreed(t) ==
    /\ thread_pc[t] = "retire"
    /\ ~Live(thread_w[t])
    /\ \/ /\ thread_pc' = [thread_pc EXCEPT ![t] = "take"]
          /\ thread_w' = [thread_w EXCEPT ![t] = NoWorker]
          /\ UNCHANGED corrupted
       \/ /\ corrupted' = TRUE
          /\ UNCHANGED <<thread_pc, thread_w>>
    /\ UNCHANGED <<queueVars, thread_running, clientVars>>

\* execute() on a deleted worker: it runs whatever strings and shared
\* pointers are found there.
ExecuteFreed(t) ==
    /\ thread_pc[t] \in {"begin", "running", "publish", "late"}
    /\ ~Live(thread_w[t])
    /\ corrupted' = TRUE
    /\ UNCHANGED <<queueVars, threadVars, clientVars>>

\* Mutant: the flag is not reset.
LeaveRunning(t) ==
    /\ thread_pc[t] = "leave"
    /\ thread_pc' = [thread_pc EXCEPT ![t] = "exited"]
    /\ UNCHANGED <<queueVars, thread_running, thread_w, clientVars, corrupted>>

\* g_thread_running = false, again without the mutex.
Leave(t) ==
    /\ thread_pc[t] = "leave"
    /\ thread_running' = FALSE
    /\ thread_pc' = [thread_pc EXCEPT ![t] = "exited"]
    /\ UNCHANGED <<queueVars, thread_w, clientVars, corrupted>>

-----------------------------------------------------------------------------
(* The calls a client makes with a handle.                                  *)

MayUse(c, h) ==
    IF SharedHandles THEN \E d \in Clients : h \in known[d] ELSE h \in known[c]

Invoke(c, op, h) ==
    /\ call[c] = "none"
    /\ MayUse(c, h)
    /\ call' = [call EXCEPT ![c] = op]
    /\ arg' = [arg EXCEPT ![c] = h]
    /\ UNCHANGED <<queueVars, threadVars, ref, known, told, corrupted>>

\* Mutant: the worker is returned without a look at g_querys_out.
GetWorkerBlindly(c) ==
    /\ call[c] # "none"
    /\ ref[c] = NotFound
    /\ ref' = [ref EXCEPT ![c] = arg[c]]
    /\ UNCHANGED <<queueVars, threadVars, call, arg, known, told, corrupted>>

\* get_worker() returns a reference and gives up the mutex.
GetWorker(c) ==
    /\ call[c] # "none"
    /\ ref[c] = NotFound
    /\ ref' = [ref EXCEPT ![c] = IF arg[c] \in querys_out THEN arg[c] ELSE Removed]
    /\ UNCHANGED <<queueVars, threadVars, call, arg, known, told, corrupted>>

\* The values w.status() may yield through the reference of client c.
StatusRead(c) ==
    CASE ref[c] = Removed -> {"removed"}
      [] ref[c] # Removed /\ Live(ref[c]) -> {worker[ref[c]].status}
      [] OTHER -> Statuses

Found(c, op) == call[c] = op /\ ref[c] # NotFound

\* The call moves to its next lookup, or returns when `next` is "none".
Proceed(c, next) ==
    /\ call' = [call EXCEPT ![c] = next]
    /\ arg' = [arg EXCEPT ![c] = IF next = "none" THEN NoHandle ELSE @]
    /\ ref' = [ref EXCEPT ![c] = NotFound]
    /\ UNCHANGED <<queueVars, threadVars, known, corrupted>>

Tell(c, what) == told' = [told EXCEPT ![c][arg[c]] = what]

\* worker_status(): the caller learns the outcome when there is one.
ReturnStatus(c) ==
    /\ Found(c, "worker_status")
    /\ Proceed(c, "none")
    /\ \E s \in StatusRead(c) :
         IF s \in Unfinished THEN UNCHANGED told
                             ELSE Tell(c, IF s = "succeed" THEN s ELSE "failed")

\* wait_handle(): the loop, and the second look at the worker that makes its
\* return value.
WaitLoop(c) ==
    /\ Found(c, "wait_handle")
    /\ \E s \in StatusRead(c) :
         Proceed(c, IF s \in Unfinished THEN "wait_handle" ELSE "wait_return")
    /\ UNCHANGED told

\* Mutant: everything but `failed` counts as a success.
WaitReturnNotFailed(c) ==
    /\ Found(c, "wait_return")
    /\ Proceed(c, "none")
    /\ \E s \in StatusRead(c) : Tell(c, IF s = "failed" THEN s ELSE "succeed")

WaitReturn(c) ==
    /\ Found(c, "wait_return")
    /\ Proceed(c, "none")
    /\ \E s \in StatusRead(c) : Tell(c, IF s = "succeed" THEN s ELSE "failed")

\* get_execute_result(), get_insert_result(), get_query_result().
ReturnResult(c) ==
    /\ Found(c, "get_result")
    /\ Proceed(c, "none")
    /\ UNCHANGED told

\* get_query_result() copies a shared pointer out of deleted memory.
ReturnFreedResult(c) ==
    /\ Found(c, "get_result")
    /\ ref[c] # Removed
    /\ ~Live(ref[c])
    /\ corrupted' = TRUE
    /\ UNCHANGED <<queueVars, threadVars, clientVars>>

MayRelease(c, h) ==
    \/ ReleasePolicy = "anytime"
    \/ ReleasePolicy = "finished" /\ told[c][h] # "none"

\* Mutant: the entry of g_querys_out is not erased.
ReleaseWithoutErase(c, h) ==
    /\ call[c] = "none"
    /\ MayUse(c, h)
    /\ MayRelease(c, h)
    /\ h \in querys_out
    /\ worker' = [worker EXCEPT ![h].memory = "freed"]
    /\ UNCHANGED <<next_handle, querys_in, querys_out, threadVars, clientVars,
                   corrupted>>

\* release_handle(), when the handle is still in g_querys_out.
Release(c, h) ==
    /\ call[c] = "none"
    /\ MayUse(c, h)
    /\ MayRelease(c, h)
    /\ h \in querys_out
    /\ worker' = [worker EXCEPT ![h].memory = "freed"]
    /\ querys_out' = querys_out \ {h}
    /\ UNCHANGED <<next_handle, querys_in, threadVars, clientVars, corrupted>>

-----------------------------------------------------------------------------
ThreadStep(t) ==
    \/ ThreadStart(t)
    \/ Take(t)
    \/ FindEmpty(t)
    \/ Begin(t)
    \/ StoreResult(t)
    \/ Publish(t)
    \/ Fail(t)
    \/ PublishEarly(t)
    \/ StoreLate(t)
    \/ Retire(t)
    \/ RetireFreed(t)
    \/ ExecuteFreed(t)
    \/ Leave(t)

\* The steps of a client inside a call, which its scheduler does not withhold.
CallStep(c) ==
    \/ GetWorker(c)
    \/ ReturnStatus(c)
    \/ WaitLoop(c)
    \/ WaitReturn(c)
    \/ ReturnResult(c)
    \/ ReturnFreedResult(c)

\* The calls a client chooses to make.
ClientChoice(c) ==
    \/ \E s \in Statements \cup {NoStatement}, k \in BOOLEAN : Add(c, s, k)
    \/ \E op \in Lookups, h \in Handles : Invoke(c, op, h)
    \/ \E h \in Handles : Release(c, h)

Next ==
    /\ ~corrupted
    /\ \/ \E t \in Handles : ThreadStep(t)
       \/ \E c \in Clients : CallStep(c) \/ ClientChoice(c)

Spec == Init /\ [][Next]_vars

\* The operating system runs every thread, and the server answers or the
\* connection fails: no step of a thread or of a call in progress is withheld.
Fairness ==
    /\ \A t \in Handles : WF_vars(~corrupted /\ ThreadStep(t))
    /\ \A c \in Clients : WF_vars(~corrupted /\ CallStep(c))

FairSpec == Spec /\ Fairness

-----------------------------------------------------------------------------
(* Properties                                                               *)

ThreadPcs == {"none", "starting", "take", "begin", "running", "publish",
              "late", "retire", "leave", "exited"}
Calls == {"none", "worker_status", "wait_handle", "wait_return", "get_result"}

\* Every variable stays within the values its declaration in the code allows.
TypeOK ==
    /\ next_handle \in 0 .. MaxHandles
    /\ querys_in \in Seq(Handles)
    /\ querys_out \subseteq Handles
    /\ thread_running \in BOOLEAN
    /\ worker \in [Handles -> Workers]
    /\ thread_pc \in [Handles -> ThreadPcs]
    /\ thread_w \in [Handles -> Handles \cup {NoWorker}]
    /\ call \in [Clients -> Calls]
    /\ arg \in [Clients -> Handles \cup {NoHandle}]
    /\ ref \in [Clients -> Handles \cup {Removed, NotFound}]
    /\ known \in [Clients -> SUBSET Handles]
    /\ told \in [Clients -> [Handles -> {"none", "succeed", "failed"}]]
    /\ corrupted \in BOOLEAN

\* The thread is between the removal of its worker from the queue and the end
\* of its last access to it.
Holds(t) == thread_pc[t] \in {"begin", "running", "publish", "late", "retire"}
\* The thread will look at the queue again.
Looping(t) == thread_pc[t] \in {"starting", "take"} \/ Holds(t)
Queued(h) == \E i \in 1 .. Len(querys_in) : querys_in[i] = h
Taken == next_handle - Len(querys_in)

Finished(h) == worker[h].status \in {"succeed", "failed"}

\* The queue holds exactly the handles after the last one taken, in order:
\* however many threads run, no command is lost, repeated or overtaken.
QueueInOrder ==
    /\ Len(querys_in) <= next_handle
    /\ \A i \in 1 .. Len(querys_in) : querys_in[i] = Taken + i

\* Two threads never execute the same worker, nor does a thread execute one
\* that is still in the queue, even when several threads drain it.
SingleExecutor ==
    \A t \in Handles : Holds(t) =>
        /\ ~Queued(thread_w[t])
        /\ \A u \in Handles \ {t} : Holds(u) => thread_w[u] # thread_w[t]

\* g_thread_running is true only while some thread that has started will still
\* reset it: add() never counts on a thread that has already exited.
FlagHonest ==
    thread_running =>
        \E t \in Handles :
            thread_pc[t] \in {"take", "leave"} \/ Holds(t)

\* g_querys_out never refers to a deleted worker, so the pointer release_handle
\* deletes and get_worker dereferences under the mutex is valid.
OutIsLive == \A h \in querys_out : Live(h)

\* A live worker can still be deleted: by the thread that holds it or will take
\* it, or by a release through g_querys_out.
NoLeak ==
    \A h \in Handles : Live(h) =>
        \/ h \in querys_out
        \/ Queued(h)
        \/ \E t \in Handles : Holds(t) /\ thread_w[t] = h

\* The outcome of a command never changes once it was published, and no worker
\* is executed a second time.
OutcomeIsFinal ==
    [][\A h \in Handles : Finished(h) => worker'[h].status = worker[h].status]_vars

\* When every handle is used by one client that releases it only after it was
\* told the outcome, no worker is deleted before its outcome is published: the
\* queue and execute() never meet a deleted one; and the reference get_worker()
\* returned is valid when the caller reads through it, after the mutex was given up.
HandlesStayLive ==
    /\ \A h \in 1 .. next_handle : Finished(h) \/ Live(h)
    /\ \A c \in Clients : call[c] # "none" /\ ref[c] \in Handles => Live(ref[c])

\* Under the same discipline a caller was told "succeed" only of a command that
\* did succeed, whatever happened between the two lookups of wait_handle(). A
\* caller that was told so and still finds the worker reads the answer of the
\* server; it reads the initial m_result only while the thread's store of the
\* answer, which nothing orders before the one of m_status, is outstanding.
StoreOutstanding(h) == \E t \in Handles : thread_pc[t] = "late" /\ thread_w[t] = h

ResultIsReady(c) ==
    call[c] = "get_result" /\ ref[c] \in Handles /\ told[c][arg[c]] = "succeed"
        => worker[ref[c]].stored \/ StoreOutstanding(ref[c])

ToldTruth ==
    \A c \in Clients :
        /\ \A h \in Handles : told[c][h] = "succeed" => worker[h].status = "succeed"
        /\ ResultIsReady(c)

Promise == INSTANCE CommandQueue WITH
    accepted <- next_handle,
    started <- Taken,
    outcome <- [h \in Handles |->
                  IF Finished(h) THEN worker[h].status ELSE "none"],
    visible <- querys_out

\* Under the same discipline the threads, the two containers and the worker
\* objects implement the promise made to the callers.
ImplementsPromise == Promise!Spec

\* A command that is in the queue while some thread will still look at the queue
\* is executed (a thread that has seen the queue empty does not look again), and
\* the caller of wait_handle() returns if its command is in the queue then, or
\* is being executed. Nothing is said once a freed worker was used.
Served ==
    /\ \A h \in Handles :
         (Queued(h) /\ \E t \in Handles : Looping(t)) ~> Finished(h) \/ corrupted
    /\ \A c \in Clients, h \in Handles :
         (/\ call[c] = "wait_handle" /\ arg[c] = h
          /\ \E t \in Handles : Looping(t) /\ (Queued(h) \/ thread_w[t] = h))
             ~> call[c] = "none" \/ corrupted

-----------------------------------------------------------------------------
(* What the documentation and the tests say, and the code does not ensure.  *)

\* "Wait for a handle to signal": wait_handle() returns once it is called on a
\* handle.  An add() between the thread's last look at the queue and its reset
\* of g_thread_running leaves the command to nobody.
WaitReturns ==
    \A c \in Clients : call[c] = "wait_handle" ~> call[c] = "none"

\* "Concurrency allows connection sharing between threads": the connection of a
\* prepared statement is used by one thread at a time.
StatementNotShared ==
    \A t, u \in Handles :
        (/\ thread_pc[t] = "running" /\ thread_pc[u] = "running"
         /\ worker[thread_w[t]].statement # NoStatement
         /\ worker[thread_w[t]].statement = worker[thread_w[u]].statement)
            => t = u

\* "release all handles" after waiting for them: a worker thread never reads a
\* worker its client has released after wait_handle() returned.
ReleaseIsSafe ==
    \A t \in Handles : Holds(t) => Live(thread_w[t])
=============================================================================
