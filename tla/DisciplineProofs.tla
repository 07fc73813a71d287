--------------------------- MODULE DisciplineProofs ---------------------------
(***************************************************************************)
(* Proofs about Concurrency for clients that keep their handles to         *)
(* themselves and release one only after they were told its outcome.       *)
(***************************************************************************)
EXTENDS ConcurrencyProofs

Disciplined == ReleasePolicy # "anytime" /\ SharedHandles = FALSE

-----------------------------------------------------------------------------
(* The inductive invariant, on top of IInv.  A worker that is kept is       *)
(* deleted by its owner only, who was told its outcome; one that is not is  *)
(* deleted by its thread, after the outcome was published.  So a client     *)
(* that finds no worker any more (`removed`), or has left the loop of       *)
(* wait_handle(), has a worker that is finished or was never in the map.    *)

Settled(h) == Kept(h) => Finished(h)

RetiredIsFinished ==
    \A t \in Handles : thread_pc[t] \in {"late", "retire"} => Finished(thread_w[t])
NoneRemoved == \A h \in Handles : worker[h].status # "removed"
FinishedOrLive == \A h \in 1 .. next_handle : Finished(h) \/ Live(h)

KnownApart ==
    \A c \in Clients :
        /\ known[c] \subseteq 1 .. next_handle
        /\ \A d \in Clients \ {c} : known[c] \cap known[d] = {}

CallIsSound(c) ==
    /\ call[c] = "none" => ref[c] = NotFound
    /\ call[c] # "none" => arg[c] \in known[c] /\ ref[c] \in {NotFound, Removed, arg[c]}
    /\ ref[c] \in Handles => Live(ref[c]) /\ Kept(ref[c])
    /\ ref[c] = Removed => arg[c] \notin querys_out
    /\ call[c] = "wait_return" => Settled(arg[c])

ToldIsSettled(c) ==
    \A h \in Handles : told[c][h] # "none" =>
        /\ h \in known[c]
        /\ Settled(h)
        /\ told[c][h] = "succeed" => worker[h].status = "succeed"

WInv == RetiredIsFinished /\ NoneRemoved /\ FinishedOrLive
CInv == KnownApart /\ \A c \in Clients : CallIsSound(c) /\ ToldIsSettled(c)
DInv == IInv /\ WInv /\ CInv

LEMMA DisciplineInit == Init => DInv
<1> SUFFICES ASSUME Init PROVE DInv
  OBVIOUS
<1>1. IInv
  BY InvInit
<1>2. WInv
  BY DEF WInv, RetiredIsFinished, NoneRemoved, FinishedOrLive, Init, NewWorker
<1>3. CInv
  BY DEF CInv, KnownApart, CallIsSound, ToldIsSettled, Init, NotFound, Removed, Handles
<1> QED
  BY <1>1, <1>2, <1>3 DEF DInv

-----------------------------------------------------------------------------
(* What a step does to the workers that exist: whether one is kept never    *)
(* changes, an outcome stays, and a kept worker stays.                      *)

Lasting ==
    \A h \in 1 .. next_handle :
        /\ Kept(h)' <=> Kept(h)
        /\ Finished(h) => worker'[h].status = worker[h].status
KeptStays == \A h \in 1 .. next_handle : Live(h) /\ Kept(h) => Live(h)'

LEMMA SettledLasts ==
    ASSUME Lasting, NEW h \in 1 .. next_handle, Settled(h)
    PROVE  Settled(h)'
BY DEF Lasting, Settled, Finished

LEMMA ThreadKeeps ==
    ASSUME IInv, WInv, NEW t \in Handles, ThreadStep(t)
    PROVE  WInv' /\ Lasting /\ KeptStays
<1> PICK w : w = thread_w[t]
  OBVIOUS
<1>1. TypeOK /\ 1 .. next_handle \subseteq Handles
  BY ConcurrencyAssumption DEF IInv, TypeOK, Handles
<1>2. CASE \/ ThreadStart(t) \/ Take(t) \/ FindEmpty(t) \/ Leave(t)
           \/ RetireFreed(t) \/ ExecuteFreed(t)
  <2>1. UNCHANGED <<worker, next_handle>>
    BY <1>2 DEF ThreadStart, Take, FindEmpty, Leave, RetireFreed, ExecuteFreed, queueVars
  <2>2. \A u \in Handles : thread_pc'[u] \in {"late", "retire"} =>
            thread_pc'[u] = thread_pc[u] /\ thread_w'[u] = thread_w[u]
    BY <1>1, <1>2 DEF ThreadStart, Take, FindEmpty, Leave, RetireFreed, ExecuteFreed,
                      threadVars, TypeOK
  <2> QED
    BY <2>1, <2>2 DEF WInv, RetiredIsFinished, NoneRemoved, FinishedOrLive, Lasting, KeptStays,
                      Live, Kept, Finished
<1>3. CASE \/ Begin(t) \/ StoreResult(t) \/ Publish(t) \/ Fail(t)
           \/ PublishEarly(t) \/ StoreLate(t) \/ Retire(t)
  <2> USE DEF Begin, StoreResult, Publish, Fail, PublishEarly, StoreLate, Retire
  <2>1. /\ w \in Handles /\ Live(w) /\ Holds(t)
        /\ UNCHANGED next_handle
    BY <1>1, <1>3 DEF Executing, Holds, IInv, HeldIsTaken, TypeOK, NoWorker, Handles
  <2>2. \A u \in Handles \ {t} : thread_pc'[u] = thread_pc[u] /\ thread_w'[u] = thread_w[u]
    BY <1>1, <1>3 DEF Executing, SetStatus, SetResult, TypeOK
  <2>3. \A h \in Handles \ {w} : worker'[h] = worker[h]
    BY <1>1, <1>3 DEF Executing, SetStatus, SetResult, TypeOK
  <2>4. worker'[w].keep = worker[w].keep /\ worker'[w].status # "removed"
    BY <1>1, <1>3, <2>1 DEF SetStatus, SetResult, TypeOK, Workers, WInv, NoneRemoved
  <2>5. Finished(w) => worker'[w].status = worker[w].status
    BY <1>1, <1>3, <2>1 DEF Executing, SetStatus, SetResult, TypeOK, Workers, IInv,
                            HeldIsUnfinished
  <2>6. thread_pc'[t] \in {"late", "retire"} => Finished(w)' /\ thread_w'[t] = w
    BY <1>1, <1>3, <2>1 DEF Executing, SetStatus, SetResult, TypeOK, Workers, Finished, WInv,
                            RetiredIsFinished
  <2>7. Live(w)' \/ (~Kept(w) /\ Finished(w)')
    <3>1. CASE Retire(t)
      BY <1>1, <2>1, <3>1 DEF Executing, TypeOK, Workers, Live, Kept, Finished, WInv,
                              RetiredIsFinished
    <3>2. CASE ~Retire(t)
      BY <1>1, <1>3, <2>1, <3>2 DEF SetStatus, SetResult, TypeOK, Workers, Live
    <3> QED
      BY <3>1, <3>2
  <2>8. Lasting /\ KeptStays
    BY <1>1, <2>3, <2>4, <2>5, <2>7 DEF Lasting, KeptStays, Kept, Live
  <2>9. \A h \in Handles : Finished(h) => Finished(h)'
    BY <2>3, <2>5 DEF Finished
  <2>10. RetiredIsFinished'
    <3>1. \A u \in Handles : thread_pc[u] \in {"late", "retire"} => thread_w[u] \in Handles
      BY DEF IInv, HeldIsTaken, Holds, TypeOK, NoWorker
    <3> QED
      BY <2>2, <2>6, <2>9, <3>1 DEF WInv, RetiredIsFinished, Finished
  <2>11. NoneRemoved'
    BY <2>3, <2>4 DEF WInv, NoneRemoved
  <2>12. FinishedOrLive'
    BY <1>1, <2>1, <2>3, <2>7, <2>9 DEF WInv, FinishedOrLive, Live
  <2> QED
    BY <2>8, <2>10, <2>11, <2>12 DEF WInv
<1> QED
  BY <1>2, <1>3 DEF ThreadStep

-----------------------------------------------------------------------------
(* What the clients know.                                                   *)

\* A step of someone else leaves what is known of a client's call and handles.
LEMMA ClientKeeps ==
    ASSUME DInv, TypeOK', Lasting, KeptStays, NEW c \in Clients, next_handle' >= next_handle,
           querys_out' \subseteq querys_out \cup {next_handle + 1},
           call'[c] = call[c], arg'[c] = arg[c], ref'[c] = ref[c],
           known[c] \subseteq known'[c], told'[c] = told[c]
    PROVE  CallIsSound(c)' /\ ToldIsSettled(c)'
<1>1. /\ known[c] \subseteq 1 .. next_handle /\ 1 .. next_handle \subseteq Handles
      /\ next_handle \in Nat
      /\ CallIsSound(c) /\ ToldIsSettled(c)
  BY ConcurrencyAssumption DEF DInv, CInv, KnownApart, IInv, TypeOK, Handles
<1>2. \A h \in known[c] : /\ Settled(h) => Settled(h)'
                          /\ Kept(h) <=> Kept(h)'
                          /\ Live(h) /\ Kept(h) => Live(h)'
                          /\ worker[h].status = "succeed" => worker'[h].status = "succeed"
                          /\ h # next_handle + 1
  BY <1>1, SettledLasts DEF Lasting, KeptStays, Finished
<1>3. call[c] # "none" => arg[c] \in known[c] /\ (ref[c] \in Handles => ref[c] = arg[c])
  BY <1>1 DEF CallIsSound, Handles, NotFound, Removed
<1>4. call[c] = "none" => ref[c] \notin Handles \cup {Removed}
  BY <1>1 DEF CallIsSound, Handles, NotFound, Removed
<1>5. CallIsSound(c)'
  BY <1>1, <1>2, <1>3, <1>4 DEF CallIsSound
<1>6. ToldIsSettled(c)'
  BY <1>1, <1>2 DEF ToldIsSettled
<1> QED
  BY <1>5, <1>6

LEMMA ThreadStepKeeps ==
    ASSUME DInv, IInv', NEW t \in Handles, ThreadStep(t)
    PROVE  DInv'
<1>1. WInv' /\ Lasting /\ KeptStays
  BY ThreadKeeps DEF DInv
<1>2. UNCHANGED clientVars /\ UNCHANGED <<next_handle, querys_out>>
  BY DEF ThreadStep, ThreadStart, Take, FindEmpty, Begin, StoreResult, Publish, Fail,
         PublishEarly, StoreLate, Retire, RetireFreed, ExecuteFreed, Leave, Executing, queueVars
<1>3. TypeOK' /\ next_handle' >= next_handle
  BY <1>2 DEF IInv, DInv, TypeOK
<1>4. ASSUME NEW c \in Clients PROVE CallIsSound(c)' /\ ToldIsSettled(c)'
  BY <1>1, <1>2, <1>3, ClientKeeps DEF clientVars
<1>5. KnownApart'
  BY <1>2 DEF DInv, CInv, KnownApart, clientVars
<1> QED
  BY <1>1, <1>4, <1>5 DEF DInv, CInv

LEMMA AddKeeps ==
    ASSUME DInv, IInv', NEW c \in Clients, NEW s \in Statements \cup {NoStatement},
           NEW k \in BOOLEAN, Add(c, s, k)
    PROVE  DInv'
<1> DEFINE h == next_handle + 1
<1>1. /\ h \in Handles /\ next_handle \in Nat /\ next_handle' = h
      /\ 1 .. next_handle \subseteq Handles
      /\ worker'[h] = NewWorker(s, k)
      /\ \A g \in Handles \ {h} : worker'[g] = worker[g]
      /\ querys_out' \subseteq querys_out \cup {h}
  BY ConcurrencyAssumption DEF Add, Enqueue, DInv, IInv, TypeOK, Handles
<1>2. /\ UNCHANGED <<thread_w, callVars, told>>
      /\ \A t \in Handles \ {h} : thread_pc'[t] = thread_pc[t]
      /\ thread_pc'[h] \in {"none", "starting"}
      /\ \/ known' = known
         \/ known' = [known EXCEPT ![c] = @ \cup {h}]
  BY <1>1 DEF Add, AddToRunning, AddAndSpawn, AddAndThrow, DInv, IInv, TypeOK, Fresh
<1>3. Lasting /\ KeptStays
  BY <1>1 DEF Lasting, KeptStays, Kept, Live
<1>4. WInv'
  <2>1. \A t \in Handles : thread_pc[t] \in {"late", "retire"} =>
            thread_w[t] \in 1 .. next_handle
    <3>1. Taken <= next_handle /\ Taken \in Int
      BY DEF DInv, IInv, TypeOK, QueueInOrder, Taken
    <3> QED
      BY <1>1, <3>1 DEF DInv, IInv, HeldIsTaken, Holds
  <2>2. RetiredIsFinished'
    BY <1>1, <1>2, <2>1 DEF DInv, WInv, RetiredIsFinished, Finished
  <2>3. NoneRemoved'
    BY <1>1 DEF DInv, WInv, NoneRemoved, NewWorker
  <2>4. FinishedOrLive'
    BY <1>1 DEF DInv, WInv, FinishedOrLive, Finished, Live, NewWorker
  <2> QED
    BY <2>2, <2>3, <2>4 DEF WInv
<1>5. KnownApart'
  <2>1. \A d \in Clients : known'[d] \subseteq known[d] \cup {h} /\ h \notin known[d]
    BY <1>1, <1>2 DEF DInv, CInv, KnownApart, IInv, TypeOK
  <2>2. \A d \in Clients \ {c} : known'[d] = known[d]
    BY <1>2 DEF DInv, IInv, TypeOK
  <2> QED
    BY <1>1, <2>1, <2>2 DEF DInv, CInv, KnownApart
<1>6. ASSUME NEW d \in Clients PROVE CallIsSound(d)' /\ ToldIsSettled(d)'
  <2>1. known[d] \subseteq known'[d]
    BY <1>2 DEF DInv, IInv, TypeOK
  <2>2. TypeOK' /\ next_handle' >= next_handle
    BY <1>1 DEF IInv
  <2> QED
    BY <1>1, <1>2, <1>3, <2>1, <2>2, ClientKeeps DEF callVars
<1> QED
  BY <1>4, <1>5, <1>6 DEF DInv, CInv

LEMMA ReleaseKeeps ==
    ASSUME Disciplined, DInv, IInv', NEW c \in Clients, NEW h \in Handles, Release(c, h)
    PROVE  DInv'
<1>1. /\ h \in known[c] /\ told[c][h] # "none" /\ h \in querys_out /\ call[c] = "none"
      /\ UNCHANGED <<next_handle, threadVars, clientVars>>
      /\ querys_out' \subseteq querys_out
      /\ worker'[h] = [worker[h] EXCEPT !.memory = "freed"]
      /\ \A g \in Handles \ {h} : worker'[g] = worker[g]
  BY DEF Release, MayUse, MayRelease, Disciplined, DInv, IInv, TypeOK
<1>2. Finished(h)
  BY <1>1 DEF DInv, CInv, ToldIsSettled, Settled, IInv, OutIsKept
<1>3. \A g \in Handles : /\ worker'[g].status = worker[g].status
                         /\ Kept(g)' <=> Kept(g)
                         /\ g # h => (Live(g)' <=> Live(g))
  BY <1>1 DEF Live, Kept, DInv, IInv, TypeOK, Workers
<1>4. 1 .. next_handle \subseteq Handles /\ next_handle \in Nat
  BY ConcurrencyAssumption DEF DInv, IInv, TypeOK, Handles
<1>5. Lasting
  BY <1>3, <1>4 DEF Lasting
<1>6. WInv'
  <2>1. \A t \in Handles : Holds(t) => thread_w[t] \in Handles
    BY DEF DInv, IInv, HeldIsTaken, TypeOK, NoWorker
  <2>2. RetiredIsFinished'
    BY <1>1, <1>3, <2>1 DEF DInv, WInv, RetiredIsFinished, Holds, Finished, threadVars
  <2>3. NoneRemoved'
    BY <1>3 DEF DInv, WInv, NoneRemoved
  <2>4. FinishedOrLive'
    BY <1>1, <1>2, <1>3, <1>4 DEF DInv, WInv, FinishedOrLive, Finished
  <2> QED
    BY <2>2, <2>3, <2>4 DEF WInv
<1>7. ASSUME NEW d \in Clients PROVE CallIsSound(d)' /\ ToldIsSettled(d)'
  <2>0. /\ UNCHANGED <<call, arg, ref, known, told>>
        /\ known[d] \subseteq 1 .. next_handle
        /\ CallIsSound(d) /\ ToldIsSettled(d)
    BY <1>1 DEF clientVars, DInv, CInv, KnownApart
  <2>1. \A g \in known[d] : Settled(g) => Settled(g)'
    BY <1>4, <1>5, <2>0, SettledLasts
  <2>2. call[d] # "none" => arg[d] \in known[d] /\ arg[d] # h
    BY <1>1, <2>0 DEF CallIsSound, DInv, CInv, KnownApart
  <2>3. ref[d] \in Handles => ref[d] = arg[d] /\ call[d] # "none"
    BY <2>0 DEF CallIsSound, Handles, NotFound, Removed
  <2>4. CallIsSound(d)'
    BY <1>1, <1>3, <1>4, <2>0, <2>1, <2>2, <2>3 DEF CallIsSound
  <2>5. ToldIsSettled(d)'
    BY <1>3, <1>4, <2>0, <2>1 DEF ToldIsSettled
  <2> QED
    BY <2>4, <2>5
<1>8. KnownApart'
  BY <1>1 DEF DInv, CInv, KnownApart, clientVars
<1> QED
  BY <1>6, <1>7, <1>8 DEF DInv, CInv

\* A step of client c inside the namespace, which only looks at the workers.
LEMMA LookKeeps ==
    ASSUME DInv, IInv', NEW c \in Clients, UNCHANGED <<queueVars, threadVars, known>>,
           \A d \in Clients \ {c} : /\ call'[d] = call[d] /\ arg'[d] = arg[d]
                                    /\ ref'[d] = ref[d] /\ told'[d] = told[d],
           CallIsSound(c)', ToldIsSettled(c)'
    PROVE  DInv'
<1>1. UNCHANGED <<next_handle, querys_out, worker, thread_pc, thread_w, known>>
  BY DEF queueVars, threadVars
<1>2. Lasting /\ KeptStays /\ WInv' /\ KnownApart'
  BY <1>1 DEF Lasting, KeptStays, Kept, Live, Finished, DInv, WInv, RetiredIsFinished,
              NoneRemoved, FinishedOrLive, CInv, KnownApart
<1>3. TypeOK' /\ next_handle' >= next_handle
  BY <1>1 DEF DInv, IInv, TypeOK
<1>4. ASSUME NEW d \in Clients \ {c} PROVE CallIsSound(d)' /\ ToldIsSettled(d)'
  BY <1>1, <1>2, <1>3, ClientKeeps
<1> QED
  BY <1>2, <1>4 DEF DInv, CInv

LEMMA InvokeKeeps ==
    ASSUME Disciplined, DInv, IInv', NEW c \in Clients, NEW op \in Lookups, NEW h \in Handles,
           Invoke(c, op, h)
    PROVE  DInv'
<1>1. /\ call[c] = "none" /\ ref[c] = NotFound /\ h \in known[c]
      /\ CallIsSound(c) /\ ToldIsSettled(c)
  BY DEF Invoke, MayUse, Disciplined, DInv, CInv, CallIsSound
<1>2. /\ call'[c] = op /\ arg'[c] = h
      /\ UNCHANGED <<queueVars, threadVars, ref, known, told>>
      /\ \A d \in Clients \ {c} : call'[d] = call[d] /\ arg'[d] = arg[d]
  BY DEF Invoke, DInv, IInv, TypeOK
<1>3. op # "none" /\ op # "wait_return"
  BY ConcurrencyAssumption
<1>4. CallIsSound(c)'
  BY <1>1, <1>2, <1>3 DEF CallIsSound, NotFound, Removed, Handles
<1>5. ToldIsSettled(c)'
  BY <1>1, <1>2 DEF ToldIsSettled, Settled, Kept, Finished, queueVars
<1> QED
  BY <1>2, <1>4, <1>5, LookKeeps

LEMMA GetWorkerKeeps ==
    ASSUME DInv, IInv', NEW c \in Clients, GetWorker(c)
    PROVE  DInv'
<1>1. /\ call[c] # "none" /\ arg[c] \in Handles
      /\ CallIsSound(c) /\ ToldIsSettled(c)
  BY DEF GetWorker, DInv, CInv, CallIsSound, IInv, TypeOK
<1>2. /\ ref'[c] = IF arg[c] \in querys_out THEN arg[c] ELSE Removed
      /\ UNCHANGED <<queueVars, threadVars, call, arg, known, told>>
      /\ \A d \in Clients \ {c} : ref'[d] = ref[d]
  BY DEF GetWorker, DInv, IInv, TypeOK
<1>3. arg[c] \in querys_out => Live(arg[c]) /\ Kept(arg[c])
  BY <1>1 DEF DInv, IInv, OutIsKept
<1>4. CallIsSound(c)'
  BY <1>1, <1>2, <1>3
     DEF CallIsSound, Settled, Kept, Live, Finished, Removed, NotFound, Handles, queueVars
<1>5. ToldIsSettled(c)'
  BY <1>1, <1>2 DEF ToldIsSettled, Settled, Kept, Finished, queueVars
<1> QED
  BY <1>2, <1>4, <1>5, LookKeeps

\* What a call that has its reference learns: the status of its worker, which no
\* one has deleted, or that there is no worker in the map any more.
LEMMA ReadIsSound ==
    ASSUME DInv, NEW c \in Clients, call[c] # "none", ref[c] # NotFound
    PROVE  /\ arg[c] \in known[c] /\ arg[c] \in 1 .. next_handle /\ arg[c] \in Handles
           /\ \A s \in StatusRead(c) :
                 /\ s \notin Unfinished => Settled(arg[c])
                 /\ s = "succeed" => worker[arg[c]].status = "succeed"
                 /\ s # "succeed" /\ s \notin Unfinished =>
                       worker[arg[c]].status = "failed" \/ arg[c] \notin querys_out
<1>1. /\ CallIsSound(c) /\ arg[c] \in known[c] /\ known[c] \subseteq 1 .. next_handle
      /\ known[c] \subseteq Handles
  BY DEF DInv, CInv, KnownApart, CallIsSound, IInv, TypeOK
<1>2. CASE ref[c] = Removed
  <2>1. StatusRead(c) = {"removed"} /\ arg[c] \notin querys_out
    BY <1>1, <1>2 DEF StatusRead, CallIsSound
  <2>2. Settled(arg[c])
    BY <1>1, <2>1 DEF Settled, DInv, IInv, OutIsKept, WInv, FinishedOrLive
  <2> QED
    BY <1>1, <2>1, <2>2
<1>3. CASE ref[c] # Removed
  <2>1. ref[c] = arg[c] /\ Live(arg[c]) /\ StatusRead(c) = {worker[arg[c]].status}
    BY <1>1, <1>3 DEF StatusRead, CallIsSound
  <2>2. worker[arg[c]].status \in Statuses \ {"removed"}
    BY <1>1 DEF DInv, IInv, TypeOK, Workers, WInv, NoneRemoved
  <2>3. worker[arg[c]].status \notin Unfinished => Finished(arg[c])
    BY <2>2 DEF Statuses, Unfinished, Finished
  <2> QED
    BY <1>1, <2>1, <2>2, <2>3 DEF Settled, Statuses, Unfinished
<1> QED
  BY <1>2, <1>3

LEMMA ReturnKeeps ==
    ASSUME DInv, IInv', NEW c \in Clients,
           ReturnStatus(c) \/ WaitLoop(c) \/ WaitReturn(c) \/ ReturnResult(c)
    PROVE  DInv'
<1>1. /\ call[c] # "none" /\ ref[c] # NotFound
      /\ CallIsSound(c) /\ ToldIsSettled(c)
      /\ UNCHANGED <<queueVars, threadVars, known>>
  BY DEF ReturnStatus, WaitLoop, WaitReturn, ReturnResult, Found, Proceed, DInv, CInv
<1>2. PICK next \in Calls : Proceed(c, next) /\ (next = "wait_return" => WaitLoop(c))
                           /\ (next = "none" \/ WaitLoop(c))
  BY DEF ReturnStatus, WaitLoop, WaitReturn, ReturnResult, Calls
<1>3. /\ call'[c] = next /\ ref'[c] = NotFound
      /\ next # "none" => arg'[c] = arg[c]
      /\ \A d \in Clients \ {c} : /\ call'[d] = call[d] /\ arg'[d] = arg[d]
                                    /\ ref'[d] = ref[d]
  BY <1>2 DEF Proceed, DInv, IInv, TypeOK
<1>4. \A d \in Clients \ {c} : told'[d] = told[d]
  BY DEF ReturnStatus, WaitLoop, WaitReturn, ReturnResult, Tell, DInv, IInv, TypeOK
<1>5. \A h \in Handles : (Settled(h)' <=> Settled(h)) /\ worker' = worker
  BY <1>1 DEF Settled, Kept, Finished, queueVars
<1>6. next = "wait_return" => Settled(arg[c])
  <2> SUFFICES ASSUME next = "wait_return" PROVE Settled(arg[c])
    OBVIOUS
  <2>1. PICK s \in StatusRead(c) :
            call' = [call EXCEPT ![c] = IF s \in Unfinished THEN "wait_handle" ELSE "wait_return"]
    BY <1>2 DEF WaitLoop, Proceed
  <2>2. s \notin Unfinished
    BY <1>3, <2>1 DEF DInv, IInv, TypeOK
  <2> QED
    BY <1>1, <2>1, <2>2, ReadIsSound
<1>7. CallIsSound(c)'
  BY <1>1, <1>3, <1>5, <1>6, ReadIsSound DEF CallIsSound, NotFound, Removed, Handles
<1>8. ToldIsSettled(c)'
  <2>1. CASE UNCHANGED told
    BY <1>1, <1>5, <2>1 DEF ToldIsSettled
  <2>2. CASE ReturnStatus(c) /\ told' # told
    <3>1. PICK s \in StatusRead(c) :
              s \notin Unfinished /\ Tell(c, IF s = "succeed" THEN s ELSE "failed")
      BY <2>2 DEF ReturnStatus
    <3>2. /\ told'[c][arg[c]] \in {"succeed", "failed"}
          /\ told'[c][arg[c]] = "succeed" => s = "succeed"
          /\ \A h \in Handles \ {arg[c]} : told'[c][h] = told[c][h]
      BY <1>1, <3>1, ReadIsSound DEF Tell, DInv, IInv, TypeOK
    <3> QED
      BY <1>1, <1>5, <3>1, <3>2, ReadIsSound DEF ToldIsSettled
  <2>3. CASE WaitReturn(c)
    <3>1. PICK s \in StatusRead(c) : Tell(c, IF s = "succeed" THEN s ELSE "failed")
      BY <2>3 DEF WaitReturn
    <3>2. /\ told'[c][arg[c]] = "succeed" => s = "succeed"
          /\ \A h \in Handles \ {arg[c]} : told'[c][h] = told[c][h]
      BY <1>1, <3>1, ReadIsSound DEF Tell, DInv, IInv, TypeOK
    <3>3. Settled(arg[c])
      BY <1>1, <2>3 DEF WaitReturn, Found, CallIsSound
    <3> QED
      BY <1>1, <1>5, <3>1, <3>2, <3>3, ReadIsSound DEF ToldIsSettled
  <2> QED
    BY <2>1, <2>2, <2>3 DEF ReturnStatus, WaitLoop, WaitReturn, ReturnResult
<1> QED
  BY <1>1, <1>3, <1>4, <1>7, <1>8, LookKeeps

LEMMA FreedResultKeeps ==
    ASSUME DInv, IInv', NEW c \in Clients, ReturnFreedResult(c)
    PROVE  DInv'
<1>1. UNCHANGED clientVars /\ UNCHANGED <<queueVars, threadVars>>
  BY DEF ReturnFreedResult
<1>2. CallIsSound(c)' /\ ToldIsSettled(c)'
  BY <1>1 DEF DInv, CInv, CallIsSound, ToldIsSettled, Settled, Kept, Live, Finished,
              clientVars, queueVars
<1> QED
  BY <1>1, <1>2, LookKeeps DEF clientVars

LEMMA DisciplineNext == Disciplined /\ DInv /\ [Next]_vars => DInv'
<1> SUFFICES ASSUME Disciplined, DInv, [Next]_vars PROVE DInv'
  OBVIOUS
<1>1. IInv'
  BY InvNext DEF DInv
<1>2. CASE UNCHANGED vars
  BY <1>1, <1>2 DEF vars, DInv, WInv, RetiredIsFinished, NoneRemoved, FinishedOrLive, CInv,
     KnownApart, CallIsSound, ToldIsSettled, Settled, Kept, Live, Finished
<1>3. CASE Next
  <2>1. ASSUME NEW c \in Clients, CallStep(c) PROVE DInv'
    BY <1>1, <2>1, GetWorkerKeeps, ReturnKeeps, FreedResultKeeps DEF CallStep
  <2>2. ASSUME NEW c \in Clients, ClientChoice(c) PROVE DInv'
    BY <1>1, <2>2, AddKeeps, InvokeKeeps, ReleaseKeeps DEF ClientChoice
  <2> QED
    BY <1>1, <1>3, <2>1, <2>2, ThreadStepKeeps DEF Next
<1> QED
  BY <1>2, <1>3

LEMMA DisciplineInvariance == Disciplined => (Spec => []DInv)
<1> SUFFICES ASSUME Disciplined PROVE Spec => []DInv
  OBVIOUS
<1>1. DInv /\ [Next]_vars => DInv'
  BY DisciplineNext
<1> QED
  BY <1>1, DisciplineInit, PTL DEF Spec

-----------------------------------------------------------------------------
(* What the invariant gives.                                                *)

\* Clients that keep their handles to themselves and release them once they were
\* told the outcome never have an unfinished worker deleted, nor one that a call of
\* theirs still refers to after get_worker() gave up the mutex.
THEOREM DisciplineKeepsLive == Disciplined => (Spec => []HandlesStayLive)
<1>1. DInv => HandlesStayLive
  BY DEF DInv, WInv, FinishedOrLive, CInv, CallIsSound, HandlesStayLive
<1> QED
  BY <1>1, DisciplineInvariance, PTL

-----------------------------------------------------------------------------
(* The answer is there before the outcome, or the thread that published the *)
(* outcome still has the store of the answer to make.                       *)

SucceedIsStored ==
    \A h \in Handles :
        worker[h].status = "succeed" => worker[h].stored = TRUE \/ StoreOutstanding(h)
PublishIsStored ==
    \A t \in Handles : thread_pc[t] = "publish" => worker[thread_w[t]].stored = TRUE

SInv == IInv /\ SucceedIsStored /\ PublishIsStored

LEMMA StoredInit == Init => SInv
BY InvInit DEF SInv, SucceedIsStored, PublishIsStored, Init, NewWorker

LEMMA StoredThread ==
    ASSUME SInv, NEW t \in Handles, ThreadStep(t)
    PROVE  SucceedIsStored' /\ PublishIsStored'
<1>1. TypeOK /\ \A u \in Handles : thread_pc[u] = "publish" => Holds(u) /\ thread_w[u] \in Handles
  BY DEF SInv, IInv, HeldIsTaken, TypeOK, NoWorker, Holds
<1>2. CASE \/ ThreadStart(t) \/ Take(t) \/ FindEmpty(t) \/ Leave(t)
           \/ RetireFreed(t) \/ ExecuteFreed(t)
  <2>1. worker' = worker
    BY <1>2 DEF ThreadStart, Take, FindEmpty, Leave, RetireFreed, ExecuteFreed, queueVars
  <2>2. \A u \in Handles :
          /\ thread_pc'[u] = "publish" => thread_pc[u] = "publish" /\ thread_w'[u] = thread_w[u]
          /\ thread_pc[u] = "late" => thread_pc'[u] = "late" /\ thread_w'[u] = thread_w[u]
    BY <1>1, <1>2 DEF ThreadStart, Take, FindEmpty, Leave, RetireFreed, ExecuteFreed,
                      threadVars, TypeOK
  <2>3. \A h \in Handles : StoreOutstanding(h) => StoreOutstanding(h)'
    BY <2>2 DEF StoreOutstanding
  <2> QED
    BY <2>1, <2>2, <2>3 DEF SInv, SucceedIsStored, PublishIsStored
<1>3. CASE \/ Begin(t) \/ StoreResult(t) \/ Publish(t) \/ Fail(t) \/ PublishEarly(t)
           \/ StoreLate(t) \/ Retire(t)
  <2> USE DEF Begin, StoreResult, Publish, Fail, PublishEarly, StoreLate, Retire
  <2> PICK w : w = thread_w[t]
    OBVIOUS
  <2>1. w \in Handles /\ Holds(t)
    BY <1>1, <1>3 DEF Executing, Holds, SInv, IInv, HeldIsTaken, TypeOK, NoWorker, Handles
  <2>2. /\ \A u \in Handles \ {t} : thread_pc'[u] = thread_pc[u] /\ thread_w'[u] = thread_w[u]
        /\ \A h \in Handles \ {w} : worker'[h] = worker[h]
    BY <1>1, <1>3 DEF Executing, SetStatus, SetResult, TypeOK
  <2>3. \A h \in Handles :
            StoreOutstanding(h) /\ (h # w \/ thread_pc[t] # "late") => StoreOutstanding(h)'
    BY <2>2 DEF StoreOutstanding
  <2>4. /\ worker[w].stored = TRUE => worker'[w].stored = TRUE
        /\ worker'[w].status = "succeed" => worker'[w].stored = TRUE \/ StoreOutstanding(w)'
        /\ thread_pc'[t] = "publish" => worker'[w].stored = TRUE /\ thread_w'[t] = w
    <3>1. CASE Begin(t) \/ Publish(t) \/ Fail(t)
      <4>1. PICK s \in Statuses : SetStatus(t, s) /\ (s = "succeed" => thread_pc[t] = "publish")
        BY <3>1 DEF Executing, Statuses
      <4>2. worker'[w].status = s /\ worker'[w].stored = worker[w].stored
        BY <1>1, <2>1, <4>1 DEF SetStatus, TypeOK, Workers
      <4>3. thread_pc'[t] # "publish"
        BY <1>1, <3>1 DEF Executing, TypeOK
      <4>4. thread_pc[t] = "publish" => worker[w].stored = TRUE
        BY DEF SInv, PublishIsStored
      <4> QED
        BY <4>1, <4>2, <4>3, <4>4
    <3>2. CASE StoreResult(t) \/ StoreLate(t)
      BY <1>1, <2>1, <3>2 DEF SetResult, TypeOK, Workers
    <3>3. CASE PublishEarly(t)
      <4>1. thread_pc'[t] = "late" /\ thread_w'[t] = w
        BY <1>1, <3>3 DEF Executing, SetStatus, TypeOK
      <4>2. StoreOutstanding(w)'
        BY <4>1 DEF StoreOutstanding
      <4>3. worker'[w].stored = worker[w].stored
        BY <1>1, <2>1, <3>3 DEF SetStatus, TypeOK, Workers
      <4> QED
        BY <4>1, <4>2, <4>3
    <3>4. CASE Retire(t)
      <4>1. /\ worker'[w].status = worker[w].status
            /\ worker'[w].stored = worker[w].stored
        BY <1>1, <2>1, <3>4 DEF TypeOK, Workers
      <4>2. thread_pc'[t] # "publish" /\ thread_pc[t] # "late"
        BY <1>1, <3>4 DEF Executing, TypeOK
      <4>3. worker[w].status = "succeed" => worker[w].stored = TRUE \/ StoreOutstanding(w)'
        BY <2>1, <2>3, <4>2 DEF SInv, SucceedIsStored
      <4> QED
        BY <4>1, <4>2, <4>3
    <3> QED
      BY <1>3, <3>1, <3>2, <3>3, <3>4
  <2>5. SucceedIsStored'
    BY <2>2, <2>3, <2>4 DEF SInv, SucceedIsStored
  <2>6. PublishIsStored'
    BY <1>1, <2>2, <2>4 DEF SInv, PublishIsStored
  <2> QED
    BY <2>5, <2>6
<1> QED
  BY <1>2, <1>3 DEF ThreadStep

LEMMA StoredNext == SInv /\ [Next]_vars => SInv'
<1> SUFFICES ASSUME SInv, [Next]_vars
             PROVE  SucceedIsStored' /\ PublishIsStored'
  BY InvNext DEF SInv
<1>1. ASSUME UNCHANGED <<worker, thread_pc, thread_w>>
      PROVE  SucceedIsStored' /\ PublishIsStored'
  BY <1>1 DEF SInv, SucceedIsStored, PublishIsStored, StoreOutstanding
<1>2. ASSUME NEW c \in Clients, NEW s \in Statements \cup {NoStatement}, NEW k \in BOOLEAN,
             Add(c, s, k)
      PROVE  SucceedIsStored' /\ PublishIsStored'
  <2> DEFINE h == next_handle + 1
  <2>1. /\ h \in Handles /\ worker'[h] = NewWorker(s, k) /\ thread_w' = thread_w
        /\ \A g \in Handles \ {h} : worker'[g] = worker[g]
        /\ \A t \in Handles : thread_pc'[t] = "publish" => thread_pc[t] = "publish"
    BY <1>2, ConcurrencyAssumption
       DEF Add, AddToRunning, AddAndSpawn, AddAndThrow, Enqueue, SInv, IInv, TypeOK, Handles
  <2>2. \A t \in Handles : thread_pc[t] = "publish" => thread_w[t] \in Handles \ {h}
    <3>1. Taken <= next_handle /\ Taken \in Int /\ next_handle \in Nat
      BY DEF SInv, IInv, TypeOK, QueueInOrder, Taken
    <3> QED
      BY <3>1 DEF SInv, IInv, HeldIsTaken, Holds, TypeOK, Handles, NoWorker
  <2>3. \A g \in Handles : StoreOutstanding(g) => StoreOutstanding(g)'
    <3>1. thread_pc[h] = "none" /\ thread_w' = thread_w
      BY <2>1 DEF SInv, IInv, TypeOK, Fresh
    <3>2. \A t \in Handles : thread_pc[t] = "late" => thread_pc'[t] = "late"
      BY <1>2, <3>1 DEF Add, AddToRunning, AddAndSpawn, AddAndThrow, SInv, IInv, TypeOK
    <3> QED
      BY <3>1, <3>2 DEF StoreOutstanding
  <2>4. SucceedIsStored'
    <3> HIDE DEF h
    <3>1. worker'[h].status = "waiting"
      BY <2>1 DEF NewWorker
    <3> QED
      BY <2>1, <2>3, <3>1 DEF SInv, SucceedIsStored
  <2>5. PublishIsStored'
    BY <2>1, <2>2 DEF SInv, PublishIsStored
  <2> QED
    BY <2>4, <2>5
<1>3. ASSUME NEW c \in Clients, NEW h \in Handles, Release(c, h)
      PROVE  SucceedIsStored' /\ PublishIsStored'
  <2>1. /\ UNCHANGED <<thread_pc, thread_w>>
        /\ \A g \in Handles : /\ worker'[g].status = worker[g].status
                               /\ worker'[g].stored = worker[g].stored
    BY <1>3 DEF Release, SInv, IInv, TypeOK, Workers, threadVars
  <2>2. \A t \in Handles : thread_pc[t] = "publish" => thread_w[t] \in Handles
    BY DEF SInv, IInv, HeldIsTaken, TypeOK, NoWorker, Holds
  <2> QED
    BY <2>1, <2>2 DEF SInv, SucceedIsStored, PublishIsStored, StoreOutstanding
<1>4. ASSUME NEW c \in Clients, CallStep(c)
      PROVE  UNCHANGED <<worker, thread_pc, thread_w>>
  BY <1>4 DEF CallStep, GetWorker, ReturnStatus, WaitLoop, WaitReturn, ReturnResult,
              ReturnFreedResult, Proceed, queueVars, threadVars
<1>5. ASSUME NEW c \in Clients, NEW op \in Lookups, NEW h \in Handles, Invoke(c, op, h)
      PROVE  UNCHANGED <<worker, thread_pc, thread_w>>
  BY <1>5 DEF Invoke, queueVars, threadVars
<1>6. CASE UNCHANGED vars
  BY <1>1, <1>6 DEF vars
<1> QED
  BY <1>1, <1>2, <1>3, <1>4, <1>5, <1>6, StoredThread DEF Next, ClientChoice

LEMMA StoredInvariance == Spec => []SInv
<1>1. SInv /\ [Next]_vars => SInv'
  BY StoredNext
<1> QED
  BY <1>1, StoredInit, PTL DEF Spec

\* Such a client was told "succeed" by worker_status() and wait_handle() only of a
\* command that did succeed; it then reads the answer, unless the plain stores were
\* reordered and the thread has that of the answer still to make.
THEOREM DisciplineToldTruth == Disciplined => (Spec => []ToldTruth)
<1> SUFFICES ASSUME Disciplined PROVE Spec => []ToldTruth
  OBVIOUS
<1>1. DInv /\ SInv => ToldTruth
  <2> SUFFICES ASSUME DInv, SInv, NEW c \in Clients
               PROVE  /\ \A h \in Handles : told[c][h] = "succeed" => worker[h].status = "succeed"
                      /\ ResultIsReady(c)
    BY DEF ToldTruth
  <2>1. \A h \in Handles : told[c][h] = "succeed" => worker[h].status = "succeed"
    BY DEF DInv, CInv, ToldIsSettled
  <2>2. ResultIsReady(c)
    <3> SUFFICES ASSUME call[c] # "none", ref[c] \in Handles, told[c][arg[c]] = "succeed"
                 PROVE  worker[ref[c]].stored \/ StoreOutstanding(ref[c])
      BY DEF ResultIsReady
    <3>1. ref[c] = arg[c]
      BY DEF DInv, CInv, CallIsSound, Handles, NotFound, Removed
    <3> QED
      BY <2>1, <3>1 DEF SInv, SucceedIsStored
  <2> QED
    BY <2>1, <2>2
<1> QED
  BY <1>1, DisciplineInvariance, StoredInvariance, PTL

-----------------------------------------------------------------------------
(* The refinement of CommandQueue.  Taking a command is Start, the store of *)
(* an outcome Conclude, an add() Accept, a release Forget, a call that      *)
(* returns an outcome Tell; every other step stutters.                      *)

Outcome == [h \in Handles |-> IF Finished(h) THEN worker[h].status ELSE "none"]
SameOutcome(h) ==
    /\ Finished(h)' <=> Finished(h)
    /\ Finished(h) => worker'[h].status = worker[h].status

LEMMA OutcomeSame ==
    ASSUME \A h \in Handles : SameOutcome(h)
    PROVE  Outcome' = Outcome
BY DEF SameOutcome, Outcome

LEMMA PromiseInit == Init => Promise!Init
<1> SUFFICES ASSUME Init PROVE Promise!Init
  OBVIOUS
<1>1. next_handle = 0 /\ Taken = 0 /\ querys_out = {}
  <2>1. Len(querys_in) = 0 /\ next_handle = 0 /\ querys_out = {}
    BY DEF Init
  <2> QED
    BY <2>1 DEF Taken
<1>2. Outcome = [h \in Handles |-> "none"]
  BY DEF Outcome, Init, Finished, NewWorker
<1>3. told = [c \in Clients |-> [h \in Handles |-> "none"]]
  BY DEF Init
<1> QED
  BY <1>1, <1>2, <1>3 DEF Promise!Init, Promise!Handles, Handles, Outcome

LEMMA PromiseThread ==
    ASSUME DInv, NEW t \in Handles, ThreadStep(t)
    PROVE  Promise!Next \/ UNCHANGED Promise!vars
<1>1. TypeOK /\ next_handle \in Nat /\ Len(querys_in) \in Nat /\ Taken \in Nat
  BY DEF DInv, IInv, TypeOK, QueueInOrder, Taken, Handles
<1>2. UNCHANGED <<next_handle, querys_out, told>>
  BY DEF ThreadStep, ThreadStart, Take, FindEmpty, Begin, StoreResult, Publish, Fail, PublishEarly,
         StoreLate, Retire, RetireFreed, ExecuteFreed, Leave, Executing, queueVars, clientVars
<1>3. CASE Take(t)
  <2>1. Len(querys_in') = Len(querys_in) - 1 /\ Len(querys_in) > 0
    BY <1>1, <1>3 DEF Take, TypeOK
  <2>2. Taken' = Taken + 1 /\ Taken < next_handle
    BY <1>1, <1>2, <2>1 DEF Taken
  <2>3. Outcome' = Outcome
    BY <1>3, OutcomeSame DEF Take, SameOutcome, Finished
  <2>4. Promise!Start
    BY <1>2, <2>2, <2>3 DEF Promise!Start, Outcome
  <2> QED
    BY <2>4 DEF Promise!Next
<1>4. CASE ThreadStep(t) /\ ~Take(t)
  <2>1. UNCHANGED querys_in /\ Taken' = Taken
    BY <1>2, <1>4 DEF ThreadStep, ThreadStart, FindEmpty, Begin, StoreResult, Publish, Fail,
       PublishEarly, StoreLate, Retire, RetireFreed, ExecuteFreed, Leave, Executing, queueVars,
       Taken
  <2>2. CASE \E s \in {"succeed", "failed"} :
                 Holds(t) /\ ~Finished(thread_w[t]) /\ SetStatus(t, s)
    <3> PICK w : w = thread_w[t]
      OBVIOUS
    <3>1. PICK s \in {"succeed", "failed"} : SetStatus(t, s) /\ Holds(t) /\ ~Finished(w)
      BY <2>2
    <3>2. w \in Handles /\ w <= Taken
      BY <1>1, <3>1 DEF DInv, IInv, HeldIsTaken, TypeOK, NoWorker, Handles
    <3>3. /\ worker'[w].status = s
          /\ \A h \in Handles \ {w} : worker'[h] = worker[h]
      BY <1>1, <3>1, <3>2 DEF SetStatus, TypeOK, Workers
    <3>4. Outcome[w] = "none" /\ Outcome' = [Outcome EXCEPT ![w] = s]
      BY <3>1, <3>2, <3>3 DEF Outcome, Finished
    <3>5. Promise!Conclude(w, s)
      BY <1>2, <2>1, <3>2, <3>4 DEF Promise!Conclude, Outcome
    <3> QED
      BY <3>1, <3>2, <3>5 DEF Promise!Next, Promise!Handles, Handles
  <2>3. CASE ~\E s \in {"succeed", "failed"} :
                 Holds(t) /\ ~Finished(thread_w[t]) /\ SetStatus(t, s)
    <3> SUFFICES Outcome' = Outcome
      BY <1>2, <2>1 DEF Promise!vars, Outcome
    <3>1. CASE \/ ThreadStart(t) \/ FindEmpty(t) \/ Leave(t) \/ RetireFreed(t) \/ ExecuteFreed(t)
      <4>1. worker' = worker
        BY <3>1 DEF ThreadStart, FindEmpty, Leave, RetireFreed, ExecuteFreed, queueVars
      <4> QED
        BY <4>1 DEF Outcome, Finished
    <3>2. CASE Begin(t)
      <4>1. Holds(t) /\ ~Finished(thread_w[t]) /\ thread_w[t] \in Handles
        BY <1>1, <3>2 DEF Begin, Executing, Holds, DInv, IInv, HeldIsUnfinished,
                           HeldIsTaken, TypeOK, NoWorker
      <4>2. /\ worker'[thread_w[t]].status = "executing"
            /\ \A h \in Handles \ {thread_w[t]} : worker'[h] = worker[h]
        BY <1>1, <3>2, <4>1 DEF Begin, SetStatus, TypeOK, Workers
      <4>3. \A h \in Handles : SameOutcome(h)
        BY <4>1, <4>2 DEF SameOutcome, Finished
      <4> QED
        BY <4>3, OutcomeSame
    <3>3. CASE StoreResult(t) \/ StoreLate(t) \/ Retire(t)
      <4>1. \A h \in Handles : worker'[h].status = worker[h].status
        <5>1. CASE StoreResult(t) \/ StoreLate(t)
          <6>1. worker' = [worker EXCEPT ![thread_w[t]].stored = TRUE]
            BY <5>1 DEF StoreResult, StoreLate, SetResult
          <6> QED
            BY <1>1, <6>1 DEF TypeOK, Workers
        <5>2. CASE Retire(t)
          BY <1>1, <5>2 DEF Retire, TypeOK, Workers
        <5> QED
          BY <3>3, <5>1, <5>2
      <4>2. \A h \in Handles : SameOutcome(h)
        BY <4>1 DEF SameOutcome, Finished
      <4> QED
        BY <4>2, OutcomeSame
    <3>4. CASE Publish(t) \/ Fail(t) \/ PublishEarly(t)
      <4>1. Holds(t) /\ ~Finished(thread_w[t])
        BY <1>1, <3>4 DEF Publish, Fail, PublishEarly, Executing, Holds, DInv, IInv,
                           HeldIsUnfinished
      <4> QED
        BY <2>3, <3>4, <4>1 DEF Publish, Fail, PublishEarly
    <3> QED
      BY <1>4, <3>1, <3>2, <3>3, <3>4 DEF ThreadStep
  <2> QED
    BY <2>2, <2>3
<1> QED
  BY <1>3, <1>4

LEMMA PromiseAdd ==
    ASSUME DInv, NEW c \in Clients, NEW s \in Statements \cup {NoStatement},
           NEW k \in BOOLEAN, Add(c, s, k)
    PROVE  Promise!Next
<1> DEFINE h == next_handle + 1
<1>1. /\ TypeOK /\ next_handle \in Nat /\ Len(querys_in) \in Nat /\ h \in Handles
      /\ next_handle < MaxHandles
  BY ConcurrencyAssumption DEF DInv, IInv, TypeOK, Handles, Add
<1>2. /\ next_handle' = h /\ Len(querys_in') = Len(querys_in) + 1
      /\ querys_out' \in {querys_out, querys_out \cup {h}} /\ told' = told
      /\ worker'[h] = NewWorker(s, k)
      /\ \A g \in Handles \ {h} : worker'[g] = worker[g]
  BY <1>1 DEF Add, Enqueue, TypeOK
<1>3. Taken' = Taken
  BY <1>1, <1>2 DEF Taken
<1>4. ~Finished(h)
  BY <1>1 DEF DInv, IInv, QueuedIsWaiting, Taken, Finished
<1>5. Outcome' = Outcome
  BY <1>2, <1>4, OutcomeSame DEF SameOutcome, Finished, NewWorker
<1>6. Promise!Accept
  BY <1>1, <1>2, <1>3, <1>5 DEF Promise!Accept, Outcome
<1> QED
  BY <1>6 DEF Promise!Next

LEMMA PromiseRelease ==
    ASSUME DInv, NEW c \in Clients, NEW h \in Handles, Release(c, h)
    PROVE  Promise!Next
<1>1. /\ querys_out' = querys_out \ {h} /\ Taken' = Taken
      /\ UNCHANGED <<next_handle, told>>
  BY DEF Release, clientVars, Taken
<1>2. \A g \in Handles : worker'[g].status = worker[g].status
  BY DEF Release, DInv, IInv, TypeOK, Workers
<1>3. Outcome' = Outcome
  BY <1>2, OutcomeSame DEF SameOutcome, Finished
<1>4. Promise!Forget(h)
  BY <1>1, <1>3 DEF Promise!Forget, Outcome
<1> QED
  BY <1>4 DEF Promise!Next, Promise!Handles, Handles

LEMMA PromiseCall ==
    ASSUME DInv, NEW c \in Clients, CallStep(c)
    PROVE  Promise!Next \/ UNCHANGED Promise!vars
<1>1. UNCHANGED queueVars
  BY DEF CallStep, GetWorker, ReturnStatus, WaitLoop, WaitReturn, ReturnResult, ReturnFreedResult,
         Proceed
<1>2. UNCHANGED <<next_handle, Taken, querys_out>> /\ Outcome' = Outcome
  BY <1>1 DEF queueVars, Taken, Outcome, Finished
<1>3. CASE UNCHANGED told
  BY <1>2, <1>3 DEF Promise!vars, Outcome
<1>4. CASE ~UNCHANGED told
  <2>1. call[c] # "none" /\ ref[c] # NotFound
    BY <1>4 DEF CallStep, GetWorker, ReturnStatus, WaitLoop, WaitReturn, ReturnResult,
                ReturnFreedResult, Found, clientVars
  <2>2. PICK s \in StatusRead(c) :
            /\ Tell(c, IF s = "succeed" THEN s ELSE "failed")
            /\ s \in Unfinished => WaitReturn(c)
    BY <1>4 DEF CallStep, GetWorker, ReturnStatus, WaitLoop, WaitReturn, ReturnResult,
                ReturnFreedResult, clientVars
  <2> PICK h : h = arg[c]
    OBVIOUS
  <2> PICK o : o = IF s = "succeed" THEN s ELSE "failed"
    OBVIOUS
  <2>3. h \in Handles /\ o \in {"succeed", "failed"} /\ told' = [told EXCEPT ![c][h] = o]
    BY <2>1, <2>2, ReadIsSound DEF Tell
  <2>4. o = Outcome[h] \/ (o = "failed" /\ h \notin querys_out)
    <3>1. CASE s = "succeed"
      BY <2>1, <2>3, <3>1, ReadIsSound DEF Outcome, Finished
    <3>2. CASE s # "succeed" /\ s \notin Unfinished
      BY <2>1, <2>3, <3>2, ReadIsSound DEF Outcome, Finished
    <3>3. s \notin Unfinished \/ h \notin querys_out
      <4> SUFFICES ASSUME s \in Unfinished, h \in querys_out PROVE FALSE
        OBVIOUS
      <4>1. Settled(h) /\ CallIsSound(c)
        BY <2>1, <2>2 DEF WaitReturn, Found, DInv, CInv, CallIsSound
      <4>2. Finished(h) /\ Live(h)
        BY <4>1, <2>3 DEF Settled, DInv, IInv, OutIsKept
      <4>3. ref[c] = h
        BY <2>1, <4>1 DEF CallIsSound
      <4>4. s = worker[h].status
        BY <2>3, <4>2, <4>3 DEF StatusRead, Removed, Handles
      <4> QED
        BY <4>2, <4>4 DEF Finished, Unfinished
    <3>4. s \in Unfinished => o = "failed"
      BY DEF Unfinished
    <3> QED
      BY <3>1, <3>2, <3>3, <3>4
  <2>5. Promise!Tell(c, h, o)
    BY <1>2, <2>3, <2>4 DEF Promise!Tell, Outcome
  <2> QED
    BY <2>3, <2>5 DEF Promise!Next, Promise!Handles, Handles
<1> QED
  BY <1>3, <1>4

LEMMA PromiseStep == DInv /\ [Next]_vars => [Promise!Next]_(Promise!vars)
<1> SUFFICES ASSUME DInv, [Next]_vars PROVE Promise!Next \/ UNCHANGED Promise!vars
  OBVIOUS
<1>1. ASSUME UNCHANGED <<queueVars, told>> PROVE UNCHANGED Promise!vars
  BY <1>1 DEF queueVars, Promise!vars, Taken, Finished
<1>2. CASE UNCHANGED vars
  BY <1>1, <1>2 DEF vars, queueVars
<1>3. ASSUME NEW c \in Clients, ClientChoice(c) PROVE Promise!Next \/ UNCHANGED Promise!vars
  <2>1. ASSUME NEW op \in Lookups, NEW h \in Handles, Invoke(c, op, h)
        PROVE  UNCHANGED Promise!vars
    BY <1>1, <2>1 DEF Invoke
  <2> QED
    BY <1>3, <2>1, PromiseAdd, PromiseRelease DEF ClientChoice
<1> QED
  BY <1>2, <1>3, PromiseThread, PromiseCall DEF Next

\* For such clients the threads, the two containers and the worker objects implement
\* what CommandQueue promises: commands started in the order of their handles, one
\* outcome each, "succeed" told of no other command.
THEOREM DisciplineImplementsPromise == Disciplined => (Spec => ImplementsPromise)
<1> SUFFICES ASSUME Disciplined PROVE Spec => ImplementsPromise
  OBVIOUS
<1>1. DInv /\ [Next]_vars => [Promise!Next]_(Promise!vars)
  BY PromiseStep
<1> QED
  BY <1>1, PromiseInit, DisciplineInvariance, PTL DEF ImplementsPromise, Promise!Spec, Spec
=============================================================================
