-------------------------- MODULE ConnectionProofs --------------------------
(***************************************************************************)
(* Proofs about Connection, for any accounts, schemas and character sets,  *)
(* and any number of losses and refusals.                                  *)
(***************************************************************************)
EXTENDS Connection, SequenceTheorems, TLAPS

-----------------------------------------------------------------------------
(* The call stack after a step: what the current call goes on with, and     *)
(* below it what was there before.                                          *)

Stacked(steps) ==
    /\ todo' \in Seq(Steps)
    /\ Len(steps) \in Nat
    /\ Len(todo) \in Nat
    /\ Len(todo') = Len(steps) + Len(todo) - 1
    /\ \A i \in 1 .. Len(steps) : todo'[i] = steps[i]
    /\ \A i \in 2 .. Len(todo) : todo'[Len(steps) + i - 1] = todo[i]
    /\ \A i \in 1 .. Len(todo') :
         \/ i \in 1 .. Len(steps)
         \/ \E k \in 2 .. Len(todo) : i = Len(steps) + k - 1

LEMMA ContinueStacks ==
    ASSUME todo \in Seq(Steps), todo # <<>>, NEW steps \in Seq(Steps), Continue(steps)
    PROVE  Stacked(steps)
<1>1. /\ Tail(todo) \in Seq(Steps) /\ Len(Tail(todo)) = Len(todo) - 1
      /\ \A i \in 1 .. Len(Tail(todo)) : Tail(todo)[i] = todo[i + 1]
  BY HeadTailProperties
<1>2. /\ todo' \in Seq(Steps) /\ Len(todo') = Len(steps) + Len(todo) - 1
      /\ \A i \in 1 .. Len(steps) + Len(Tail(todo)) : todo'[i] =
            IF i <= Len(steps) THEN steps[i] ELSE Tail(todo)[i - Len(steps)]
  BY <1>1, ConcatProperties DEF Continue
<1>3. Len(steps) \in Nat /\ Len(todo) \in Nat
  BY LenProperties
<1>4. ASSUME NEW i \in 2 .. Len(todo) PROVE todo'[Len(steps) + i - 1] = todo[i]
  <2>1. /\ Len(steps) + i - 1 \in 1 .. Len(steps) + Len(Tail(todo))
        /\ ~(Len(steps) + i - 1 <= Len(steps))
    BY <1>1, <1>3
  <2>2. (Len(steps) + i - 1) - Len(steps) = i - 1 /\ i - 1 \in 1 .. Len(Tail(todo))
    BY <1>1, <1>3
  <2> QED
    BY <1>1, <1>2, <2>1, <2>2
<1>5. ASSUME NEW i \in 1 .. Len(todo'), i \notin 1 .. Len(steps)
      PROVE  \E k \in 2 .. Len(todo) : i = Len(steps) + k - 1
  <2>1. i - Len(steps) + 1 \in 2 .. Len(todo) /\ i = Len(steps) + (i - Len(steps) + 1) - 1
    BY <1>2, <1>3, <1>5
  <2> QED
    BY <2>1
<1>6. \A i \in 1 .. Len(steps) : todo'[i] = steps[i]
  BY <1>1, <1>2, <1>3
<1> QED
  BY <1>2, <1>3, <1>4, <1>5, <1>6 DEF Stacked

\* A call that returns, or goes on with one or two steps.
LEMMA ReturnStacks ==
    ASSUME todo \in Seq(Steps), todo # <<>>, Continue(<<>>)
    PROVE  Stacked(<<>>) /\ Len(<<>>) = 0
<1>1. <<>> \in Seq(Steps) /\ Len(<<>>) = 0
  BY EmptySeq
<1> QED
  BY <1>1, ContinueStacks

LEMMA OneStacks ==
    ASSUME todo \in Seq(Steps), todo # <<>>, NEW s \in Steps, Continue(<<s>>)
    PROVE  Stacked(<<s>>) /\ Len(<<s>>) = 1 /\ <<s>>[1] = s
<1>1. <<s>> \in Seq(Steps) /\ Len(<<s>>) = 1 /\ <<s>>[1] = s
  OBVIOUS
<1> QED
  BY <1>1, ContinueStacks

LEMMA TwoStack ==
    ASSUME todo \in Seq(Steps), todo # <<>>, NEW s \in Steps, NEW t \in Steps,
           Continue(<<s, t>>)
    PROVE  /\ Stacked(<<s, t>>) /\ Len(<<s, t>>) = 2
           /\ <<s, t>>[1] = s /\ <<s, t>>[2] = t
<1>1. /\ <<s, t>> \in Seq(Steps) /\ Len(<<s, t>>) = 2
      /\ <<s, t>>[1] = s /\ <<s, t>>[2] = t
  OBVIOUS
<1> QED
  BY <1>1, ContinueStacks

\* The step the current call is at.
LEMMA Current ==
    ASSUME todo \in Seq(Steps), NEW d, At(d)
    PROVE  /\ todo # <<>> /\ Len(todo) \in Nat /\ Len(todo) >= 1
           /\ todo[1] \in Steps /\ todo[1].do = d
           /\ About = todo[1].about /\ Given = todo[1].value
BY DEF At, About, Given

\* What connect() does on a new link: it sets auto commit first, then the schema
\* of the account, and the options last.
LEMMA SetupSteps ==
    ASSUME account \in Accounts
    PROVE  /\ Setup \in Seq(Steps) /\ Len(Setup) >= 1
           /\ Setup[1] = Step("set", "auto_commit", account.auto_commit)
           /\ \A i \in 1 .. Len(Setup) :
                /\ Setup[i].do \notin {"open", "command", "apply"}
                /\ Setup[i].do = "set_option" => account.options
           /\ account.schema # Unset =>
                Len(Setup) >= 2 /\ Setup[2] = Step("set", "schema", account.schema)
<1> DEFINE first == Step("set", "auto_commit", account.auto_commit)
           second == IF account.schema = Unset THEN <<>>
                     ELSE <<Step("set", "schema", account.schema)>>
           third == IF account.options THEN <<Plain("connect"), Plain("set_option")>> ELSE <<>>
<1>1. /\ first \in Steps /\ Plain("connect") \in Steps /\ Plain("set_option") \in Steps
      /\ account.schema # Unset => Step("set", "schema", account.schema) \in Steps
      /\ account.options \in BOOLEAN
  BY ConnectionAssumption DEF Steps, Step, Plain
<1>2. <<first>> \in Seq(Steps) /\ Len(<<first>>) = 1 /\ <<first>>[1] = first
  BY <1>1
<1>3. /\ second \in Seq(Steps)
      /\ account.schema = Unset => Len(second) = 0
      /\ account.schema # Unset =>
            Len(second) = 1 /\ second[1] = Step("set", "schema", account.schema)
  BY <1>1
<1>4. /\ third \in Seq(Steps)
      /\ account.options =>
            Len(third) = 2 /\ third[1] = Plain("connect") /\ third[2] = Plain("set_option")
      /\ ~account.options => Len(third) = 0
  BY <1>1
<1> HIDE DEF first, second, third
<1>5. /\ <<first>> \o second \in Seq(Steps)
      /\ Len(<<first>> \o second) = 1 + Len(second)
      /\ \A i \in 1 .. 1 + Len(second) :
            (<<first>> \o second)[i] = IF i <= 1 THEN <<first>>[i] ELSE second[i - 1]
  BY <1>2, <1>3, ConcatProperties
<1>6. /\ Setup \in Seq(Steps)
      /\ Len(Setup) = 1 + Len(second) + Len(third)
      /\ \A i \in 1 .. 1 + Len(second) + Len(third) :
            Setup[i] = IF i <= 1 + Len(second) THEN (<<first>> \o second)[i]
                       ELSE third[i - (1 + Len(second))]
  <2>1. Setup = (<<first>> \o second) \o third
    BY DEF Setup, first, second, third
  <2> QED
    BY <1>4, <1>5, <2>1, ConcatProperties
<1>7. Len(second) \in {0, 1} /\ Len(third) \in {0, 2}
  BY <1>1, <1>3, <1>4
<1>8. Setup[1] = first
  BY <1>2, <1>5, <1>6, <1>7
<1>9. account.schema # Unset =>
         Len(Setup) >= 2 /\ Setup[2] = Step("set", "schema", account.schema)
  BY <1>3, <1>5, <1>6, <1>7
<1>10. ASSUME NEW i \in 1 .. Len(Setup)
       PROVE  /\ Setup[i].do \notin {"open", "command", "apply"}
              /\ Setup[i].do = "set_option" => account.options
  <2>1. CASE i = 1
    BY <1>8, <2>1 DEF first, Step
  <2>2. CASE i # 1 /\ i <= 1 + Len(second)
    BY <1>3, <1>5, <1>6, <1>7, <2>2 DEF Step
  <2>3. CASE ~(i <= 1 + Len(second))
    <3>1. i - (1 + Len(second)) \in {1, 2} /\ account.options
      BY <1>1, <1>4, <1>6, <1>7, <2>3
    <3> QED
      BY <1>4, <1>6, <2>3, <3>1 DEF Plain, Step
  <2> QED
    BY <2>1, <2>2, <2>3
<1> QED
  BY <1>6, <1>7, <1>8, <1>9, <1>10 DEF first

-----------------------------------------------------------------------------
(* Type correctness.                                                        *)

LEMMA TypeInit == Init => TypeOK
<1> SUFFICES ASSUME Init PROVE TypeOK
  OBVIOUS
<1>1. Defaults \in Settings
  BY DEF Defaults, Settings
<1>2. todo \in Seq(Steps) /\ 0 \in 0 .. MaxRefusals /\ 0 \in 0 .. MaxLosses
  BY ConnectionAssumption DEF Init
<1> QED
  BY <1>1, <1>2 DEF Init, TypeOK

LEMMA TypeCallStep ==
    ASSUME TypeOK, CallStep
    PROVE  TypeOK'
<1> USE DEF link, trouble
<1>1. todo # <<>> /\ todo \in Seq(Steps) /\ <<>> \in Seq(Steps)
  BY DEF TypeOK, CallStep, Connect, Open, OpenFails, Set, Apply, SetOption, Command, At
<1>2. Plain("connect") \in Steps /\ Plain("open") \in Steps
  BY DEF Plain, Step, Steps
<1>3. ASSUME NEW steps \in Seq(Steps), Continue(steps)
      PROVE  /\ todo' \in Seq(Steps) /\ outcome' \in {"none", "returned", "thrown"}
             /\ UNCHANGED <<account, op, losses>>
  BY <1>1, <1>3, ContinueStacks DEF Continue, Stacked, TypeOK
<1>4. ASSUME Throw
      PROVE  /\ todo' \in Seq(Steps) /\ outcome' \in {"none", "returned", "thrown"}
             /\ UNCHANGED <<account, op, losses>>
  BY <1>1, <1>4 DEF Throw
<1>5. ASSUME Refuse PROVE fault' \in BOOLEAN /\ refusals' \in 0 .. MaxRefusals
  BY <1>5, ConnectionAssumption DEF Refuse, TypeOK
<1>6. ASSUME RequestFails, UNCHANGED cached PROVE TypeOK'
  BY <1>4, <1>5, <1>6 DEF RequestFails, TypeOK
<1>7. CASE Connect
  <2>1. <<Plain("open")>> \in Seq(Steps)
    BY <1>2
  <2>2. /\ todo' \in Seq(Steps) /\ outcome' \in {"none", "returned", "thrown"}
        /\ UNCHANGED <<account, op, losses>>
    BY <1>1, <1>3, <1>4, <1>7, <2>1 DEF Connect
  <2>3. mysql' \in {"null", "init", "link"}
    BY <1>7 DEF Connect, TypeOK
  <2> QED
    BY <1>7, <2>2, <2>3 DEF Connect, TypeOK
<1>8. CASE Open
  <2>1. Setup \in Seq(Steps)
    BY SetupSteps DEF TypeOK
  <2>2. session' \in Settings
    <3>1. Defaults \in Settings /\ session.charset \in Charsets \cup {Unset}
      BY DEF TypeOK, Defaults, Settings
    <3>2. [Defaults EXCEPT !.charset = session.charset] \in Settings
      BY <3>1 DEF Settings
    <3> QED
      BY <1>8, <3>1, <3>2 DEF Open
  <2> QED
    BY <1>3, <1>8, <2>1, <2>2 DEF Open, TypeOK
<1>9. CASE OpenFails
  BY <1>4, <1>5, <1>9 DEF OpenFails, TypeOK
<1>10. CASE Set
  <2>1. Step("apply", About, Given) \in Steps
    BY <1>1, <1>10, Current DEF Set, Steps, Step
  <2>2. <<Plain("connect"), Step("apply", About, Given)>> \in Seq(Steps)
    BY <1>2, <2>1
  <2>3. /\ todo' \in Seq(Steps) /\ outcome' \in {"none", "returned", "thrown"}
        /\ UNCHANGED <<account, op, losses>>
    BY <1>1, <1>3, <1>10, <2>2 DEF Set
  <2> QED
    BY <1>10, <2>3 DEF Set, TypeOK
<1>11. CASE Apply
  <2>1. CASE Continue(<<>>) /\ session' = [session EXCEPT ![About] = Given]
             /\ cached' = [cached EXCEPT ![About] = Given]
             /\ UNCHANGED <<mysql, alive, unread, trouble>>
    <3>1. \/ About = "auto_commit" /\ Given \in BOOLEAN
          \/ About = "schema" /\ Given \in Schemas
          \/ About = "charset" /\ Given \in Charsets
      BY <1>1, <1>11, Current DEF Apply, Steps
    <3>2. session' \in Settings /\ cached' \in Settings
      BY <2>1, <3>1 DEF Settings, TypeOK
    <3> QED
      BY <1>1, <1>3, <2>1, <3>2 DEF TypeOK
  <2> QED
    BY <1>6, <1>11, <2>1 DEF Apply
<1>12. CASE SetOption
  BY <1>4, <1>6, <1>12 DEF SetOption, TypeOK
<1>13. CASE Command
  <2>1. ASSUME unread' \in LeftUnread(About) PROVE unread' \in {"none", "rows", "more"}
    BY <2>1 DEF LeftUnread
  <2> QED
    BY <1>1, <1>3, <1>6, <1>13, <2>1 DEF Command, TypeOK
<1> QED
  BY <1>7, <1>8, <1>9, <1>10, <1>11, <1>12, <1>13 DEF CallStep

\* The stack of an operation the user calls: connect(), and only then requests.
Names == {"connect", "set_auto_commit", "set_schema", "set_charset", "execute", "insert",
          "query", "create_statement", "worker"}
Fresh(steps) ==
    /\ steps \in Seq(Steps)
    /\ steps # <<>>
    /\ \A i \in 1 .. Len(steps) :
         /\ steps[i].do \in {"connect", "set", "command"}
         /\ steps[i].do = "command" =>
              i = Len(steps) /\ i - 1 \in 1 .. i - 1 /\ steps[i - 1].do = "connect"

LEMMA OperationCalls ==
    ASSUME Operation
    PROVE  \E name \in Names, steps \in Seq(Steps) : Fresh(steps) /\ Call(name, steps)
<1>1. ASSUME NEW s \in Steps, s.do \in {"connect", "set"} PROVE Fresh(<<s>>)
  BY <1>1 DEF Fresh
<1>2. ASSUME NEW kind \in {"execute", "insert", "query", "create_statement"}
      PROVE  Fresh(<<Plain("connect"), Step("command", kind, Unset)>>)
  BY DEF Fresh, Plain, Step, Steps
<1>3. Fresh(Worker)
  BY DEF Fresh, Worker, Plain, Step, Steps
<1>4. /\ Plain("connect") \in Steps /\ Plain("connect").do = "connect"
      /\ \A b \in BOOLEAN : Step("set", "auto_commit", b) \in Steps
      /\ \A x \in Schemas : Step("set", "schema", x) \in Steps
      /\ \A x \in Charsets : Step("set", "charset", x) \in Steps
      /\ \A a, v : Step("set", a, v).do = "set"
  BY DEF Plain, Step, Steps
<1> USE DEF Names
<1>5. CASE Call("connect", <<Plain("connect")>>)
  BY <1>1, <1>4, <1>5 DEF Fresh
<1>6. CASE \E b \in BOOLEAN : Call("set_auto_commit", <<Step("set", "auto_commit", b)>>)
  <2>1. PICK b \in BOOLEAN : Call("set_auto_commit", <<Step("set", "auto_commit", b)>>)
    BY <1>6
  <2>2. Fresh(<<Step("set", "auto_commit", b)>>)
    BY <1>1, <1>4
  <2> QED
    BY <2>1, <2>2 DEF Fresh
<1>7. CASE \E x \in Schemas : Call("set_schema", <<Step("set", "schema", x)>>)
  <2>1. PICK x \in Schemas : Call("set_schema", <<Step("set", "schema", x)>>)
    BY <1>7
  <2>2. Fresh(<<Step("set", "schema", x)>>)
    BY <1>1, <1>4
  <2> QED
    BY <2>1, <2>2 DEF Fresh
<1>8. CASE \E x \in Charsets : Call("set_charset", <<Step("set", "charset", x)>>)
  <2>1. PICK x \in Charsets : Call("set_charset", <<Step("set", "charset", x)>>)
    BY <1>8
  <2>2. Fresh(<<Step("set", "charset", x)>>)
    BY <1>1, <1>4
  <2> QED
    BY <2>1, <2>2 DEF Fresh
<1>9. CASE \E kind \in {"execute", "insert", "query", "create_statement"} :
              Call(kind, <<Plain("connect"), Step("command", kind, Unset)>>)
  <2>1. PICK kind \in {"execute", "insert", "query", "create_statement"} :
            Call(kind, <<Plain("connect"), Step("command", kind, Unset)>>)
    BY <1>9
  <2> DEFINE steps == <<Plain("connect"), Step("command", kind, Unset)>>
  <2>2. Fresh(steps) /\ steps \in Seq(Steps) /\ kind \in Names
    BY <1>2 DEF Fresh
  <2> HIDE DEF steps
  <2> QED
    BY <2>1, <2>2 DEF steps
<1>10. CASE Call("worker", Worker)
  BY <1>3, <1>10 DEF Fresh
<1> QED
  BY <1>5, <1>6, <1>7, <1>8, <1>9, <1>10 DEF Operation

LEMMA TypeNext == TypeOK /\ [Next]_vars => TypeOK'
<1> SUFFICES ASSUME TypeOK, [Next]_vars PROVE TypeOK'
  OBVIOUS
<1>1. CASE CallStep
  BY <1>1, TypeCallStep
<1>2. CASE Operation
  <2>1. PICK name \in Names, steps \in Seq(Steps) : Call(name, steps)
    BY <1>2, OperationCalls
  <2> QED
    BY <2>1 DEF Call, Names, TypeOK, link
<1>3. CASE Disconnect
  BY <1>3 DEF Disconnect, TypeOK, trouble
<1>4. CASE FreeResult
  BY <1>4 DEF FreeResult, TypeOK, trouble
<1>5. CASE Lose
  <2>1. losses' \in 0 .. MaxLosses /\ fault' \in BOOLEAN
    BY <1>5, ConnectionAssumption DEF Lose, TypeOK
  <2> QED
    BY <1>5, <2>1 DEF Lose, TypeOK
<1>6. CASE UNCHANGED vars
  BY <1>6 DEF vars, link, TypeOK
<1> QED
  BY <1>1, <1>2, <1>3, <1>4, <1>5, <1>6 DEF Next

\* Every variable of a connection keeps its type, whatever the user calls and the
\* server does; the stack holds nothing but steps of connection.cpp.
THEOREM TypeCorrect == Spec => []TypeOK
BY TypeInit, TypeNext, PTL DEF Spec

-----------------------------------------------------------------------------
(* The inductive invariant: what the stack of an operation in progress still *)
(* owes.  A request is preceded by a connect() that may still have to open a *)
(* link; settings that differ from those of the session are still to be set, *)
(* and no result is unread before they are.                                  *)

Requests == {"apply", "set_option", "command"}
Sets(i, setting) == todo[i].do \in {"set", "apply"} /\ todo[i].about = setting

StackShape ==
    \A i \in 1 .. Len(todo) :
        /\ todo[i].do = "open" => i = 1 /\ unread = "none"
        /\ todo[i].do = "command" => i = Len(todo)
        /\ todo[i].do = "set_option" => account.options

\* Unless there was a fault, a request finds a live link.
RequestsOnLink ==
    alive \/ fault \/
    \A i \in 1 .. Len(todo) : todo[i].do \in Requests =>
        \E j \in 1 .. i - 1 : todo[j].do \in {"connect", "open"}

Running == todo # <<>> => outcome = "none"

\* The next step that is about auto commit applies it, or will do so, as the
\* cached value does not hold it back.
AutoCommitPending ==
    /\ unread = "none"
    /\ \E i \in 1 .. Len(todo) :
         /\ Sets(i, "auto_commit")
         /\ todo[i].do = "apply" \/ (todo[i].value = TRUE /\ cached.auto_commit = FALSE)
         /\ \A j \in 1 .. i - 1 : ~Sets(j, "auto_commit")

AutoCommitSound ==
    alive /\ refusals = 0 /\ account.auto_commit =>
        cached.auto_commit = session.auto_commit \/ AutoCommitPending

SchemaPending == unread = "none" /\ \E i \in 1 .. Len(todo) : Sets(i, "schema")

SchemaSound ==
    alive /\ refusals = 0 /\ account.schema # Unset =>
        (cached.schema = session.schema /\ session.schema # Unset) \/ SchemaPending

IInv == TypeOK /\ StackShape /\ RequestsOnLink /\ Running /\ AutoCommitSound /\ SchemaSound

LEMMA InvInit == Init => IInv
<1> SUFFICES ASSUME Init PROVE IInv
  OBVIOUS
<1>1. Len(todo) = 0
  BY DEF Init
<1> QED
  BY <1>1, TypeInit DEF Init, IInv, StackShape, RequestsOnLink, Running, AutoCommitSound,
                        SchemaSound

\* A throw, and the closing of the link, leave no debt behind.
LEMMA InvThrow ==
    ASSUME IInv, TypeOK', todo' = <<>>,
           \/ alive' = FALSE
           \/ refusals' # 0
           \/ unread # "none" /\ UNCHANGED <<alive, unread, session, cached, account, refusals>>
    PROVE  IInv'
<1>1. Len(todo') = 0
  OBVIOUS
<1>2. StackShape' /\ RequestsOnLink' /\ Running'
  BY <1>1 DEF StackShape, RequestsOnLink, Running
<1>3. AutoCommitSound' /\ SchemaSound'
  BY DEF IInv, AutoCommitSound, SchemaSound, AutoCommitPending, SchemaPending
<1> QED
  BY <1>2, <1>3 DEF IInv

LEMMA InvRequestFails ==
    ASSUME IInv, TypeOK', RequestFails
    PROVE  IInv'
<1>1. todo' = <<>> /\ (alive' = FALSE \/ refusals' # 0)
  BY DEF RequestFails, Throw, Refuse, IInv, TypeOK
<1> QED
  BY <1>1, InvThrow

\* The current call goes on with steps that are not requests: what is below them
\* on the stack keeps its place.
LEMMA StackKeeps ==
    ASSUME IInv, NEW steps, Stacked(steps), todo # <<>>, UNCHANGED account,
           unread = "none" => unread' = "none",
           \A i \in 1 .. Len(steps) :
               /\ steps[i].do # "command"
               /\ steps[i].do = "open" => i = 1 /\ unread' = "none"
               /\ steps[i].do = "set_option" => account.options
    PROVE  StackShape'
<1> SUFFICES ASSUME NEW i \in 1 .. Len(todo')
             PROVE  /\ todo'[i].do = "open" => i = 1 /\ unread' = "none"
                    /\ todo'[i].do = "command" => i = Len(todo')
                    /\ todo'[i].do = "set_option" => account.options
  BY DEF StackShape
<1>1. CASE i \in 1 .. Len(steps)
  BY <1>1 DEF Stacked
<1>2. ASSUME NEW k \in 2 .. Len(todo), i = Len(steps) + k - 1
      PROVE  /\ todo'[i].do # "open"
             /\ todo'[i].do = "command" => i = Len(todo')
             /\ todo'[i].do = "set_option" => account.options
  <2>1. todo'[i] = todo[k] /\ k \in 1 .. Len(todo) /\ k # 1
    BY <1>2 DEF Stacked
  <2>2. k = Len(todo) => i = Len(todo')
    BY <1>2 DEF Stacked
  <2> QED
    BY <2>1, <2>2 DEF IInv, StackShape
<1> QED
  BY <1>1, <1>2 DEF Stacked

\* A setting that is still to be set is not forgotten by a step about another.
LEMMA PendingKeeps ==
    ASSUME TypeOK, NEW steps, Stacked(steps), todo # <<>>, NEW setting, ~Sets(1, setting),
           \A i \in 1 .. Len(steps) :
               ~(steps[i].do \in {"set", "apply"} /\ steps[i].about = setting),
           NEW i \in 1 .. Len(todo), Sets(i, setting)
    PROVE  \E k \in 1 .. Len(todo') :
             /\ todo'[k] = todo[i]
             /\ Sets(k, setting)'
             /\ (\A j \in 1 .. i - 1 : ~Sets(j, setting)) =>
                    \A j \in 1 .. k - 1 : ~Sets(j, setting)'
<1> DEFINE k == Len(steps) + i - 1
<1>1. i \in 2 .. Len(todo)
  BY DEF Stacked
<1>2. k \in 1 .. Len(todo') /\ todo'[k] = todo[i] /\ Sets(k, setting)'
  BY <1>1 DEF Stacked, Sets
<1>3. ASSUME \A j \in 1 .. i - 1 : ~Sets(j, setting), NEW j \in 1 .. k - 1
      PROVE  ~Sets(j, setting)'
  <2>1. CASE j \in 1 .. Len(steps)
    BY <2>1 DEF Stacked, Sets
  <2>2. ASSUME NEW m \in 2 .. Len(todo), j = Len(steps) + m - 1
        PROVE  ~Sets(j, setting)'
    BY <1>1, <1>3, <2>2 DEF Stacked, Sets
  <2>3. j \in 1 .. Len(todo')
    BY <1>1 DEF Stacked
  <2> QED
    BY <2>1, <2>2, <2>3 DEF Stacked
<1> QED
  BY <1>2, <1>3

LEMMA DebtsKept ==
    ASSUME IInv, NEW steps, Stacked(steps), todo # <<>>,
           UNCHANGED <<account, alive, unread, session, cached, refusals>>,
           ~Sets(1, "auto_commit") \/ cached.auto_commit = session.auto_commit,
           ~Sets(1, "schema"),
           \A i \in 1 .. Len(steps) : steps[i].do \notin {"set", "apply"}
    PROVE  AutoCommitSound' /\ SchemaSound'
<1>1. ASSUME AutoCommitPending, ~Sets(1, "auto_commit") PROVE AutoCommitPending'
  BY <1>1, PendingKeeps DEF AutoCommitPending, IInv
<1>2. ASSUME SchemaPending PROVE SchemaPending'
  BY <1>2, PendingKeeps DEF SchemaPending, IInv
<1> QED
  BY <1>1, <1>2 DEF IInv, AutoCommitSound, SchemaSound

LEMMA InvConnect ==
    ASSUME IInv, TypeOK', Connect
    PROVE  IInv'
<1>1. /\ todo # <<>> /\ todo[1].do = "connect" /\ todo \in Seq(Steps)
      /\ Plain("open") \in Steps /\ Plain("open").do = "open"
      /\ Len(todo) \in Nat /\ 1 \in 1 .. Len(todo)
      /\ UNCHANGED <<alive, unread, session, cached, trouble>>
  BY Current DEF Connect, IInv, TypeOK, Plain, Step, Steps
<1>2. ~Sets(1, "auto_commit") /\ ~Sets(1, "schema")
  BY <1>1 DEF Sets
<1>3. CASE Connected /\ Continue(<<>>)
  <2>1. Stacked(<<>>) /\ Len(<<>>) = 0
    BY <1>1, <1>3, ReturnStacks
  <2>2. AutoCommitSound' /\ SchemaSound'
    BY <1>1, <1>2, <1>3, <2>1, DebtsKept DEF Continue, trouble
  <2>3. StackShape'
    BY <1>1, <1>3, <2>1, StackKeeps DEF Continue
  <2>4. RequestsOnLink'
    BY <1>1, <1>3 DEF Connected, RequestsOnLink
  <2> QED
    BY <1>1, <1>3, <2>2, <2>3, <2>4 DEF IInv, Running, Continue
<1>4. CASE unread # "none" /\ Throw
  BY <1>1, <1>4, InvThrow DEF Throw, trouble
<1>5. CASE ~Connected /\ unread = "none" /\ Continue(<<Plain("open")>>)
  <2> DEFINE steps == <<Plain("open")>>
  <2>1. Stacked(steps) /\ Len(steps) = 1 /\ steps[1] = Plain("open")
    BY <1>1, <1>5, OneStacks
  <2> HIDE DEF steps
  <2>2. AutoCommitSound' /\ SchemaSound'
    BY <1>1, <1>2, <1>5, <2>1, DebtsKept DEF Continue, trouble
  <2>3. StackShape'
    BY <1>1, <1>5, <2>1, StackKeeps DEF Continue
  <2>4. RequestsOnLink'
    <3>1. todo'[1].do = "open"
      BY <1>1, <2>1 DEF Stacked
    <3>2. ASSUME NEW i \in 1 .. Len(todo'), todo'[i].do \in Requests
          PROVE  \E j \in 1 .. i - 1 : todo'[j].do \in {"connect", "open"}
      <4>1. i # 1
        BY <3>1, <3>2 DEF Requests
      <4>2. 1 \in 1 .. i - 1
        BY <4>1, <2>1 DEF Stacked
      <4> QED
        BY <3>1, <4>2
    <3> QED
      BY <3>2 DEF RequestsOnLink
  <2> QED
    BY <1>1, <1>5, <2>2, <2>3, <2>4 DEF IInv, Running, Continue, steps
<1> QED
  BY <1>3, <1>4, <1>5 DEF Connect

LEMMA InvOpen ==
    ASSUME IInv, TypeOK', Open
    PROVE  IInv'
<1>1. /\ todo # <<>> /\ todo[1].do = "open" /\ todo \in Seq(Steps)
      /\ 1 \in 1 .. Len(todo) /\ unread = "none" /\ account \in Accounts
  BY Current DEF Open, IInv, TypeOK, StackShape
<1>2. Stacked(Setup)
  BY <1>1, SetupSteps, ContinueStacks DEF Open
<1>3. /\ alive' = TRUE /\ UNCHANGED <<account, unread, cached, refusals>>
      /\ session'.auto_commit = TRUE
  BY DEF Open, Continue, trouble, Defaults
<1>4. StackShape'
  BY <1>1, <1>2, <1>3, SetupSteps, StackKeeps
<1>5. AutoCommitSound'
  <2> SUFFICES ASSUME account.auto_commit, cached.auto_commit # TRUE
               PROVE  AutoCommitPending'
    BY <1>3 DEF AutoCommitSound
  <2>1. cached.auto_commit = FALSE /\ account.auto_commit = TRUE
    BY <1>1, ConnectionAssumption DEF IInv, TypeOK, Settings
  <2>2. /\ Setup[1] = Step("set", "auto_commit", account.auto_commit)
        /\ Len(Setup) >= 1
    BY <1>1, SetupSteps
  <2>3. 1 \in 1 .. Len(Setup) /\ 1 \in 1 .. Len(todo')
    BY <1>1, <1>2, <2>2 DEF Stacked
  <2>4. todo'[1] = Step("set", "auto_commit", TRUE)
    <3>1. todo'[1] = Setup[1]
      BY <1>2, <2>3 DEF Stacked
    <3> QED
      BY <2>1, <2>2, <3>1
  <2>5. Sets(1, "auto_commit")' /\ todo'[1].value = TRUE
    BY <2>4 DEF Sets, Step
  <2>6. \A j \in 1 .. 1 - 1 : ~Sets(j, "auto_commit")'
    OBVIOUS
  <2>7. unread' = "none" /\ cached'.auto_commit = FALSE
    BY <1>1, <1>3, <2>1
  <2> QED
    BY <2>3, <2>5, <2>6, <2>7 DEF AutoCommitPending
<1>6. SchemaSound'
  <2> SUFFICES ASSUME account.schema # Unset PROVE SchemaPending'
    BY <1>3 DEF SchemaSound
  <2>1. 2 \in 1 .. Len(todo') /\ todo'[2] = Step("set", "schema", account.schema)
    BY <1>1, <1>2, SetupSteps DEF Stacked
  <2>2. Sets(2, "schema")'
    BY <2>1 DEF Sets, Step
  <2> QED
    BY <1>1, <1>3, <2>1, <2>2 DEF SchemaPending
<1>7. RequestsOnLink' /\ Running'
  BY <1>1, <1>3 DEF RequestsOnLink, Running, Open, Continue, IInv
<1> QED
  BY <1>4, <1>5, <1>6, <1>7 DEF IInv

LEMMA InvOpenFails ==
    ASSUME IInv, TypeOK', OpenFails
    PROVE  IInv'
BY InvThrow DEF OpenFails, Throw

\* A setter that finds its value cached returns; any other connects first.
LEMMA InvSet ==
    ASSUME IInv, TypeOK', Set
    PROVE  IInv'
<1>1. /\ todo # <<>> /\ todo[1].do = "set" /\ todo \in Seq(Steps)
      /\ About = todo[1].about /\ Given = todo[1].value /\ todo[1] \in Steps
      /\ Len(todo) \in Nat /\ 1 \in 1 .. Len(todo)
      /\ UNCHANGED <<alive, unread, session, cached, fault, refusals>>
  BY Current DEF Set, IInv, TypeOK, link, trouble
<1>2. CASE About = "auto_commit" /\ cached.auto_commit = Given /\ Continue(<<>>)
  <2>1. Stacked(<<>>) /\ Len(<<>>) = 0
    BY <1>1, <1>2, ReturnStacks
  <2>2. Sets(1, "auto_commit") /\ ~Sets(1, "schema")
    BY <1>1, <1>2 DEF Sets
  <2>3. ASSUME alive, refusals = 0, account.auto_commit
        PROVE  cached.auto_commit = session.auto_commit
    <3> SUFFICES ASSUME AutoCommitPending PROVE FALSE
      BY <2>3 DEF IInv, AutoCommitSound
    <3>1. PICK i \in 1 .. Len(todo) :
              /\ todo[i].do = "apply" \/ (todo[i].value = TRUE /\ cached.auto_commit = FALSE)
              /\ \A j \in 1 .. i - 1 : ~Sets(j, "auto_commit")
      BY DEF AutoCommitPending
    <3>2. i = 1
      BY <1>1, <2>2, <3>1
    <3> QED
      BY <1>1, <1>2, <3>1, <3>2
  <2>4. AutoCommitSound'
    BY <1>1, <1>2, <2>3 DEF AutoCommitSound, Continue
  <2>5. SchemaSound'
    <3>1. ASSUME SchemaPending PROVE SchemaPending'
      BY <1>1, <2>1, <2>2, <3>1, PendingKeeps DEF SchemaPending, IInv
    <3> QED
      BY <1>1, <1>2, <3>1 DEF IInv, SchemaSound, Continue
  <2>6. StackShape'
    BY <1>1, <1>2, <2>1, StackKeeps DEF Continue
  <2>7. RequestsOnLink'
    <3> SUFFICES ASSUME ~alive, ~fault, NEW i \in 1 .. Len(todo'), todo'[i].do \in Requests
                 PROVE  \E j \in 1 .. i - 1 : todo'[j].do \in {"connect", "open"}
      BY <1>1 DEF RequestsOnLink
    <3>1. i + 1 \in 2 .. Len(todo) /\ todo'[i] = todo[i + 1]
      BY <2>1 DEF Stacked
    <3>2. PICK j \in 1 .. i : todo[j].do \in {"connect", "open"}
      BY <3>1 DEF IInv, RequestsOnLink
    <3>3. j # 1 /\ j \in 2 .. Len(todo) /\ j - 1 \in 1 .. i - 1
      BY <1>1, <3>1, <3>2
    <3>4. todo'[j - 1] = todo[j]
      BY <2>1, <3>3 DEF Stacked
    <3> QED
      BY <3>2, <3>3, <3>4
  <2> QED
    BY <1>1, <1>2, <2>4, <2>5, <2>6, <2>7 DEF IInv, Running, Continue
<1>3. CASE /\ ~(About = "auto_commit" /\ cached.auto_commit = Given)
           /\ Continue(<<Plain("connect"), Step("apply", About, Given)>>)
  <2> DEFINE steps == <<Plain("connect"), Step("apply", About, Given)>>
  <2>0. Plain("connect") \in Steps /\ Step("apply", About, Given) \in Steps
    BY <1>1 DEF Plain, Step, Steps
  <2>1. /\ Stacked(steps) /\ Len(steps) = 2
        /\ steps[1] = Plain("connect") /\ steps[2] = Step("apply", About, Given)
    BY <1>1, <1>3, <2>0, TwoStack
  <2> HIDE DEF steps
  <2>2. /\ steps[1].do = "connect" /\ steps[2].do = "apply" /\ steps[2].about = todo[1].about
        /\ todo'[1] = steps[1] /\ todo'[2] = steps[2] /\ {1, 2} \subseteq 1 .. Len(todo')
    BY <1>1, <2>1 DEF Plain, Step, Stacked
  <2>3. ~Sets(1, "auto_commit")' /\ ~Sets(1, "schema")'
    BY <2>2 DEF Sets
  <2>4. ASSUME NEW setting, Sets(1, setting) PROVE Sets(2, setting)' /\ todo'[2].do = "apply"
    BY <1>1, <2>2, <2>4 DEF Sets
  <2>5. ASSUME NEW setting, ~Sets(1, setting), NEW i \in 1 .. Len(steps)
        PROVE  ~(steps[i].do \in {"set", "apply"} /\ steps[i].about = setting)
    BY <1>1, <2>1, <2>2, <2>5 DEF Sets
  <2>6. AutoCommitSound'
    <3>1. ASSUME AutoCommitPending PROVE AutoCommitPending'
      <4>1. CASE Sets(1, "auto_commit")
        BY <1>1, <2>2, <2>3, <2>4, <3>1, <4>1 DEF AutoCommitPending
      <4>2. CASE ~Sets(1, "auto_commit")
        BY <1>1, <2>1, <2>5, <3>1, <4>2, PendingKeeps DEF AutoCommitPending, IInv
      <4> QED
        BY <4>1, <4>2
    <3> QED
      BY <1>1, <1>3, <3>1 DEF IInv, AutoCommitSound, Continue
  <2>7. SchemaSound'
    <3>1. ASSUME SchemaPending PROVE SchemaPending'
      <4>1. CASE Sets(1, "schema")
        BY <1>1, <2>2, <2>4, <3>1, <4>1 DEF SchemaPending
      <4>2. CASE ~Sets(1, "schema")
        BY <1>1, <2>1, <2>5, <3>1, <4>2, PendingKeeps DEF SchemaPending, IInv
      <4> QED
        BY <4>1, <4>2
    <3> QED
      BY <1>1, <1>3, <3>1 DEF IInv, SchemaSound, Continue
  <2>8. StackShape'
    <3>1. ASSUME NEW i \in 1 .. Len(steps)
          PROVE  steps[i].do \notin {"open", "command", "set_option"}
      BY <2>1, <2>2
    <3> QED
      BY <1>1, <1>3, <2>1, <3>1, StackKeeps DEF Continue
  <2>9. RequestsOnLink'
    <3>1. ASSUME NEW i \in 1 .. Len(todo'), todo'[i].do \in Requests
          PROVE  1 \in 1 .. i - 1 /\ todo'[1].do \in {"connect", "open"}
      BY <2>2, <3>1 DEF Requests
    <3> QED
      BY <3>1 DEF RequestsOnLink
  <2> QED
    BY <1>1, <1>3, <2>6, <2>7, <2>8, <2>9 DEF IInv, Running, Continue
<1> QED
  BY <1>2, <1>3 DEF Set

LEMMA InvApply ==
    ASSUME IInv, TypeOK', Apply
    PROVE  IInv'
<1>1. /\ todo # <<>> /\ todo[1].do = "apply" /\ todo \in Seq(Steps) /\ todo[1] \in Steps
      /\ About = todo[1].about /\ Given = todo[1].value
      /\ Len(todo) \in Nat /\ 1 \in 1 .. Len(todo)
      /\ session \in Settings /\ cached \in Settings
  BY Current DEF Apply, IInv, TypeOK
<1>2. CASE RequestFails
  BY <1>2, InvRequestFails
<1>3. CASE /\ alive /\ Continue(<<>>)
           /\ session' = [session EXCEPT ![About] = Given]
           /\ cached' = [cached EXCEPT ![About] = Given]
           /\ UNCHANGED <<mysql, alive, unread, trouble>>
  <2>1. Stacked(<<>>) /\ Len(<<>>) = 0
    BY <1>1, <1>3, ReturnStacks
  <2>2. /\ UNCHANGED <<account, alive, unread, fault, refusals>>
        /\ outcome' = IF todo' = <<>> THEN "returned" ELSE outcome
    BY <1>3 DEF Continue, trouble
  <2>3. /\ About = "auto_commit" => cached'.auto_commit = session'.auto_commit
        /\ About # "auto_commit" => cached'.auto_commit = cached.auto_commit
                                    /\ session'.auto_commit = session.auto_commit
        /\ About = "schema" => cached'.schema = Given /\ session'.schema = Given
        /\ About # "schema" => cached'.schema = cached.schema
                                    /\ session'.schema = session.schema
    BY <1>1, <1>3 DEF Settings, Steps
  <2>4. About = "schema" => Given # Unset
    BY <1>1, ConnectionAssumption DEF Steps
  <2>5. ASSUME AutoCommitPending, About # "auto_commit" PROVE AutoCommitPending'
    <3>1. ~Sets(1, "auto_commit") /\ cached'.auto_commit = cached.auto_commit /\ TypeOK
      BY <1>1, <2>3, <2>5 DEF Sets, IInv
    <3>2. PICK i \in 1 .. Len(todo) :
              /\ Sets(i, "auto_commit")
              /\ todo[i].do = "apply" \/ (todo[i].value = TRUE /\ cached.auto_commit = FALSE)
              /\ \A j \in 1 .. i - 1 : ~Sets(j, "auto_commit")
      BY <2>5 DEF AutoCommitPending
    <3>3. \E k \in 1 .. Len(todo') :
              /\ todo'[k] = todo[i]
              /\ Sets(k, "auto_commit")'
              /\ (\A j \in 1 .. i - 1 : ~Sets(j, "auto_commit")) =>
                    \A j \in 1 .. k - 1 : ~Sets(j, "auto_commit")'
      BY <1>1, <2>1, <3>1, <3>2, PendingKeeps
    <3> QED
      BY <2>2, <2>5, <3>1, <3>2, <3>3 DEF AutoCommitPending
  <2>6. ASSUME SchemaPending, About # "schema" PROVE SchemaPending'
    <3>1. ~Sets(1, "schema") /\ TypeOK
      BY <1>1, <2>6 DEF Sets, IInv
    <3>2. PICK i \in 1 .. Len(todo) : Sets(i, "schema")
      BY <2>6 DEF SchemaPending
    <3>3. \E k \in 1 .. Len(todo') : Sets(k, "schema")'
      BY <1>1, <2>1, <3>1, <3>2, PendingKeeps
    <3> QED
      BY <2>2, <2>6, <3>3 DEF SchemaPending
  <2>7. AutoCommitSound' /\ SchemaSound'
    BY <2>2, <2>3, <2>4, <2>5, <2>6 DEF IInv, AutoCommitSound, SchemaSound
  <2>8. StackShape'
    BY <1>1, <2>1, <2>2, StackKeeps
  <2>9. RequestsOnLink'
    BY <1>3, <2>2 DEF RequestsOnLink
  <2>10. Running'
    BY <1>1, <2>2 DEF IInv, Running
  <2> QED
    BY <2>7, <2>8, <2>9, <2>10 DEF IInv
<1> QED
  BY <1>2, <1>3 DEF Apply

LEMMA InvSetOption ==
    ASSUME IInv, TypeOK', SetOption
    PROVE  IInv'
BY InvRequestFails, InvThrow DEF SetOption, Throw

\* A command is the last step of its operation, so nothing is owed.
LEMMA InvCommand ==
    ASSUME IInv, TypeOK', Command
    PROVE  IInv'
<1>1. /\ todo # <<>> /\ todo[1].do = "command" /\ todo \in Seq(Steps)
      /\ Len(todo) = 1
  <2>1. todo # <<>> /\ todo[1].do = "command" /\ todo \in Seq(Steps) /\ 1 \in 1 .. Len(todo)
    BY Current DEF Command, IInv, TypeOK
  <2> QED
    BY <2>1 DEF IInv, StackShape
<1>2. CASE RequestFails
  BY <1>2, InvRequestFails
<1>3. CASE alive /\ Continue(<<>>) /\ UNCHANGED <<mysql, alive, session, trouble>>
  <2>1. Len(todo') = 0
    BY <1>1, <1>3, ReturnStacks DEF Stacked
  <2>2. ~AutoCommitPending /\ ~SchemaPending
    BY <1>1 DEF AutoCommitPending, SchemaPending, Sets
  <2>3. AutoCommitSound' /\ SchemaSound'
    BY <1>3, <2>2 DEF IInv, AutoCommitSound, SchemaSound, Command, Continue, trouble
  <2> QED
    BY <1>3, <2>1, <2>3 DEF IInv, StackShape, RequestsOnLink, Running, Continue
<1> QED
  BY <1>2, <1>3 DEF Command

\* A new operation: it owes nothing yet, and connects before its requests.
LEMMA InvOperation ==
    ASSUME IInv, TypeOK', Operation
    PROVE  IInv'
<1>1. PICK name \in Names, steps \in Seq(Steps) : Fresh(steps) /\ Call(name, steps)
  BY OperationCalls
<1>2. /\ todo = <<>> /\ Len(todo) = 0 /\ todo' = steps /\ outcome' = "none"
      /\ UNCHANGED <<account, alive, unread, session, cached, refusals>>
  BY <1>1 DEF Call, link
<1>3. StackShape'
  BY <1>1, <1>2 DEF StackShape, Fresh
<1>4. RequestsOnLink'
  <2> SUFFICES ASSUME NEW i \in 1 .. Len(todo'), todo'[i].do \in Requests
               PROVE  \E j \in 1 .. i - 1 : todo'[j].do \in {"connect", "open"}
    BY DEF RequestsOnLink
  <2>1. todo'[i].do = "command"
    BY <1>1, <1>2 DEF Fresh, Requests
  <2>2. i - 1 \in 1 .. i - 1 /\ todo'[i - 1].do = "connect"
    BY <1>1, <1>2, <2>1 DEF Fresh
  <2> QED
    BY <2>2
<1>5. ~AutoCommitPending /\ ~SchemaPending
  BY <1>2 DEF AutoCommitPending, SchemaPending
<1>6. AutoCommitSound' /\ SchemaSound'
  BY <1>2, <1>5 DEF IInv, AutoCommitSound, SchemaSound
<1> QED
  BY <1>2, <1>3, <1>4, <1>6 DEF IInv, Running

\* The server drops the link: what an operation in progress still owes does not
\* matter on a dead link, and its requests have the fault to blame.
LEMMA InvLose ==
    ASSUME IInv, TypeOK', Lose
    PROVE  IInv'
<1>1. /\ alive' = FALSE
      /\ UNCHANGED <<account, unread, todo, outcome>>
      /\ todo = <<>> \/ fault' = TRUE
  BY DEF Lose, IInv, TypeOK
<1>2. RequestsOnLink'
  <2>1. CASE todo = <<>>
    BY <1>1, <2>1 DEF RequestsOnLink
  <2> QED
    BY <1>1, <2>1 DEF RequestsOnLink
<1> QED
  BY <1>1, <1>2 DEF IInv, StackShape, Running, AutoCommitSound, SchemaSound

LEMMA InvFreeResult ==
    ASSUME IInv, TypeOK', FreeResult
    PROVE  IInv'
<1>1. /\ Len(todo) = 0
      /\ UNCHANGED <<account, alive, session, cached, todo, outcome, refusals>>
  BY DEF FreeResult, trouble
<1>2. ~AutoCommitPending /\ ~SchemaPending
  BY <1>1 DEF AutoCommitPending, SchemaPending
<1>3. AutoCommitSound' /\ SchemaSound'
  BY <1>1, <1>2 DEF IInv, AutoCommitSound, SchemaSound
<1> QED
  BY <1>1, <1>3 DEF IInv, StackShape, RequestsOnLink, Running

LEMMA InvNext == IInv /\ [Next]_vars => IInv'
<1> SUFFICES ASSUME IInv, [Next]_vars PROVE IInv'
  OBVIOUS
<1>1. TypeOK'
  BY TypeNext DEF IInv
<1>2. CASE CallStep
  BY <1>1, <1>2, InvConnect, InvOpen, InvOpenFails, InvSet, InvApply, InvSetOption,
     InvCommand DEF CallStep
<1>3. CASE Operation
  BY <1>1, <1>3, InvOperation
<1>4. CASE Disconnect
  BY <1>1, <1>4, InvThrow DEF Disconnect
<1>5. CASE FreeResult
  BY <1>1, <1>5, InvFreeResult
<1>6. CASE Lose
  BY <1>1, <1>6, InvLose
<1>7. CASE UNCHANGED vars
  BY <1>1, <1>7 DEF vars, link, IInv, StackShape, RequestsOnLink, Running, AutoCommitSound,
     AutoCommitPending, SchemaSound, SchemaPending, Sets
<1> QED
  BY <1>2, <1>3, <1>4, <1>5, <1>6, <1>7 DEF Next

LEMMA Invariance == Spec => []IInv
BY InvInit, InvNext, PTL DEF Spec

-----------------------------------------------------------------------------
(* What a user of a connection may rely on.                                 *)

LEMMA NothingOwed ==
    ASSUME todo = <<>>
    PROVE  ~AutoCommitPending /\ ~SchemaPending
BY DEF AutoCommitPending, SchemaPending

\* Between operations m_auto_commit is what the session does, as long as the
\* server refused nothing: a new session starts with auto commit on, and connect()
\* sets it again before anything else uses the link.
THEOREM AutoCommitIsHonest == Spec => []AutoCommitHonest
<1>1. IInv => AutoCommitHonest
  BY NothingOwed DEF IInv, AutoCommitSound, AutoCommitHonest, Settled
<1> QED
  BY <1>1, Invariance, PTL

\* Likewise m_schema is the database of the session, for an account with a schema.
THEOREM SchemaIsHonest == Spec => []SchemaHonest
<1>1. IInv => SchemaHonest
  BY NothingOwed DEF IInv, SchemaSound, SchemaHonest, Settled
<1> QED
  BY <1>1, Invariance, PTL

\* Losses between operations are hidden: what an operation throws for is a fault of
\* the server during it, results left unread, or the options of the account.
THEOREM ThrowsFromFault == Spec => ThrowsOnlyOnFault
<1>1. ASSUME IInv, IInv', [Next]_vars, todo # <<>>, outcome' = "thrown"
      PROVE  fault' \/ unread # "none" \/ account.options
  <2>1. outcome = "none" /\ todo \in Seq(Steps)
    BY <1>1 DEF IInv, Running, TypeOK
  <2>2. ASSUME NEW d \in Requests, At(d), RequestFails PROVE fault'
    <3>1. CASE ~alive /\ UNCHANGED trouble
      <4>1. 1 \in 1 .. Len(todo) /\ todo[1].do \in Requests
        BY <2>1, <2>2, Current
      <4>2. ~\E j \in 1 .. 1 - 1 : todo[j].do \in {"connect", "open"}
        OBVIOUS
      <4>3. fault
        BY <1>1, <3>1, <4>1, <4>2 DEF IInv, RequestsOnLink
      <4> QED
        BY <3>1, <4>3 DEF trouble
    <3> QED
      BY <2>2, <3>1 DEF RequestFails, Refuse
  <2>3. CASE Connect
    BY <2>1, <2>3, <1>1 DEF Connect, Continue
  <2>4. CASE OpenFails
    BY <2>4 DEF OpenFails, Refuse
  <2>5. CASE Apply
    BY <1>1, <2>1, <2>2, <2>5 DEF Apply, Continue, Requests
  <2>6. CASE SetOption
    <3>1. CASE RequestFails
      BY <2>2, <2>6, <3>1 DEF SetOption, Requests
    <3>2. 1 \in 1 .. Len(todo) /\ todo[1].do = "set_option"
      BY <2>1, <2>6, Current DEF SetOption
    <3> QED
      BY <1>1, <3>2 DEF IInv, StackShape
  <2>7. CASE Command
    BY <1>1, <2>1, <2>2, <2>7 DEF Command, Continue, Requests
  <2>8. CASE Open \/ Set
    BY <1>1, <2>1, <2>8 DEF Open, Set, Continue
  <2>9. CASE Operation
    <3>1. PICK name \in Names, steps \in Seq(Steps) : Call(name, steps)
      BY <2>9, OperationCalls
    <3> QED
      BY <1>1, <3>1 DEF Call
  <2>10. CASE Disconnect \/ FreeResult \/ Lose \/ UNCHANGED vars
    BY <1>1, <2>1, <2>10 DEF Disconnect, FreeResult, Lose, vars
  <2> QED
    BY <1>1, <2>3, <2>4, <2>5, <2>6, <2>7, <2>8, <2>9, <2>10 DEF Next, CallStep
<1>2. IInv /\ IInv' /\ [Next]_vars =>
        [todo # <<>> /\ outcome' = "thrown" => fault' \/ unread # "none" \/ account.options]_vars
  BY <1>1
<1> QED
  BY <1>2, Invariance, PTL DEF Spec, ThrowsOnlyOnFault
=============================================================================
