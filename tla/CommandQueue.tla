---------------------------- MODULE CommandQueue ----------------------------
(***************************************************************************)
(* What mariadb::concurrency promises to its callers: commands are started *)
(* in the order in which they were accepted, each has one outcome that     *)
(* never changes, and a caller is told that a command succeeded only when  *)
(* it did.  There are no threads, no worker objects and no memory here.    *)
(***************************************************************************)
EXTENDS Naturals

CONSTANTS Clients, MaxHandles

Handles == 1 .. MaxHandles
Outcomes == {"none", "succeed", "failed"}

VARIABLES
    accepted, \* the commands 1 .. accepted have been handed over
    started,  \* the commands 1 .. started have been taken up
    outcome,  \* the outcome of each command
    visible,  \* the commands that can be looked up by their handle
    told      \* the outcome each caller was told

vars == <<accepted, started, outcome, visible, told>>

Init ==
    /\ accepted = 0
    /\ started = 0
    /\ outcome = [h \in Handles |-> "none"]
    /\ visible = {}
    /\ told = [c \in Clients |-> [h \in Handles |-> "none"]]

\* A command is handed over; its handle is kept for lookups or is not.
Accept ==
    /\ accepted < MaxHandles
    /\ accepted' = accepted + 1
    /\ visible' \in {visible, visible \cup {accepted + 1}}
    /\ UNCHANGED <<started, outcome, told>>

\* The next command in order is taken up.
Start ==
    /\ started < accepted
    /\ started' = started + 1
    /\ UNCHANGED <<accepted, outcome, visible, told>>

Conclude(h, o) ==
    /\ h <= started
    /\ outcome[h] = "none"
    /\ outcome' = [outcome EXCEPT ![h] = o]
    /\ UNCHANGED <<accepted, started, visible, told>>

\* "failed" is also what a caller hears of a command it cannot look up.
Tell(c, h, o) ==
    /\ \/ o = outcome[h]
       \/ o = "failed" /\ h \notin visible
    /\ told' = [told EXCEPT ![c][h] = o]
    /\ UNCHANGED <<accepted, started, outcome, visible>>

Forget(h) ==
    /\ visible' = visible \ {h}
    /\ UNCHANGED <<accepted, started, outcome, told>>

Next ==
    \/ Accept
    \/ Start
    \/ \E h \in Handles :
         \/ \E o \in {"succeed", "failed"} :
              \/ Conclude(h, o)
              \/ \E c \in Clients : Tell(c, h, o)
         \/ Forget(h)

Spec == Init /\ [][Next]_vars
=============================================================================
