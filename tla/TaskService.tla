---------------------------- MODULE TaskService -----------------------------
(***************************************************************************)
(* What a pool promises its clients (src/worker-pool.ts), with the workers,*)
(* their threads and their messages left out: tasks start in the order in  *)
(* which they were submitted, at most Slots of them at a time, none waits  *)
(* while a slot is free, and each is settled at most once, after it        *)
(* started.                                                                *)
(***************************************************************************)
EXTENDS Naturals, Sequences, FiniteSets

CONSTANTS
    Tasks,  \* the tasks that may be submitted
    Slots   \* how many run at a time

VARIABLES
    queue,   \* submitted and not started
    active,  \* started and not settled
    outcome  \* the state of each task's promise

svars == <<queue, active, outcome>>

Init ==
    /\ queue = <<>>
    /\ active = {}
    /\ outcome = [t \in Tasks |-> "none"]

\* runTask, called by a client.
Request(t) ==
    /\ outcome[t] = "none"
    /\ outcome' = [outcome EXCEPT ![t] = "pending"]
    /\ \/ /\ Cardinality(active) < Slots
          /\ active' = active \cup {t}
          /\ UNCHANGED queue
       \/ /\ Cardinality(active) >= Slots
          /\ queue' = Append(queue, t)
          /\ UNCHANGED active

\* A result or an error arrives: the task is settled and the slot it leaves
\* goes to the oldest task that waits.
Finish(t, how) ==
    /\ t \in active
    /\ outcome' = [outcome EXCEPT ![t] = how]
    /\ \/ /\ queue = <<>>
          /\ active' = active \ {t}
          /\ UNCHANGED queue
       \/ /\ queue # <<>>
          /\ active' = (active \ {t}) \cup {Head(queue)}
          /\ queue' = Tail(queue)

Next == \E t \in Tasks : Request(t) \/ Finish(t, "resolved") \/ Finish(t, "rejected")

Spec == Init /\ [][Next]_svars
=============================================================================
