------------------------------- MODULE Logger -------------------------------
(***************************************************************************)
(* The log (src/logger.ts).  What is logged may be a promise of a message  *)
(* (a formatted piece of source, say); what is logged after it waits, so   *)
(* that messages appear in the order of their calls of log.  A task of the *)
(* worker pool answers when all it has logged is out (performTask,         *)
(* src/worker-task.ts).                                                    *)
(*                                                                         *)
(* Messages are numbered by their calls of log.                            *)
(***************************************************************************)
EXTENDS Naturals, Sequences, FiniteSets, SequencesExt

CONSTANTS
    Tasks,       \* the tasks that log
    MaxMessages  \* bound: how many messages are logged

ASSUME LoggerAssumption == MaxMessages \in Nat

VARIABLES
    logged,       \* what was logged: "plain", or the state of the promise
    chain,        \* logPromise: the messages it waits for, in turn
    fate,         \* "fulfilled" or "rejected": what logPromise is to become
    livePromises, \* livePromises
    output,       \* what theLogger was given
    waits,        \* for each task that returned: the first message it does not
                  \* wait for, and (for the properties) what was logged by then
    result        \* "none", "answered" or "rejected"

vars == <<logged, chain, fate, livePromises, output, waits, result>>

None == <<>>
Busy(t) == waits[t] = None /\ result[t] = "none"

Init ==
    /\ logged = <<>>
    /\ chain = <<>>
    /\ fate = "fulfilled"
    /\ livePromises = 0
    /\ output = <<>>
    /\ waits = [t \in Tasks |-> None]
    /\ result = [t \in Tasks |-> "none"]

\* log: to the chain if it is a promise or behind one, or else straight out.
\* Mutant: only promises go to the chain.
BehindOnlyPromises(message) == message = "promised"
Behind(message) == livePromises > 0 \/ message = "promised"

Log(message) ==
    LET n == Len(logged) + 1
    IN  /\ n <= MaxMessages
        /\ \E t \in Tasks : Busy(t)
        /\ logged' = Append(logged, message)
        /\ IF Behind(message)
           THEN /\ livePromises' = livePromises + 1
                /\ chain' = Append(chain, n)
                /\ UNCHANGED output
           ELSE output' = Append(output, n) /\ UNCHANGED <<livePromises, chain>>
        /\ UNCHANGED <<fate, waits, result>>

\* Whoever made the promise keeps it, or does not.
Resolve(n) ==
    /\ logged[n] = "promised"
    /\ \E s \in {"kept", "broken"} : logged' = [logged EXCEPT ![n] = s]
    /\ UNCHANGED <<chain, fate, livePromises, output, waits, result>>

\* The next message of the chain is out, unless one before it was rejected:
\* then nothing in the chain is any more.
\* Mutant: plain messages are only kept in line.
OutIfPromised ==
    /\ chain # <<>>
    /\ fate = "rejected" \/ logged[Head(chain)] \in {"plain", "kept"}
    /\ chain' = Tail(chain)
    /\ IF fate = "rejected" THEN UNCHANGED <<livePromises, output>>
       ELSE /\ livePromises' = livePromises - 1
            /\ output' = IF logged[Head(chain)] = "kept" THEN Append(output, Head(chain)) ELSE output
    /\ UNCHANGED <<logged, fate, waits, result>>
Out ==
    /\ chain # <<>>
    /\ fate = "rejected" \/ logged[Head(chain)] \in {"plain", "kept"}
    /\ chain' = Tail(chain)
    /\ IF fate = "rejected" THEN UNCHANGED <<livePromises, output>>
       ELSE livePromises' = livePromises - 1 /\ output' = Append(output, Head(chain))
    /\ UNCHANGED <<logged, fate, waits, result>>

Rejected ==
    /\ chain # <<>> /\ fate = "fulfilled"
    /\ logged[Head(chain)] = "broken"
    /\ chain' = Tail(chain)
    /\ fate' = "rejected"
    /\ UNCHANGED <<logged, livePromises, output, waits, result>>

\* performTask: the handler is done, and waits for logPromise as it is now.
\* Mutant: it waits for nothing.
NothingToWaitFor == 1
LastOfChain == IF chain = <<>> THEN 1 ELSE Last(chain) + 1

Return(t) ==
    /\ Busy(t)
    /\ waits' = [waits EXCEPT ![t] = <<LastOfChain, Len(logged)>>]
    /\ UNCHANGED <<logged, chain, fate, livePromises, output, result>>

Answer(t) ==
    /\ waits[t] # None /\ result[t] = "none"
    /\ \A n \in ToSet(chain) : n >= waits[t][1]
    /\ result' = [result EXCEPT ![t] = IF fate = "fulfilled" THEN "answered" ELSE "rejected"]
    /\ UNCHANGED <<logged, chain, fate, livePromises, output, waits>>

Next == \/ \E message \in {"plain", "promised"} : Log(message)
        \/ \E n \in DOMAIN logged : Resolve(n)
        \/ Out \/ Rejected
        \/ \E t \in Tasks : Return(t) \/ Answer(t)

Spec == /\ Init /\ [][Next]_vars
        /\ WF_vars(Out \/ Rejected)
        /\ \A n \in 1 .. MaxMessages : WF_vars(n \in DOMAIN logged /\ Resolve(n))
        /\ \A t \in Tasks : WF_vars(Return(t)) /\ WF_vars(Answer(t))

-----------------------------------------------------------------------------
(* Properties.                                                             *)

\* Messages come out in the order they were logged, whenever the promises of
\* some of them are kept.
InOrder == \A k \in 1 .. Len(output) - 1 : output[k] < output[k + 1]

\* An answer comes after everything the task (or another one) had logged by
\* then is out.
AnswerIsLast ==
    \A t \in Tasks : result[t] = "answered" => \A n \in 1 .. waits[t][2] : n \in ToSet(output)

\* What is logged comes out, in the end, unless a promise of a message was
\* broken: then the chain is rejected for good, and livePromises never gets
\* back to 0.
AllOut == []<>(ToSet(output) = DOMAIN logged \/ "broken" \in ToSet(logged))
=============================================================================
