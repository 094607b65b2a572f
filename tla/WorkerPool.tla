----------------------------- MODULE WorkerPool -----------------------------
(***************************************************************************)
(* The pool of worker threads of src/worker-pool.ts, together with the     *)
(* thread it runs (src/worker-thread.ts, src/worker-task.ts): one          *)
(* WorkerPool object from the end of its constructor on.                   *)
(*                                                                         *)
(* The main thread is an event loop: each of its actions below is one      *)
(* callback, run to completion.  The worker threads interleave with it and *)
(* with each other, and talk to it through two kinds of mailbox: `inbox`   *)
(* holds the tasks posted to a worker, `outbox` the events of a worker     *)
(* ("message" or "error") whose handler the main thread has still to run.  *)
(***************************************************************************)
EXTENDS Naturals, Sequences, FiniteSets

CONSTANTS
    Tasks,        \* the tasks the clients may submit, each once
    Workers,      \* the identities Worker objects can have, replacements included
    Initial,      \* the workers the constructor makes, in order
    None,         \* no task: kTaskInfo is null or unset
    MayNotStart,  \* the workers whose script may fail to load
    HostCatches   \* whether the host survives an uncaught exception

ASSUME PoolAssumption ==
    /\ Initial \in Seq(Workers)
    /\ Len(Initial) >= 2            \* startPool gives up on less (line 113)
    /\ \A i, j \in 1 .. Len(Initial) : Initial[i] = Initial[j] => i = j
    /\ None \notin Tasks
    /\ MayNotStart \subseteq Workers
    /\ HostCatches \in BOOLEAN

VARIABLES
    main,         \* the process: "running", or "crashed" by an uncaught exception
    closed,       \* close() ran; `pool` no longer refers to this object
    workers,      \* this.workers
    freeWorkers,  \* this.freeWorkers, a stack: its top is its last element
    tasks,        \* this.tasks, a queue
    taskInfo,     \* worker[kTaskInfo]: the task whose callback it holds
    thread,       \* the life of the worker's thread
    inbox,        \* tasks posted to the worker, which it has not taken yet
    running,      \* tasks the thread has taken and not answered
    outbox,       \* events of the worker the main thread has not handled
    promise       \* the promise runTaskInPool returned for a task

mainVars == <<main, closed, workers, freeWorkers, tasks, taskInfo, promise>>
vars == <<main, closed, workers, freeWorkers, tasks, taskInfo,
          thread, inbox, running, outbox, promise>>

Maybe == Tasks \cup {None}

\* An event a worker raises in the main thread: a result, or an error.  `task`
\* is the task that caused it; an error of the thread itself has none.
Event == [type : {"message", "error"}, task : Maybe]

\* A promise, with the task whose outcome settled it.
Promise == [state : {"none", "pending", "resolved", "rejected"}, by : Maybe]

TypeOK ==
    /\ main \in {"running", "crashed"}
    /\ closed \in BOOLEAN
    /\ workers \in SUBSET Workers
    /\ freeWorkers \in Seq(Workers)
    /\ tasks \in Seq(Tasks)
    /\ taskInfo \in [Workers -> Maybe]
    /\ thread \in [Workers -> {"unborn", "starting", "online", "dead"}]
    /\ inbox \in [Workers -> SUBSET Tasks]
    /\ running \in [Workers -> SUBSET Tasks]
    /\ outbox \in [Workers -> SUBSET Event]
    /\ promise \in [Tasks -> Promise]

\* The state the constructor leaves.
Init ==
    /\ main = "running"
    /\ closed = FALSE
    /\ workers = {Initial[i] : i \in 1 .. Len(Initial)}
    /\ freeWorkers = Initial
    /\ tasks = <<>>
    /\ taskInfo = [w \in Workers |-> None]
    /\ thread = [w \in Workers |-> IF \E i \in 1 .. Len(Initial) : w = Initial[i]
                                   THEN "starting" ELSE "unborn"]
    /\ inbox = [w \in Workers |-> {}]
    /\ running = [w \in Workers |-> {}]
    /\ outbox = [w \in Workers |-> {}]
    /\ promise = [t \in Tasks |-> [state |-> "none", by |-> None]]

-----------------------------------------------------------------------------
(* The main thread.                                                        *)

\* this.freeWorkers.pop(), and a mutant that only looks at the top.
PopNothing == UNCHANGED freeWorkers
PopFree == freeWorkers' = SubSeq(freeWorkers, 1, Len(freeWorkers) - 1)

\* runTask, once a free worker is there: it gets the task's callback and the
\* task itself.  `info` is kTaskInfo as the caller leaves it.
PostTo(w, t, info) ==
    /\ taskInfo' = [info EXCEPT ![w] = t]
    /\ inbox' = [inbox EXCEPT ![w] = @ \cup {t}]

\* runTask called by a client, through runTaskInPool: only while `pool` refers
\* to this object.
Submit(t) ==
    /\ main = "running" /\ ~closed
    /\ promise[t].state = "none"
    /\ promise' = [promise EXCEPT ![t].state = "pending"]
    /\ \/ /\ freeWorkers = <<>>
          /\ tasks' = Append(tasks, t)
          /\ UNCHANGED <<freeWorkers, taskInfo, inbox>>
       \/ /\ freeWorkers # <<>>
          /\ PostTo(freeWorkers[Len(freeWorkers)], t, taskInfo)
          /\ PopFree
          /\ UNCHANGED tasks
    /\ UNCHANGED <<main, closed, workers, thread, running, outbox>>

\* this.tasks.shift(): the task it returns and the queue it leaves.  Mutants
\* that return the youngest, and that leave the queue as it is.
Newest == tasks[Len(tasks)]
Oldest == Head(tasks)
ShiftNothing == UNCHANGED tasks
ShiftTasks == tasks' = Tail(tasks)

\* Mutant of Freed: kWorkerFreedEvent is not emitted.
FreedSilently(w, info) ==
    /\ freeWorkers' = Append(freeWorkers, w)
    /\ taskInfo' = info
    /\ UNCHANGED <<tasks, inbox>>

\* freeWorkers.push(w) and the kWorkerFreedEvent listener, which hands the
\* oldest queued task to runTask, which pops w again.
Freed(w, info) ==
    \/ /\ tasks = <<>>
       /\ freeWorkers' = Append(freeWorkers, w)
       /\ taskInfo' = info
       /\ UNCHANGED <<tasks, inbox>>
    \/ /\ tasks # <<>>
       /\ PostTo(w, Oldest, info)
       /\ ShiftTasks
       /\ UNCHANGED freeWorkers

\* WorkerPoolTaskInfo.done: the callback settles the promise it was made for.
Done(w, outcome, by) ==
    promise' = [promise EXCEPT ![taskInfo[w]] = [state |-> outcome, by |-> by]]

\* worker[kTaskInfo] = null.
Forget(w) == [taskInfo EXCEPT ![w] = None]

\* The "message" listener: done, forget the task, free the worker.
HandleMessage(w, e) ==
    /\ main = "running"
    /\ e \in outbox[w] /\ e.type = "message"
    /\ taskInfo[w] # None
    /\ Done(w, "resolved", e.task)
    /\ Freed(w, Forget(w))
    /\ outbox' = [outbox EXCEPT ![w] = @ \ {e}]
    /\ UNCHANGED <<main, closed, workers, thread, running>>

\* this.workers without the dead worker and with the new one; a mutant
\* without the splice.
KeepDead(n, w) == workers \cup {n}
Replace(n, w) == (workers \ {w}) \cup {n}

\* The "error" listener of a worker that holds a task: reject it, remove the
\* worker from the list, start a new Worker, which is free at once.
HandleError(w, e, n) ==
    /\ main = "running"
    /\ e \in outbox[w] /\ e.type = "error"
    /\ taskInfo[w] # None
    /\ Done(w, "rejected", e.task)
    /\ thread[n] = "unborn"
    /\ thread' = [thread EXCEPT ![n] = "starting"]
    /\ workers' = Replace(n, w)
    /\ Freed(n, taskInfo)
    /\ outbox' = [outbox EXCEPT ![w] = @ \ {e}]
    /\ UNCHANGED <<main, closed, running>>

\* The "error" listener of an idle worker: this.emit("error") has no listener
\* and throws, so that lines 79 and 80 are never reached.
HandleIdleError(w, e) ==
    /\ main = "running"
    /\ e \in outbox[w] /\ e.type = "error"
    /\ taskInfo[w] = None
    /\ main' = IF HostCatches THEN "running" ELSE "crashed"
    /\ outbox' = [outbox EXCEPT ![w] = @ \ {e}]
    /\ UNCHANGED <<closed, workers, freeWorkers, tasks, taskInfo, thread,
                   inbox, running, promise>>

\* stopPool: close() terminates every worker of the list, `pool` becomes null.
\* Events the workers raised before are still delivered.
Close ==
    /\ main = "running" /\ ~closed
    /\ closed' = TRUE
    /\ thread' = [w \in Workers |-> IF w \in workers THEN "dead" ELSE thread[w]]
    /\ inbox' = [w \in Workers |-> IF w \in workers THEN {} ELSE inbox[w]]
    /\ running' = [w \in Workers |-> IF w \in workers THEN {} ELSE running[w]]
    /\ UNCHANGED <<main, workers, freeWorkers, tasks, taskInfo, outbox, promise>>

-----------------------------------------------------------------------------
(* The worker threads.                                                     *)

Raise(w, type, t) ==
    outbox' = [outbox EXCEPT ![w] = @ \cup {[type |-> type, task |-> t]}]

ThreadStart(w) ==
    /\ main = "running"
    /\ thread[w] = "starting"
    /\ thread' = [thread EXCEPT ![w] = "online"]
    /\ UNCHANGED <<mainVars, inbox, running, outbox>>

\* The script cannot be loaded: an "error" event that no task caused.
ThreadStartFails(w) ==
    /\ main = "running"
    /\ thread[w] = "starting" /\ w \in MayNotStart
    /\ thread' = [thread EXCEPT ![w] = "dead"]
    /\ Raise(w, "error", None)
    /\ UNCHANGED <<mainVars, inbox, running>>

\* parentPort's "message" listener runs performTask.
Take(w, t) ==
    /\ main = "running"
    /\ thread[w] = "online" /\ t \in inbox[w]
    /\ inbox' = [inbox EXCEPT ![w] = @ \ {t}]
    /\ running' = [running EXCEPT ![w] = @ \cup {t}]
    /\ UNCHANGED <<mainVars, thread, outbox>>

\* performTask resolved: the result is posted back.
Answer(w, t) ==
    /\ main = "running"
    /\ thread[w] = "online" /\ t \in running[w]
    /\ running' = [running EXCEPT ![w] = @ \ {t}]
    /\ Raise(w, "message", t)
    /\ UNCHANGED <<mainVars, thread, inbox>>

\* performTask rejected: nobody catches it in the thread, which dies of it.
Fail(w, t) ==
    /\ main = "running"
    /\ thread[w] = "online" /\ t \in running[w]
    /\ running' = [running EXCEPT ![w] = {}]
    /\ thread' = [thread EXCEPT ![w] = "dead"]
    /\ Raise(w, "error", t)
    /\ UNCHANGED <<mainVars, inbox>>

-----------------------------------------------------------------------------
Handle(w) ==
    \E e \in outbox[w] :
        \/ HandleMessage(w, e)
        \/ \E n \in Workers : HandleError(w, e, n)
        \/ HandleIdleError(w, e)

Work(w) ==
    \/ ThreadStart(w)
    \/ ThreadStartFails(w)
    \/ \E t \in Tasks : Take(w, t) \/ Answer(w, t) \/ Fail(w, t)

Next ==
    \/ \E t \in Tasks : Submit(t)
    \/ Close
    \/ \E w \in Workers : Handle(w) \/ Work(w)

\* Threads are scheduled and the event loop runs; clients need not submit,
\* and need not close the pool.
Spec == Init /\ [][Next]_vars
FairSpec == Spec /\ \A w \in Workers : WF_vars(Work(w)) /\ WF_vars(Handle(w))

-----------------------------------------------------------------------------
(* Properties.                                                             *)

Settled(t) == promise[t].state \in {"resolved", "rejected"}

\* Where a task is: its places in the queue, and the workers whose kTaskInfo
\* holds its callback.
Places(t) == {i \in 1 .. Len(tasks) : tasks[i] = t}
Holders(t) == {w \in Workers : taskInfo[w] = t}

\* No task waits in `tasks` while a worker is free.  The pool has no other
\* dispatcher than runTask and the kWorkerFreedEvent listener (lines 43-51): a
\* free worker left behind a queue would stay idle for as long as nobody
\* submits.
WorkConserving == tasks # <<>> => freeWorkers = <<>>

\* A pending task is in exactly one place, one place in the queue or one
\* worker, so that its callback is called exactly once and no reorder of the
\* assignments of the listeners (lines 62-65, 75-84) can lose it.
TaskInOnePlace ==
    \A t \in Tasks :
        promise[t].state = "pending" =>
            \/ \E i \in Places(t) : Places(t) = {i} /\ Holders(t) = {}
            \/ \E w \in Holders(t) : Holders(t) = {w} /\ Places(t) = {}

\* A promise is settled by its own task's outcome, or rejected because the
\* thread the task was posted to never came up.  The listeners do not know
\* which task an event is about: they trust worker[kTaskInfo] (lines 62, 75).
OwnOutcome ==
    \A t \in Tasks :
        /\ promise[t].state = "resolved" => promise[t].by = t
        /\ promise[t].state = "rejected" => promise[t].by \in {t, None}

\* A worker that the pool still lists and that died while the pool was open
\* has its "error" still to be handled: handling it removes and replaces the
\* worker ("Remove the worker from the list and start a new Worker to replace
\* the current one", lines 77-78).
DeadIsReplaced ==
    (main = "running" /\ ~closed) =>
        \A w \in workers : thread[w] = "dead" => outbox[w] # {}

\* A promise that is settled stays as it is (WorkerPoolTaskInfo.done, lines
\* 23-26: "used only once").
SettleOnce == [][\A t \in Tasks : Settled(t) => promise'[t] = promise[t]]_vars

\* Every task that was submitted is settled, whatever tasks fail, unless the
\* pool is closed under it or the process dies.
Settles ==
    \A t \in Tasks :
        promise[t].state = "pending" ~> (Settled(t) \/ closed \/ main = "crashed")

\* The pool is a TaskService with as many slots as the constructor made
\* workers: first come first served, bounded, work conserving.
Service == INSTANCE TaskService WITH
    Slots <- Len(Initial),
    queue <- tasks,
    active <- {t \in Tasks : promise[t].state = "pending" /\ Holders(t) # {}},
    outcome <- [t \in Tasks |-> promise[t].state]

ImplementsService == Service!Spec
-----------------------------------------------------------------------------
(* The inductive invariant behind TaskInOnePlace and OwnOutcome: what the  *)
(* listeners rely on without checking it.                                  *)

\* A worker on the stack of free ones is there once, holds no task and has
\* nothing to say but that it is dead.
FreeAreIdle ==
    /\ \A i, j \in 1 .. Len(freeWorkers) : freeWorkers[i] = freeWorkers[j] => i = j
    /\ \A i \in 1 .. Len(freeWorkers) :
        /\ taskInfo[freeWorkers[i]] = None
        /\ thread[freeWorkers[i]] # "unborn"

\* A worker that does not exist yet is untouched.
UnbornAreBlank ==
    \A w \in Workers :
        thread[w] = "unborn" => /\ taskInfo[w] = None
                                /\ inbox[w] = {} /\ running[w] = {} /\ outbox[w] = {}

\* A queued task waits once, is pending, and no worker has it.
QueuedOnce ==
    /\ \A i, j \in 1 .. Len(tasks) : tasks[i] = tasks[j] => i = j
    /\ \A i \in 1 .. Len(tasks) : promise[tasks[i]].state = "pending"
    /\ \A i \in 1 .. Len(tasks), w \in Workers : taskInfo[w] # tasks[i]

\* A task is held by one worker at most, not before it was submitted, and a
\* pending task is queued or held.
HeldOnce ==
    /\ \A v, w \in Workers : taskInfo[v] = taskInfo[w] /\ taskInfo[v] # None => v = w
    /\ \A w \in Workers : taskInfo[w] # None => promise[taskInfo[w]].state # "none"
    /\ \A t \in Tasks : promise[t].state = "pending" =>
            \/ \E i \in 1 .. Len(tasks) : tasks[i] = t
            \/ \E w \in Workers : taskInfo[w] = t

\* What a thread has to do, does, or has said concerns the task its worker
\* holds, in one of the three at a time.
MailIsCurrent ==
    \A w \in Workers :
        /\ inbox[w] \subseteq {taskInfo[w]} /\ running[w] \subseteq {taskInfo[w]}
        /\ running[w] # {} => inbox[w] = {} /\ outbox[w] = {} /\ thread[w] = "online"
        /\ thread[w] = "starting" => outbox[w] = {}
        /\ thread[w] = "online" /\ inbox[w] # {} => outbox[w] = {}
        /\ \A e \in outbox[w] :
            /\ outbox[w] = {e}
            /\ e.type = "message" => e.task = taskInfo[w] /\ e.task # None /\ inbox[w] = {}
            /\ e.type = "error" => e.task \in {taskInfo[w], None} /\ thread[w] = "dead"

\* A worker that still may raise an event, or has raised one, holds a promise
\* nobody has settled.
HeldIsPending ==
    \A w \in Workers :
        /\ taskInfo[w] # None
        /\ \/ running[w] # {} \/ outbox[w] # {}
           \/ thread[w] = "starting"
           \/ thread[w] = "online" /\ inbox[w] # {}
        => promise[taskInfo[w]].state = "pending"

IInv ==
    /\ TypeOK
    /\ FreeAreIdle
    /\ UnbornAreBlank
    /\ QueuedOnce
    /\ HeldOnce
    /\ MailIsCurrent
    /\ HeldIsPending
    /\ WorkConserving
    /\ OwnOutcome
=============================================================================
