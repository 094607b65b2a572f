-------------------------- MODULE WorkerPoolProofs --------------------------
(***************************************************************************)
(* Proofs about WorkerPool, for any number of tasks and of workers, started *)
(* with any two or more of them, whichever may fail, under either host;    *)
(* and that it implements TaskService: what clients see of the pool is a   *)
(* queue and a number of slots, whatever workers die and are replaced; and *)
(* that no wake-up is lost, where an uncaught exception ends the process,  *)
(* and that the work runs out unless more is submitted.                    *)
(***************************************************************************)
EXTENDS WorkerPool, SequenceFacts, FiniteSetTheorems, TLAPS

-----------------------------------------------------------------------------
(* Types.                                                                  *)

LEMMA InitTyped == Init => TypeOK
<1> SUFFICES ASSUME Init PROVE TypeOK
    OBVIOUS
<1>1. \A i \in 1 .. Len(Initial) : Initial[i] \in Workers
    BY PoolAssumption, ElementOfSeq
<1>2. workers \in SUBSET Workers
    BY <1>1 DEF Init
<1>3. tasks \in Seq(Tasks)
    BY EmptySeq DEF Init
<1>4. freeWorkers \in Seq(Workers)
    BY PoolAssumption DEF Init
<1>5. promise \in [Tasks -> Promise] /\ taskInfo \in [Workers -> Maybe]
    BY DEF Init, Promise, Maybe
<1>6. thread \in [Workers -> {"unborn", "starting", "online", "dead"}]
    BY DEF Init
<1>7. /\ inbox \in [Workers -> SUBSET Tasks]
      /\ running \in [Workers -> SUBSET Tasks]
      /\ outbox \in [Workers -> SUBSET Event]
    BY DEF Init
<1> QED
    BY <1>2, <1>3, <1>4, <1>5, <1>6, <1>7 DEF Init, TypeOK

\* What the two listeners share.
LEMMA FreedTyped ==
    ASSUME TypeOK, NEW w \in Workers, NEW info \in [Workers -> Maybe], Freed(w, info)
    PROVE  /\ freeWorkers' \in Seq(Workers)
           /\ tasks' \in Seq(Tasks)
           /\ taskInfo' \in [Workers -> Maybe]
           /\ inbox' \in [Workers -> SUBSET Tasks]
<1>1. CASE tasks = <<>>
    BY <1>1, PushFacts DEF TypeOK, Freed
<1>2. CASE tasks # <<>>
  <2>1. Head(tasks) \in Tasks /\ Tail(tasks) \in Seq(Tasks)
      BY <1>2, ShiftFacts DEF TypeOK
  <2>2. /\ tasks' = Tail(tasks) /\ freeWorkers' = freeWorkers
        /\ taskInfo' = [info EXCEPT ![w] = Head(tasks)]
        /\ inbox' = [inbox EXCEPT ![w] = inbox[w] \cup {Head(tasks)}]
      BY <1>2 DEF Freed, PostTo, Oldest, ShiftTasks
  <2> HIDE DEF Freed
  <2>3. taskInfo' \in [Workers -> Maybe]
      BY <2>1, <2>2 DEF Maybe
  <2>4. inbox' \in [Workers -> SUBSET Tasks]
      BY <2>1, <2>2 DEF TypeOK
  <2> QED
      BY <2>1, <2>2, <2>3, <2>4 DEF TypeOK
<1> QED
    BY <1>1, <1>2

LEMMA NextTyped == TypeOK /\ [Next]_vars => TypeOK'
<1> SUFFICES ASSUME TypeOK, [Next]_vars PROVE TypeOK'
    OBVIOUS
<1>1. ASSUME NEW t \in Tasks, Submit(t) PROVE TypeOK'
  <2>1. promise' \in [Tasks -> Promise]
      BY <1>1 DEF Submit, TypeOK, Promise
  <2>2. CASE freeWorkers = <<>>
    <3>1. Append(tasks, t) \in Seq(Tasks)
        BY PushFacts DEF TypeOK
    <3>2. /\ tasks' = Append(tasks, t)
          /\ UNCHANGED <<main, closed, workers, freeWorkers, taskInfo, thread,
                         inbox, running, outbox>>
        BY <1>1, <2>2 DEF Submit
    <3> QED
        BY <2>1, <3>1, <3>2 DEF TypeOK
  <2>3. CASE freeWorkers # <<>>
    <3>1. /\ Len(freeWorkers) \in Nat \ {0}
          /\ freeWorkers[Len(freeWorkers)] \in Workers
          /\ freeWorkers' \in Seq(Workers)
        BY <1>1, <2>3, PopFacts DEF Submit, PopFree, TypeOK
    <3> DEFINE w == freeWorkers[Len(freeWorkers)]
    <3>2. /\ taskInfo' = [taskInfo EXCEPT ![w] = t]
          /\ inbox' = [inbox EXCEPT ![w] = inbox[w] \cup {t}]
        BY <1>1, <2>3 DEF Submit, PostTo, PopFree
    <3>3. w \in Workers
        BY <3>1
    <3> HIDE DEF w
    <3>4. taskInfo' \in [Workers -> Maybe] /\ inbox' \in [Workers -> SUBSET Tasks]
        BY <3>2, <3>3 DEF TypeOK, Maybe
    <3>5. UNCHANGED <<main, closed, workers, tasks, thread, running, outbox>>
        BY <1>1, <2>3 DEF Submit
    <3> QED
        BY <2>1, <3>1, <3>4, <3>5 DEF TypeOK
  <2> QED
      BY <2>2, <2>3
<1>2. ASSUME Close PROVE TypeOK'
    BY <1>2 DEF Close, TypeOK
<1>3. ASSUME NEW w \in Workers, Handle(w) PROVE TypeOK'
  <2> PICK e \in outbox[w] :
        \/ HandleMessage(w, e)
        \/ \E n \in Workers : HandleError(w, e, n)
        \/ HandleIdleError(w, e)
      BY <1>3 DEF Handle
  <2>1. e \in Event
      BY DEF TypeOK
  <2>2. CASE HandleMessage(w, e)
    <3>1. [taskInfo EXCEPT ![w] = None] \in [Workers -> Maybe]
        BY DEF TypeOK, Maybe
    <3>2. promise' \in [Tasks -> Promise]
        BY <2>1, <2>2 DEF HandleMessage, Done, TypeOK, Promise, Event
    <3> QED
        BY <2>2, <3>1, <3>2, FreedTyped DEF HandleMessage, Forget, TypeOK
  <2>3. ASSUME NEW n \in Workers, HandleError(w, e, n) PROVE TypeOK'
    <3>1. promise' \in [Tasks -> Promise]
        BY <2>1, <2>3 DEF HandleError, Done, TypeOK, Promise, Event
    <3>2. /\ freeWorkers' \in Seq(Workers)
          /\ tasks' \in Seq(Tasks)
          /\ taskInfo' \in [Workers -> Maybe]
          /\ inbox' \in [Workers -> SUBSET Tasks]
        BY <2>3, FreedTyped DEF HandleError, Replace, TypeOK
    <3> QED
        BY <2>3, <3>1, <3>2 DEF HandleError, Replace, TypeOK
  <2>4. CASE HandleIdleError(w, e)
      BY <2>4 DEF HandleIdleError, TypeOK
  <2> QED
      BY <2>2, <2>3, <2>4
<1>4. ASSUME NEW w \in Workers, Work(w) PROVE TypeOK'
  <2>1. CASE ThreadStart(w)
      BY <2>1 DEF ThreadStart, TypeOK, mainVars
  <2>2. CASE ThreadStartFails(w)
      BY <2>2 DEF ThreadStartFails, Raise, TypeOK, mainVars, Event, Maybe
  <2>3. ASSUME NEW t \in Tasks, Take(w, t) PROVE TypeOK'
      BY <2>3 DEF Take, TypeOK, mainVars
  <2>4. ASSUME NEW t \in Tasks, Answer(w, t) PROVE TypeOK'
      BY <2>4 DEF Answer, Raise, TypeOK, mainVars, Event, Maybe
  <2>5. ASSUME NEW t \in Tasks, Fail(w, t) PROVE TypeOK'
      BY <2>5 DEF Fail, Raise, TypeOK, mainVars, Event, Maybe
  <2> QED
      BY <1>4, <2>1, <2>2, <2>3, <2>4, <2>5 DEF Work
<1>5. CASE UNCHANGED vars
    BY <1>5 DEF vars, TypeOK
<1> QED
    BY <1>1, <1>2, <1>3, <1>4, <1>5 DEF Next

\* Every variable of the pool keeps its type, whatever tasks are submitted,
\* whichever fail and whichever threads die (src/worker-pool.ts as a whole).
THEOREM TypeCorrect == Spec => []TypeOK
    BY InitTyped, NextTyped, PTL DEF Spec
-----------------------------------------------------------------------------
(* The inductive invariant, one lemma per kind of step.                    *)

LEMMA InitInv == Init => IInv
<1> SUFFICES ASSUME Init PROVE IInv
    OBVIOUS
<1>1. TypeOK
    BY InitTyped
<1>2. \A i \in 1 .. Len(Initial) : Initial[i] \in Workers
    BY PoolAssumption, ElementOfSeq
<1>3. FreeAreIdle
    BY <1>2, PoolAssumption DEF Init, FreeAreIdle
<1>4. UnbornAreBlank /\ HeldOnce /\ MailIsCurrent /\ HeldIsPending
    BY DEF Init, UnbornAreBlank, HeldOnce, MailIsCurrent, HeldIsPending
<1>5. QueuedOnce /\ WorkConserving /\ OwnOutcome
    BY DEF Init, QueuedOnce, WorkConserving, OwnOutcome
<1> QED
    BY <1>1, <1>3, <1>4, <1>5 DEF IInv

\* A client calls runTask and no worker is free: the task joins the queue.
LEMMA SubmitQueued ==
    ASSUME IInv, TypeOK', NEW t \in Tasks, Submit(t), freeWorkers = <<>>
    PROVE  IInv'
<1>1. /\ promise[t].state = "none"
      /\ promise' = [promise EXCEPT ![t].state = "pending"]
      /\ tasks' = Append(tasks, t)
      /\ UNCHANGED <<freeWorkers, taskInfo, thread, inbox, running, outbox>>
    BY DEF Submit
<1>2. /\ Len(tasks) \in Nat /\ Len(tasks') = Len(tasks) + 1
      /\ \A i \in 1 .. Len(tasks) : tasks'[i] = tasks[i] /\ tasks[i] \in Tasks
      /\ tasks'[Len(tasks) + 1] = t
    BY <1>1, PushFacts DEF IInv, TypeOK
<1>3. \A w \in Workers : taskInfo[w] \in Maybe /\ taskInfo[w] # t
    BY <1>1, PoolAssumption DEF IInv, TypeOK, HeldOnce
<1>4. \A i \in 1 .. Len(tasks) : tasks[i] # t
    BY <1>1 DEF IInv, QueuedOnce
<1>5. /\ \A u \in Tasks : u # t => promise'[u] = promise[u]
      /\ promise'[t].state = "pending"
    BY <1>1 DEF IInv, TypeOK, Promise
<1>6. FreeAreIdle' /\ UnbornAreBlank' /\ MailIsCurrent' /\ WorkConserving'
    BY <1>1 DEF IInv, FreeAreIdle, UnbornAreBlank, MailIsCurrent, WorkConserving
<1>7. QueuedOnce'
  <2>1. \A i \in 1 .. Len(tasks') : i \in 1 .. Len(tasks) \/ i = Len(tasks) + 1
      BY <1>2
  <2>2. ASSUME NEW i \in 1 .. Len(tasks'), NEW j \in 1 .. Len(tasks'),
               tasks'[i] = tasks'[j]
        PROVE  i = j
      BY <1>2, <1>4, <2>1, <2>2 DEF IInv, QueuedOnce
  <2>3. ASSUME NEW i \in 1 .. Len(tasks') PROVE promise'[tasks'[i]].state = "pending"
      BY <1>2, <1>4, <1>5, <2>1 DEF IInv, QueuedOnce
  <2>4. ASSUME NEW i \in 1 .. Len(tasks'), NEW w \in Workers
        PROVE  taskInfo'[w] # tasks'[i]
      BY <1>1, <1>2, <1>3, <2>1 DEF IInv, QueuedOnce
  <2> QED
      BY <2>2, <2>3, <2>4 DEF QueuedOnce
<1>8. HeldOnce'
  <2>1. ASSUME NEW u \in Tasks, promise'[u].state = "pending"
        PROVE  \/ \E i \in 1 .. Len(tasks') : tasks'[i] = u
               \/ \E w \in Workers : taskInfo'[w] = u
    <3>1. CASE u = t
        BY <1>2, <3>1
    <3>2. CASE u # t
      <4>1. \/ \E i \in 1 .. Len(tasks) : tasks[i] = u
            \/ \E w \in Workers : taskInfo[w] = u
          BY <1>5, <2>1, <3>2 DEF IInv, HeldOnce
      <4> QED
          BY <1>1, <1>2, <4>1
    <3> QED
        BY <3>1, <3>2
  <2>2. ASSUME NEW w \in Workers, taskInfo'[w] # None
        PROVE  promise'[taskInfo'[w]].state # "none"
      BY <1>1, <1>3, <1>5, <2>2 DEF IInv, HeldOnce, Maybe
  <2> QED
      BY <1>1, <2>1, <2>2 DEF IInv, HeldOnce
<1>9. HeldIsPending'
    BY <1>1, <1>3, <1>5 DEF IInv, HeldIsPending, Maybe
<1>10. OwnOutcome'
    BY <1>5 DEF IInv, OwnOutcome
<1> QED
    BY <1>6, <1>7, <1>8, <1>9, <1>10 DEF IInv
\* A client calls runTask and a worker is free: it is popped and gets the task.
LEMMA SubmitPosted ==
    ASSUME IInv, TypeOK', NEW t \in Tasks, Submit(t), freeWorkers # <<>>
    PROVE  IInv'
<1> DEFINE n == Len(freeWorkers)
           w == freeWorkers[n]
<1>1. /\ promise[t].state = "none"
      /\ promise' = [promise EXCEPT ![t].state = "pending"]
      /\ taskInfo' = [taskInfo EXCEPT ![w] = t]
      /\ inbox' = [inbox EXCEPT ![w] = inbox[w] \cup {t}]
      /\ UNCHANGED <<tasks, thread, running, outbox>>
    BY DEF Submit, PostTo, PopFree
<1>2. /\ n \in Nat \ {0} /\ w \in Workers
      /\ Len(freeWorkers') = n - 1
      /\ \A i \in 1 .. n - 1 : freeWorkers'[i] = freeWorkers[i]
      /\ \A i \in 1 .. n : freeWorkers[i] \in Workers
    BY PopFacts DEF IInv, TypeOK, Submit, PopFree
<1>3. /\ taskInfo[w] = None /\ thread[w] # "unborn"
      /\ \A i \in 1 .. n - 1 : freeWorkers[i] # w
    BY <1>2 DEF IInv, FreeAreIdle
<1> HIDE DEF w, n
<1>4. \A v \in Workers : taskInfo[v] \in Maybe /\ taskInfo[v] # t
    BY <1>1, PoolAssumption DEF IInv, TypeOK, HeldOnce
<1>5. /\ \A u \in Tasks : u # t => promise'[u] = promise[u]
      /\ promise'[t].state = "pending"
    BY <1>1 DEF IInv, TypeOK, Promise
<1>6. /\ taskInfo'[w] = t
      /\ \A v \in Workers : v # w => taskInfo'[v] = taskInfo[v]
      /\ inbox[w] = {} /\ inbox'[w] = {t}
      /\ \A v \in Workers : v # w => inbox'[v] = inbox[v]
      /\ running[w] = {}
  <2>1. inbox[w] \subseteq {None} /\ running[w] \subseteq {None}
      BY <1>2, <1>3 DEF IInv, MailIsCurrent
  <2>2. inbox[w] \in SUBSET Tasks /\ running[w] \in SUBSET Tasks
      BY <1>2 DEF IInv, TypeOK
  <2> QED
      BY <1>1, <1>2, <2>1, <2>2, PoolAssumption DEF IInv, TypeOK
<1>7. FreeAreIdle'
    BY <1>1, <1>2, <1>3, <1>6 DEF IInv, FreeAreIdle, n
<1>8. UnbornAreBlank'
    BY <1>1, <1>3, <1>6 DEF IInv, UnbornAreBlank
<1>9. QueuedOnce'
  <2>1. \A i \in 1 .. Len(tasks) : tasks[i] \in Tasks /\ tasks[i] # t
      BY <1>1, ElementOfSeq DEF IInv, TypeOK, QueuedOnce
  <2> QED
      BY <1>1, <1>5, <1>6, <2>1 DEF IInv, QueuedOnce
<1>10. HeldOnce'
  <2>1. ASSUME NEW u \in Workers, NEW v \in Workers,
               taskInfo'[u] = taskInfo'[v], taskInfo'[u] # None
        PROVE  u = v
      BY <1>4, <1>6, <2>1 DEF IInv, HeldOnce
  <2>2. ASSUME NEW v \in Workers, taskInfo'[v] # None
        PROVE  promise'[taskInfo'[v]].state # "none"
      BY <1>4, <1>5, <1>6, <2>2 DEF IInv, HeldOnce, Maybe
  <2>3. ASSUME NEW u \in Tasks, promise'[u].state = "pending"
        PROVE  \/ \E i \in 1 .. Len(tasks') : tasks'[i] = u
               \/ \E v \in Workers : taskInfo'[v] = u
    <3>1. CASE u = t
        BY <1>2, <1>6, <3>1
    <3>2. CASE u # t
      <4>1. \/ \E i \in 1 .. Len(tasks) : tasks[i] = u
            \/ \E v \in Workers : taskInfo[v] = u
          BY <1>5, <2>3, <3>2 DEF IInv, HeldOnce
      <4>2. u # None
          BY PoolAssumption
      <4> QED
          BY <1>1, <1>3, <1>6, <4>1, <4>2
    <3> QED
        BY <3>1, <3>2
  <2> QED
      BY <2>1, <2>2, <2>3 DEF HeldOnce
<1>11. MailIsCurrent'
  <2> SUFFICES ASSUME NEW v \in Workers
               PROVE  MailIsCurrent!(v)'
      BY DEF MailIsCurrent
  <2>1. CASE v # w
      BY <1>1, <1>6, <2>1 DEF IInv, MailIsCurrent
  <2>2. CASE v = w
    <3>1. \A e \in outbox[w] : /\ outbox[w] = {e} /\ e.type = "error"
                               /\ e.task = None /\ thread[w] = "dead"
        BY <1>2, <1>3 DEF IInv, MailIsCurrent, TypeOK, Event
    <3> QED
        BY <1>1, <1>2, <1>6, <2>2, <3>1 DEF IInv, MailIsCurrent
  <2> QED
      BY <2>1, <2>2
<1>12. HeldIsPending'
    BY <1>1, <1>4, <1>5, <1>6 DEF IInv, HeldIsPending, Maybe
<1>13. WorkConserving' /\ OwnOutcome'
    BY <1>1, <1>5 DEF IInv, WorkConserving, OwnOutcome
<1> QED
    BY <1>7, <1>8, <1>9, <1>10, <1>11, <1>12, <1>13 DEF IInv
\* What both listeners do: v's task is settled and its event is gone; worker x,
\* which nobody uses (v itself, or the replacement of v), is freed.
LEMMA SettleAndDispatch ==
    ASSUME IInv, TypeOK',
           NEW v \in Workers, NEW x \in Workers, NEW e \in outbox[v],
           NEW info \in [Workers -> Maybe], NEW how \in {"resolved", "rejected"},
           taskInfo[v] # None,
           how = "resolved" => e.type = "message",
           promise' = [promise EXCEPT ![taskInfo[v]] = [state |-> how, by |-> e.task]],
           outbox' = [outbox EXCEPT ![v] = @ \ {e}],
           running' = running,
           Freed(x, info),
           \/ /\ e.type = "message" /\ x = v /\ thread' = thread
              /\ info = [taskInfo EXCEPT ![v] = None]
           \/ /\ e.type = "error" /\ thread[x] = "unborn" /\ info = taskInfo
              /\ thread' = [thread EXCEPT ![x] = "starting"]
    PROVE  IInv'
<1> DEFINE t == taskInfo[v]
<1>1. /\ t \in Tasks
      /\ promise[t].state = "pending"
      /\ promise'[t].state \notin {"none", "pending"}
      /\ promise'[t].state = "resolved" => promise'[t].by = t
      /\ promise'[t].state = "rejected" => promise'[t].by \in {t, None}
      /\ \A u \in Tasks : u # t => promise'[u] = promise[u]
  <2>1. t \in Tasks /\ promise[t].state = "pending"
      BY DEF IInv, TypeOK, Maybe, HeldIsPending
  <2>2. promise'[t] = [state |-> how, by |-> e.task]
      BY <2>1 DEF IInv, TypeOK
  <2>3. \A u \in Tasks : u # t => promise'[u] = promise[u]
      BY <2>1 DEF IInv, TypeOK
  <2>4. e \in Event
      BY DEF IInv, TypeOK
  <2>5. /\ e.type = "message" => e.task = t
        /\ e.type = "error" => e.task \in {t, None}
      BY DEF IInv, MailIsCurrent
  <2> QED
      BY <2>1, <2>2, <2>3, <2>4, <2>5 DEF Event
<1>2. \A u \in Workers : taskInfo[u] \in Maybe /\ (u # v => taskInfo[u] # t)
    BY DEF IInv, TypeOK, HeldOnce
<1>3. /\ outbox'[v] = {} /\ running[v] = {}
      /\ e.type = "message" => inbox[v] = {}
      /\ e.type = "error" => thread[v] = "dead"
      /\ \A u \in Workers : u # v => outbox'[u] = outbox[u]
      /\ \A u \in Workers : outbox'[u] \subseteq outbox[u]
    BY DEF IInv, MailIsCurrent, TypeOK
<1>4. /\ info[x] = None /\ inbox[x] = {} /\ running[x] = {} /\ outbox'[x] = {}
      /\ thread'[x] # "unborn"
      /\ \A u \in Workers : u # x => info[u] = taskInfo[u] /\ thread'[u] = thread[u]
      /\ \A i \in 1 .. Len(freeWorkers) : freeWorkers[i] # x
  <2>1. CASE e.type = "message"
      BY <1>3, <2>1 DEF IInv, TypeOK, FreeAreIdle, UnbornAreBlank
  <2>2. CASE e.type = "error"
      BY <1>3, <2>2 DEF IInv, TypeOK, FreeAreIdle, UnbornAreBlank
  <2> QED
      BY <2>1, <2>2 DEF IInv, TypeOK, Event
<1>5. /\ e.type = "message" => x = v
      /\ e.type = "error" => x # v /\ thread'[x] = "starting"
      /\ e.type \in {"message", "error"}
    BY <1>3 DEF IInv, TypeOK, Event
<1> HIDE DEF t
<1>6. CASE tasks = <<>>
  <2>1. /\ freeWorkers' = Append(freeWorkers, x) /\ taskInfo' = info
        /\ UNCHANGED <<tasks, inbox>>
      BY <1>6 DEF Freed
  <2>2. /\ Len(freeWorkers) \in Nat /\ Len(freeWorkers') = Len(freeWorkers) + 1
        /\ \A i \in 1 .. Len(freeWorkers) :
              freeWorkers'[i] = freeWorkers[i] /\ freeWorkers[i] \in Workers
        /\ freeWorkers'[Len(freeWorkers) + 1] = x
      BY <2>1, PushFacts DEF IInv, TypeOK
  <2>3. \A i \in 1 .. Len(freeWorkers') :
            i \in 1 .. Len(freeWorkers) \/ i = Len(freeWorkers) + 1
      BY <2>2
  <2>4. FreeAreIdle'
      BY <1>4, <2>1, <2>2, <2>3 DEF IInv, FreeAreIdle
  <2>5. UnbornAreBlank'
      BY <1>3, <1>4, <2>1 DEF IInv, UnbornAreBlank
  <2>6. QueuedOnce' /\ WorkConserving'
      BY <1>6, <2>1 DEF QueuedOnce, WorkConserving
  <2>7. HeldOnce'
    <3>1. ASSUME NEW u \in Tasks, promise'[u].state = "pending"
          PROVE  \E w \in Workers : taskInfo'[w] = u
      <4>1. u # t /\ promise[u].state = "pending"
          BY <1>1, <3>1
      <4>2. PICK w \in Workers : taskInfo[w] = u
          BY <1>6, <4>1 DEF IInv, HeldOnce
      <4>3. w # x
          BY <1>4, <1>5, <4>1, <4>2, PoolAssumption DEF t, IInv, UnbornAreBlank
      <4> QED
          BY <1>4, <2>1, <4>2, <4>3
    <3>2. ASSUME NEW w \in Workers, taskInfo'[w] # None
          PROVE  promise'[taskInfo'[w]].state # "none"
        BY <1>1, <1>2, <1>4, <2>1, <3>2 DEF IInv, HeldOnce, Maybe
    <3>3. ASSUME NEW u \in Workers, NEW w \in Workers,
                 taskInfo'[u] = taskInfo'[w], taskInfo'[u] # None
          PROVE  u = w
        BY <1>4, <2>1, <3>3 DEF IInv, HeldOnce
    <3> QED
        BY <3>1, <3>2, <3>3 DEF HeldOnce
  <2>8. MailIsCurrent'
    <3> SUFFICES ASSUME NEW u \in Workers PROVE MailIsCurrent!(u)'
        BY DEF MailIsCurrent
    <3>1. CASE u = x
        BY <1>4, <2>1, <3>1
    <3>2. CASE u # x
        BY <1>3, <1>4, <2>1, <3>2 DEF IInv, MailIsCurrent
    <3> QED
        BY <3>1, <3>2
  <2>9. HeldIsPending'
      BY <1>1, <1>2, <1>3, <1>4, <1>5, <2>1 DEF IInv, HeldIsPending, Maybe, t
  <2>10. OwnOutcome'
      BY <1>1 DEF IInv, OwnOutcome
  <2> QED
      BY <2>4, <2>5, <2>6, <2>7, <2>8, <2>9, <2>10 DEF IInv<1>7. CASE tasks # <<>>
  <2> DEFINE h == Head(tasks)
             n == Len(tasks)
  <2>1. /\ taskInfo' = [info EXCEPT ![x] = h]
        /\ inbox' = [inbox EXCEPT ![x] = inbox[x] \cup {h}]
        /\ tasks' = Tail(tasks)
        /\ UNCHANGED freeWorkers
      BY <1>7 DEF Freed, PostTo, Oldest, ShiftTasks
  <2>2. /\ h = tasks[1] /\ h \in Tasks
        /\ n \in Nat \ {0} /\ Len(tasks') = n - 1
        /\ \A i \in 1 .. n - 1 : tasks'[i] = tasks[i + 1] /\ i + 1 \in 1 .. n
        /\ \A i \in 1 .. n : tasks[i] \in Tasks
      BY <1>7, <2>1, ShiftFacts DEF IInv, TypeOK
  <2>3. /\ promise[h].state = "pending" /\ h # t /\ h # None
        /\ \A u \in Workers : taskInfo[u] # h
        /\ \A i \in 1 .. n - 1 : tasks'[i] # h
      BY <2>2, PoolAssumption DEF IInv, QueuedOnce, t
  <2>4. promise'[h] = promise[h]
      BY <1>1, <2>2, <2>3
  <2> HIDE DEF h, n
  <2>5. /\ taskInfo'[x] = h /\ inbox'[x] = {h}
        /\ \A u \in Workers : u # x => taskInfo'[u] = taskInfo[u] /\ inbox'[u] = inbox[u]
      BY <1>4, <2>1 DEF IInv, TypeOK
  <2>6. freeWorkers = <<>> /\ freeWorkers' = <<>>
      BY <1>7, <2>1 DEF IInv, WorkConserving
  <2>7. FreeAreIdle' /\ WorkConserving'
    <3>1. Len(freeWorkers') = 0
        BY <2>6
    <3> QED
        BY <2>6, <3>1 DEF FreeAreIdle, WorkConserving
  <2>8. UnbornAreBlank'
      BY <1>3, <1>4, <2>5 DEF IInv, UnbornAreBlank
  <2>9. QueuedOnce'
    <3>1. ASSUME NEW i \in 1 .. n - 1, NEW j \in 1 .. n - 1, tasks'[i] = tasks'[j]
          PROVE  i = j
        BY <2>2, <3>1 DEF IInv, QueuedOnce, n
    <3>2. ASSUME NEW i \in 1 .. n - 1 PROVE promise'[tasks'[i]].state = "pending"
        BY <1>1, <2>2, <3>2 DEF IInv, QueuedOnce, n
    <3>3. ASSUME NEW i \in 1 .. n - 1, NEW u \in Workers
          PROVE  taskInfo'[u] # tasks'[i]
        BY <2>2, <2>3, <2>5 DEF IInv, QueuedOnce, n
    <3> QED
        BY <2>2, <3>1, <3>2, <3>3 DEF QueuedOnce
  <2>10. HeldOnce'
    <3>1. ASSUME NEW u \in Tasks, promise'[u].state = "pending"
          PROVE  \/ \E i \in 1 .. Len(tasks') : tasks'[i] = u
                 \/ \E w \in Workers : taskInfo'[w] = u
      <4>1. u # t /\ promise[u].state = "pending"
          BY <1>1, <3>1
      <4>2. CASE \E i \in 1 .. n : tasks[i] = u
        <5>1. PICK i \in 1 .. n : tasks[i] = u
            BY <4>2
        <5>2. CASE i = 1
            BY <2>2, <2>5, <5>1, <5>2
        <5>3. CASE i # 1
          <6>1. i - 1 \in 1 .. n - 1 /\ (i - 1) + 1 = i
              BY <2>2, <5>3
          <6>2. tasks'[i - 1] = u
              BY <2>2, <5>1, <6>1
          <6> QED
              BY <2>2, <6>1, <6>2
        <5> QED
            BY <5>2, <5>3
      <4>3. CASE \E w \in Workers : taskInfo[w] = u
        <5>1. PICK w \in Workers : taskInfo[w] = u
            BY <4>3
        <5>2. w # x
            BY <1>4, <1>5, <4>1, <5>1, PoolAssumption DEF t, IInv, UnbornAreBlank
        <5> QED
            BY <2>5, <5>1, <5>2
      <4> QED
          BY <4>1, <4>2, <4>3 DEF IInv, HeldOnce, n
    <3>2. ASSUME NEW w \in Workers, taskInfo'[w] # None
          PROVE  promise'[taskInfo'[w]].state # "none"
        BY <1>1, <1>2, <2>3, <2>4, <2>5, <3>2 DEF IInv, HeldOnce, Maybe
    <3>3. ASSUME NEW u \in Workers, NEW w \in Workers,
                 taskInfo'[u] = taskInfo'[w], taskInfo'[u] # None
          PROVE  u = w
        BY <2>3, <2>5, <3>3 DEF IInv, HeldOnce
    <3> QED
        BY <3>1, <3>2, <3>3 DEF HeldOnce
  <2>11. MailIsCurrent'
    <3> SUFFICES ASSUME NEW u \in Workers PROVE MailIsCurrent!(u)'
        BY DEF MailIsCurrent
    <3>1. CASE u = x
        BY <1>4, <2>5, <3>1
    <3>2. CASE u # x
        BY <1>3, <1>4, <2>5, <3>2 DEF IInv, MailIsCurrent
    <3> QED
        BY <3>1, <3>2
  <2>12. HeldIsPending'
    <3> SUFFICES ASSUME NEW u \in Workers, taskInfo'[u] # None,
                        \/ running'[u] # {} \/ outbox'[u] # {}
                        \/ thread'[u] = "starting"
                        \/ thread'[u] = "online" /\ inbox'[u] # {}
                 PROVE  promise'[taskInfo'[u]].state = "pending"
        BY DEF HeldIsPending
    <3>1. CASE u = x
        BY <2>3, <2>4, <2>5, <3>1
    <3>2. CASE u # x
      <4>1. u # v
          BY <1>3, <1>4, <1>5, <3>2
      <4> QED
          BY <1>1, <1>2, <1>3, <1>4, <2>5, <3>2, <4>1 DEF IInv, HeldIsPending, Maybe
    <3> QED
        BY <3>1, <3>2
  <2>13. OwnOutcome'
      BY <1>1 DEF IInv, OwnOutcome
  <2> QED
      BY <2>7, <2>8, <2>9, <2>10, <2>11, <2>12, <2>13 DEF IInv
<1> QED
    BY <1>6, <1>7
LEMMA CloseInv == ASSUME IInv, TypeOK', Close PROVE IInv'
<1>1. /\ UNCHANGED <<freeWorkers, tasks, taskInfo, outbox, promise>>
      /\ \A w \in Workers :
            /\ w \in workers => thread'[w] = "dead" /\ inbox'[w] = {} /\ running'[w] = {}
            /\ w \notin workers => /\ thread'[w] = thread[w]
                                  /\ inbox'[w] = inbox[w] /\ running'[w] = running[w]
    BY DEF Close
<1>2. \A i \in 1 .. Len(freeWorkers) : freeWorkers[i] \in Workers
    BY ElementOfSeq DEF IInv, TypeOK
<1>3. FreeAreIdle' /\ UnbornAreBlank'
    BY <1>1, <1>2 DEF IInv, FreeAreIdle, UnbornAreBlank
<1>4. QueuedOnce' /\ HeldOnce' /\ WorkConserving' /\ OwnOutcome'
    BY <1>1 DEF IInv, QueuedOnce, HeldOnce, WorkConserving, OwnOutcome
<1>5. MailIsCurrent'
    BY <1>1 DEF IInv, MailIsCurrent
<1>6. HeldIsPending'
    BY <1>1 DEF IInv, HeldIsPending
<1> QED
    BY <1>3, <1>4, <1>5, <1>6 DEF IInv

LEMMA HandleInv ==
    ASSUME IInv, TypeOK', NEW w \in Workers, Handle(w) PROVE IInv'
<1> PICK e \in outbox[w] :
        \/ HandleMessage(w, e)
        \/ \E n \in Workers : HandleError(w, e, n)
        \/ HandleIdleError(w, e)
    BY DEF Handle
<1>1. CASE HandleMessage(w, e)
  <2>1. [taskInfo EXCEPT ![w] = None] \in [Workers -> Maybe]
      BY DEF IInv, TypeOK, Maybe
  <2> QED
      BY <1>1, <2>1, SettleAndDispatch DEF HandleMessage, Forget, Done
<1>2. ASSUME NEW n \in Workers, HandleError(w, e, n) PROVE IInv'
  <2>1. taskInfo \in [Workers -> Maybe]
      BY DEF IInv, TypeOK
  <2> QED
      BY <1>2, <2>1, SettleAndDispatch DEF HandleError, Replace, Done
<1>3. CASE HandleIdleError(w, e)
  <2>1. /\ UNCHANGED <<freeWorkers, tasks, taskInfo, thread, inbox, running, promise>>
        /\ \A u \in Workers : outbox'[u] \subseteq outbox[u]
        /\ \A u \in Workers : u # w => outbox'[u] = outbox[u]
        /\ outbox'[w] = {}
      BY <1>3 DEF HandleIdleError, IInv, TypeOK, MailIsCurrent
  <2>2. FreeAreIdle' /\ UnbornAreBlank'
      BY <2>1 DEF IInv, FreeAreIdle, UnbornAreBlank
  <2>3. QueuedOnce' /\ HeldOnce' /\ WorkConserving' /\ OwnOutcome'
      BY <2>1 DEF IInv, QueuedOnce, HeldOnce, WorkConserving, OwnOutcome
  <2>4. MailIsCurrent'
      BY <2>1 DEF IInv, MailIsCurrent
  <2>5. HeldIsPending'
      BY <2>1 DEF IInv, HeldIsPending
  <2> QED
      BY <2>2, <2>3, <2>4, <2>5 DEF IInv
<1> QED
    BY <1>1, <1>2, <1>3

\* A step of a thread leaves the variables of the main thread alone: only its
\* own mailboxes and its life matter.
LEMMA WorkInv ==
    ASSUME IInv, TypeOK', NEW w \in Workers, Work(w) PROVE IInv'
<1>1. UNCHANGED <<freeWorkers, tasks, taskInfo, promise>>
    BY DEF Work, ThreadStart, ThreadStartFails, Take, Answer, Fail, mainVars
<1>2. /\ thread[w] # "unborn" /\ thread'[w] # "unborn"
      /\ \A u \in Workers : u # w =>
            /\ thread'[u] = thread[u] /\ inbox'[u] = inbox[u]
            /\ running'[u] = running[u] /\ outbox'[u] = outbox[u]
    BY DEF Work, ThreadStart, ThreadStartFails, Take, Answer, Fail, Raise, IInv, TypeOK
<1>3. \A i \in 1 .. Len(freeWorkers) : freeWorkers[i] \in Workers
    BY ElementOfSeq DEF IInv, TypeOK
<1>4. FreeAreIdle' /\ UnbornAreBlank'
    BY <1>1, <1>2, <1>3 DEF IInv, FreeAreIdle, UnbornAreBlank
<1>5. QueuedOnce' /\ HeldOnce' /\ WorkConserving' /\ OwnOutcome'
    BY <1>1 DEF IInv, QueuedOnce, HeldOnce, WorkConserving, OwnOutcome
<1>6. MailIsCurrent!(w)' /\ HeldIsPending!(w)'
  <2>1. MailIsCurrent!(w) /\ HeldIsPending!(w)
      BY DEF IInv, MailIsCurrent, HeldIsPending
  <2>2. CASE ThreadStart(w)
      BY <1>1, <2>1, <2>2 DEF ThreadStart, IInv, TypeOK
  <2>3. CASE ThreadStartFails(w)
    <3>1. running[w] = {} /\ outbox[w] = {} /\ thread[w] = "starting"
        BY <2>1, <2>3 DEF ThreadStartFails
    <3>2. /\ outbox'[w] = {[type |-> "error", task |-> None]}
          /\ thread'[w] = "dead" /\ running'[w] = {} /\ inbox'[w] = inbox[w]
        BY <2>3, <3>1 DEF ThreadStartFails, Raise, IInv, TypeOK
    <3> QED
        BY <1>1, <2>1, <3>1, <3>2
  <2>4. ASSUME NEW t \in Tasks, Take(w, t)
        PROVE  MailIsCurrent!(w)' /\ HeldIsPending!(w)'
      BY <1>1, <2>1, <2>4 DEF Take, IInv, TypeOK
  <2>5. ASSUME NEW t \in Tasks, Answer(w, t)
        PROVE  MailIsCurrent!(w)' /\ HeldIsPending!(w)'
    <3>1. /\ running[w] = {t} /\ taskInfo[w] = t /\ t # None
          /\ inbox[w] = {} /\ outbox[w] = {} /\ thread[w] = "online"
          /\ promise[t].state = "pending"
      <4>1. t \in running[w] /\ thread[w] = "online"
          BY <2>5 DEF Answer
      <4>2. t # None
          BY PoolAssumption
      <4> QED
          BY <2>1, <4>1, <4>2
    <3>2. /\ running'[w] = {} /\ outbox'[w] = {[type |-> "message", task |-> t]}
          /\ inbox'[w] = {} /\ thread'[w] = "online"
          /\ taskInfo'[w] = t /\ promise' = promise
        BY <1>1, <2>5, <3>1 DEF Answer, Raise, IInv, TypeOK
    <3> QED
        BY <3>1, <3>2
  <2>6. ASSUME NEW t \in Tasks, Fail(w, t)
        PROVE  MailIsCurrent!(w)' /\ HeldIsPending!(w)'
      BY <1>1, <2>1, <2>6 DEF Fail, Raise, IInv, TypeOK
  <2> QED
      BY <2>2, <2>3, <2>4, <2>5, <2>6 DEF Work
<1>7. MailIsCurrent' /\ HeldIsPending'
    BY <1>1, <1>2, <1>6 DEF IInv, MailIsCurrent, HeldIsPending
<1> QED
    BY <1>4, <1>5, <1>7 DEF IInv

LEMMA NextInv == IInv /\ [Next]_vars => IInv'
<1> SUFFICES ASSUME IInv, [Next]_vars PROVE IInv'
    OBVIOUS
<1>1. TypeOK'
    BY NextTyped DEF IInv
<1>2. ASSUME NEW t \in Tasks, Submit(t) PROVE IInv'
    BY <1>1, <1>2, SubmitQueued, SubmitPosted
<1>3. CASE UNCHANGED vars
  <2>1. FreeAreIdle' /\ UnbornAreBlank' /\ QueuedOnce' /\ HeldOnce'
      BY <1>3 DEF IInv, vars, FreeAreIdle, UnbornAreBlank, QueuedOnce, HeldOnce
  <2>2. MailIsCurrent' /\ HeldIsPending' /\ WorkConserving' /\ OwnOutcome'
      BY <1>3 DEF IInv, vars, MailIsCurrent, HeldIsPending, WorkConserving, OwnOutcome
  <2> QED
      BY <1>1, <2>1, <2>2 DEF IInv
<1> QED
    BY <1>1, <1>2, <1>3, CloseInv, HandleInv, WorkInv DEF Next

\* IInv, for every number of tasks and workers: what the listeners of
\* addNewWorker assume without checking (src/worker-pool.ts:58-81).
THEOREM Invariance == Spec => []IInv
    BY InitInv, NextInv, PTL DEF Spec
\* No task waits while a worker is free: the kWorkerFreedEvent listener
\* (lines 45-50) is dispatcher enough.
THEOREM NeverIdleWithQueue == Spec => []WorkConserving
<1>1. IInv => WorkConserving
    BY DEF IInv
<1> QED
    BY <1>1, Invariance, PTL

\* The listeners settle the promise of the task the event is about, although
\* the event does not name it (lines 62 and 75).
THEOREM OutcomesAreOwn == Spec => []OwnOutcome
<1>1. IInv => OwnOutcome
    BY DEF IInv
<1> QED
    BY <1>1, Invariance, PTL

\* A pending task is in exactly one place: never lost, never run twice.
THEOREM PendingInOnePlace == Spec => []TaskInOnePlace
<1>1. ASSUME IInv PROVE TaskInOnePlace
  <2> SUFFICES ASSUME NEW t \in Tasks, promise[t].state = "pending"
               PROVE  \/ \E i \in Places(t) : Places(t) = {i} /\ Holders(t) = {}
                      \/ \E w \in Holders(t) : Holders(t) = {w} /\ Places(t) = {}
      BY DEF TaskInOnePlace
  <2>1. t # None
      BY PoolAssumption
  <2>2. CASE \E i \in 1 .. Len(tasks) : tasks[i] = t
      BY <1>1, <2>2 DEF IInv, QueuedOnce, Places, Holders
  <2>3. CASE \E w \in Workers : taskInfo[w] = t
      BY <1>1, <2>1, <2>3 DEF IInv, QueuedOnce, HeldOnce, Places, Holders
  <2> QED
      BY <1>1, <2>2, <2>3 DEF IInv, HeldOnce
<1> QED
    BY <1>1, Invariance, PTL

\* A promise is settled once: an event arrives only for a worker whose task is
\* still pending (done, lines 23-26).
THEOREM SettledForGood == Spec => SettleOnce
<1>1. ASSUME IInv, [Next]_vars, NEW t \in Tasks, Settled(t)
      PROVE  promise'[t] = promise[t]
  <2>1. ASSUME NEW u \in Tasks, Submit(u) PROVE promise'[t] = promise[t]
      BY <1>1, <2>1 DEF Submit, Settled, IInv, TypeOK
  <2>2. ASSUME NEW w \in Workers, Handle(w) PROVE promise'[t] = promise[t]
    <3> PICK e \in outbox[w] :
            \/ HandleMessage(w, e)
            \/ \E n \in Workers : HandleError(w, e, n)
            \/ HandleIdleError(w, e)
        BY <2>2 DEF Handle
    <3>1. CASE HandleIdleError(w, e)
        BY <3>1 DEF HandleIdleError
    <3>2. CASE HandleMessage(w, e) \/ \E n \in Workers : HandleError(w, e, n)
      <4>1. taskInfo[w] # None /\ \E how \in {"resolved", "rejected"} :
                                  Done(w, how, e.task)
          BY <3>2 DEF HandleMessage, HandleError
      <4>2. promise[taskInfo[w]].state = "pending"
          BY <1>1, <4>1 DEF IInv, HeldIsPending
      <4> QED
          BY <1>1, <4>1, <4>2 DEF Done, Settled, IInv, TypeOK
    <3> QED
        BY <3>1, <3>2
  <2>3. CASE Close \/ UNCHANGED vars
      BY <2>3 DEF Close, vars
  <2>4. ASSUME NEW w \in Workers, Work(w) PROVE promise'[t] = promise[t]
      BY <2>4 DEF Work, ThreadStart, ThreadStartFails, Take, Answer, Fail, mainVars
  <2> QED
      BY <1>1, <2>1, <2>2, <2>3, <2>4 DEF Next
<1>2. IInv /\ [Next]_vars =>
        [\A t \in Tasks : Settled(t) => promise'[t] = promise[t]]_vars
    BY <1>1
<1> QED
    BY <1>2, Invariance, PTL DEF Spec, SettleOnce
-----------------------------------------------------------------------------
(* Replacement of dead workers.                                            *)

\* While the pool is open, only a live thread has a result to deliver.
ResultsComeFromLiveThreads ==
    ~closed => \A w \in Workers : \A e \in outbox[w] :
                  e.type = "message" => thread[w] = "online"

\* What holds besides IInv if nothing goes on after an uncaught exception: dead
\* threads have nothing to say, and dead workers are replaced.
LiveInv == IInv /\ ResultsComeFromLiveThreads /\ DeadIsReplaced

LEMMA LiveInvariant == ASSUME HostCatches = FALSE PROVE Spec => []LiveInv
<1> USE DEF LiveInv
<1>1. Init => LiveInv
  <2> SUFFICES ASSUME Init PROVE ResultsComeFromLiveThreads /\ DeadIsReplaced
      BY InitInv
  <2>1. \A w \in Workers : outbox[w] = {} /\ thread[w] # "dead"
      BY DEF Init
  <2>2. workers \subseteq Workers
      BY InitTyped DEF TypeOK
  <2> QED
      BY <2>1, <2>2 DEF ResultsComeFromLiveThreads, DeadIsReplaced
<1>2. ASSUME LiveInv, [Next]_vars PROVE LiveInv'
  <2>1. IInv' /\ TypeOK'
      BY <1>2, NextInv DEF IInv
  <2>2. CASE UNCHANGED vars \/ (\E t \in Tasks : Submit(t)) \/ Close
    <3>1. \/ closed'
          \/ UNCHANGED <<main, closed, workers, thread, outbox>>
        BY <2>2 DEF vars, Submit, Close
    <3> QED
        BY <1>2, <2>1, <3>1 DEF ResultsComeFromLiveThreads, DeadIsReplaced
  <2>3. ASSUME NEW w \in Workers, Handle(w) PROVE LiveInv'
    <3> PICK e \in outbox[w] :
            \/ HandleMessage(w, e)
            \/ \E n \in Workers : HandleError(w, e, n)
            \/ HandleIdleError(w, e)
        BY <2>3 DEF Handle
    <3>1. CASE HandleMessage(w, e)
      <4>1. /\ e.type = "message"
            /\ \A u \in Workers : u # w => outbox'[u] = outbox[u]
            /\ outbox'[w] \subseteq outbox[w]
            /\ UNCHANGED <<main, closed, workers, thread>>
          BY <1>2, <3>1 DEF HandleMessage, IInv, TypeOK
      <4> QED
          BY <1>2, <2>1, <4>1 DEF ResultsComeFromLiveThreads, DeadIsReplaced, IInv, TypeOK
    <3>2. ASSUME NEW n \in Workers, HandleError(w, e, n) PROVE LiveInv'
      <4>1. /\ \A u \in Workers : u # w => outbox'[u] = outbox[u]
            /\ outbox'[w] \subseteq outbox[w]
            /\ workers' = (workers \ {w}) \cup {n}
            /\ thread[n] = "unborn" /\ thread'[n] = "starting"
            /\ \A u \in Workers : u # n => thread'[u] = thread[u]
            /\ UNCHANGED <<main, closed>>
          BY <1>2, <3>2 DEF HandleError, Replace, IInv, TypeOK
      <4>2. outbox[n] = {} /\ n # w
          BY <1>2, <4>1 DEF IInv, UnbornAreBlank
      <4> QED
          BY <1>2, <2>1, <4>1, <4>2
          DEF ResultsComeFromLiveThreads, DeadIsReplaced, IInv, TypeOK
    <3>3. CASE HandleIdleError(w, e)
      <4>1. /\ main' = "crashed" /\ UNCHANGED <<closed, thread>>
            /\ \A u \in Workers : outbox'[u] \subseteq outbox[u]
          BY <1>2, <3>3 DEF HandleIdleError, IInv, TypeOK
      <4> QED
          BY <1>2, <2>1, <4>1 DEF ResultsComeFromLiveThreads, DeadIsReplaced
    <3> QED
        BY <3>1, <3>2, <3>3
  <2>4. ASSUME NEW w \in Workers, Work(w) PROVE LiveInv'
    <3>1. UNCHANGED <<main, closed, workers>>
        BY <2>4 DEF Work, ThreadStart, ThreadStartFails, Take, Answer, Fail, mainVars
    <3>2. \A u \in Workers : u # w => thread'[u] = thread[u] /\ outbox'[u] = outbox[u]
        BY <1>2, <2>4
        DEF Work, ThreadStart, ThreadStartFails, Take, Answer, Fail, Raise, IInv, TypeOK
    <3>3. /\ thread'[w] = "dead" => outbox'[w] # {}
          /\ \A e \in outbox'[w] : e.type = "message" => thread'[w] = "online"
      <4>1. MailIsCurrent!(w)
          BY <1>2 DEF IInv, MailIsCurrent
      <4>2. CASE ThreadStart(w)
          BY <1>2, <4>1, <4>2 DEF ThreadStart, IInv, TypeOK
      <4>3. CASE ThreadStartFails(w)
        <5>1. outbox[w] = {}
            BY <4>1, <4>3 DEF ThreadStartFails
        <5>2. /\ outbox'[w] = {[type |-> "error", task |-> None]}
              /\ thread'[w] = "dead"
            BY <1>2, <4>3, <5>1 DEF ThreadStartFails, Raise, IInv, TypeOK
        <5> QED
            BY <5>2
      <4>4. CASE \E t \in Tasks : Take(w, t)
          BY <1>2, <4>1, <4>4 DEF Take, IInv, TypeOK
      <4>5. CASE \E t \in Tasks : Answer(w, t)
          BY <1>2, <4>1, <4>5 DEF Answer, Raise, IInv, TypeOK
      <4>6. CASE \E t \in Tasks : Fail(w, t)
        <5> PICK t \in Tasks : Fail(w, t)
            BY <4>6
        <5>1. outbox[w] = {}
            BY <4>1 DEF Fail
        <5>2. /\ outbox'[w] = {[type |-> "error", task |-> t]}
              /\ thread'[w] = "dead"
            BY <1>2, <5>1 DEF Fail, Raise, IInv, TypeOK
        <5> QED
            BY <5>2
      <4> QED
          BY <2>4, <4>2, <4>3, <4>4, <4>5, <4>6 DEF Work
    <3> QED
        BY <1>2, <2>1, <3>1, <3>2, <3>3
        DEF ResultsComeFromLiveThreads, DeadIsReplaced, IInv, TypeOK
  <2> QED
      BY <1>2, <2>2, <2>3, <2>4 DEF Next
<1> QED
    BY <1>1, <1>2, PTL DEF Spec

\* Under a host that exits on an uncaught exception, no dead worker stays in
\* the list of an open pool (lines 77-80): NumThreads tasks can still run.
THEOREM DeadAreReplaced ==
    ASSUME HostCatches = FALSE PROVE Spec => []DeadIsReplaced
<1>1. LiveInv => DeadIsReplaced
    BY DEF LiveInv
<1> QED
    BY <1>1, LiveInvariant, PTL

-----------------------------------------------------------------------------
(* The refinement of TaskService.                                          *)

\* The tasks that were given to a worker and have no outcome yet.
Active == {t \in Tasks : promise[t].state = "pending" /\ Holders(t) # {}}

\* Every slot is a worker on the stack or a task that is active: this is why a
\* task is queued only when all slots are taken.
SlotsAreUsed ==
    /\ IsFiniteSet(Active)
    /\ Len(freeWorkers) + Cardinality(Active) = Len(Initial)

SInv == IInv /\ SlotsAreUsed

\* The service counts as the pool does.
LEMMA SameCount ==
    ASSUME NEW S
    PROVE  Service!Cardinality(S) = Cardinality(S)
    BY Zenon DEF Service!Cardinality, Cardinality

LEMMA SlotFacts ==
    ASSUME TypeOK, SlotsAreUsed
    PROVE  /\ Len(freeWorkers) \in Nat /\ Cardinality(Active) \in Nat /\ Len(Initial) \in Nat
           /\ freeWorkers = <<>> <=> Len(freeWorkers) = 0
<1>1. Len(freeWorkers) \in Nat /\ Len(Initial) \in Nat
    BY PoolAssumption, LenProperties DEF TypeOK
<1>2. Cardinality(Active) \in Nat
    BY FS_CardinalityType DEF SlotsAreUsed
<1>3. freeWorkers = <<>> <=> Len(freeWorkers) = 0
    BY EmptySeq, LenProperties DEF TypeOK
<1> QED
    BY <1>1, <1>2, <1>3

LEMMA InitSlots == Init => SlotsAreUsed
<1> SUFFICES ASSUME Init PROVE SlotsAreUsed
    OBVIOUS
<1>1. Active = {}
    BY DEF Init, Active
<1>2. Len(freeWorkers) \in Nat
    BY PoolAssumption, LenProperties DEF Init
<1> QED
    BY <1>1, <1>2, FS_EmptySet DEF Init, SlotsAreUsed

-----------------------------------------------------------------------------
(* One lemma per kind of step.                                             *)

\* runTask is a request: it is served at once or has to wait.
LEMMA SubmitRefines ==
    ASSUME SInv, NEW t \in Tasks, Submit(t)
    PROVE  Service!Request(t) /\ SlotsAreUsed'
<1>1. /\ TypeOK /\ HeldOnce /\ FreeAreIdle /\ SlotsAreUsed
      /\ promise[t].state = "none"
    BY DEF SInv, IInv, Submit
<1>2. /\ promise'[t].state = "pending"
      /\ \A u \in Tasks : u # t => promise'[u] = promise[u]
    BY <1>1 DEF Submit, TypeOK, Promise
<1>3. [u \in Tasks |-> promise'[u].state] = [[u \in Tasks |-> promise[u].state] EXCEPT ![t] = "pending"]
    BY <1>2
<1>4. t \notin Active
    BY <1>1 DEF Active
<1>5. CASE freeWorkers = <<>>
  <2>1. tasks' = Append(tasks, t) /\ UNCHANGED <<freeWorkers, taskInfo>>
      BY <1>5 DEF Submit
  <2>2. Holders(t) = {}
      BY <1>1, PoolAssumption DEF Holders, HeldOnce
  <2>3. Active' = Active
      BY <1>2, <2>1, <2>2 DEF Active, Holders
  <2>4. Service!Cardinality(Active) >= Len(Initial)
      BY <1>1, <1>5, SlotFacts, SameCount DEF SlotsAreUsed
  <2>5. Service!Request(t)
      BY <1>1, <1>3, <2>1, <2>3, <2>4 DEF Service!Request, Active
  <2> QED
      BY <1>1, <2>1, <2>3, <2>5 DEF SlotsAreUsed
<1>6. CASE freeWorkers # <<>>
  <2> DEFINE n == Len(freeWorkers)
             w == freeWorkers[n]
  <2>1. /\ taskInfo' = [taskInfo EXCEPT ![w] = t] /\ tasks' = tasks
        /\ freeWorkers' = SubSeq(freeWorkers, 1, n - 1)
      BY <1>6 DEF Submit, PostTo, PopFree
  <2>2. n \in Nat \ {0} /\ w \in Workers /\ Len(freeWorkers') = n - 1
    <3>1. /\ freeWorkers \in Seq(Workers) /\ freeWorkers # <<>>
          /\ freeWorkers' = SubSeq(freeWorkers, 1, Len(freeWorkers) - 1)
        BY <1>1, <1>6, <2>1 DEF TypeOK
    <3>2. /\ n \in Nat \ {0} /\ Len(freeWorkers') = n - 1
          /\ \A i \in 1 .. n : freeWorkers[i] \in Workers
        BY <3>1, PopFacts
    <3> HIDE DEF n
    <3> QED
        BY <3>2
  <2>3. taskInfo[w] = None
      BY <1>1, <2>2 DEF FreeAreIdle
  <2> HIDE DEF w, n
  <2>4. taskInfo'[w] = t /\ \A v \in Workers : v # w => taskInfo'[v] = taskInfo[v]
      BY <1>1, <2>1, <2>2 DEF TypeOK
  <2>5. \A u \in Tasks : u # t => Holders(u)' = Holders(u)
      BY <2>2, <2>3, <2>4, PoolAssumption DEF Holders
  <2>6. w \in Holders(t)'
      BY <2>2, <2>4 DEF Holders
  <2>7. Active' = Active \cup {t}
      BY <1>2, <2>5, <2>6 DEF Active
  <2>8. IsFiniteSet(Active') /\ Cardinality(Active') = Cardinality(Active) + 1
      BY <1>1, <1>4, <2>7, FS_AddElement DEF SlotsAreUsed
  <2>9. n + Cardinality(Active) = Len(Initial) /\ Cardinality(Active) \in Nat /\ Len(Initial) \in Nat
      BY <1>1, SlotFacts DEF SlotsAreUsed, n
  <2>10. SlotsAreUsed'
      BY <2>2, <2>8, <2>9 DEF SlotsAreUsed
  <2>11. Service!Cardinality(Active) < Len(Initial)
      BY <2>2, <2>9, SameCount
  <2>12. Service!Request(t)
      BY <1>1, <1>3, <2>1, <2>7, <2>11 DEF Service!Request, Active
  <2> QED
      BY <2>10, <2>12
<1> QED
    BY <1>5, <1>6

\* What both listeners do, as in SettleAndDispatch: a slot is given back, or
\* given to the task that waits longest.
LEMMA SettleRefines ==
    ASSUME SInv,
           NEW v \in Workers, NEW x \in Workers, NEW e \in outbox[v],
           NEW info \in [Workers -> Maybe], NEW how \in {"resolved", "rejected"},
           taskInfo[v] # None,
           promise' = [promise EXCEPT ![taskInfo[v]] = [state |-> how, by |-> e.task]],
           Freed(x, info),
           info[x] = None, info[v] \in {taskInfo[v], None},
           \A u \in Workers : u # v => info[u] = taskInfo[u]
    PROVE  Service!Finish(taskInfo[v], how) /\ SlotsAreUsed'
<1> DEFINE t == taskInfo[v]
<1>1. /\ TypeOK /\ HeldOnce /\ HeldIsPending /\ QueuedOnce /\ SlotsAreUsed
      /\ Len(freeWorkers) + Cardinality(Active) = Len(Initial)
      /\ Len(freeWorkers) \in Nat /\ Cardinality(Active) \in Nat
    BY SlotFacts DEF SInv, IInv, SlotsAreUsed
<1>2. t \in Tasks /\ promise[t].state = "pending" /\ t \in Active
    BY <1>1 DEF TypeOK, Maybe, HeldIsPending, Active, Holders
<1>3. /\ promise'[t].state = how
      /\ \A u \in Tasks : u # t => promise'[u] = promise[u]
    BY <1>1, <1>2 DEF TypeOK
<1>4. [u \in Tasks |-> promise'[u].state] = [[u \in Tasks |-> promise[u].state] EXCEPT ![t] = how]
  <2> DEFINE old == [u \in Tasks |-> promise[u].state]
             new == [u \in Tasks |-> promise'[u].state]
  <2>1. \A u \in Tasks : new[u] = [old EXCEPT ![t] = how][u]
      BY <1>2, <1>3
  <2> QED
      BY <2>1
<1>5. \A u \in Tasks \ {t} : {w \in Workers : info[w] = u} = Holders(u)
    BY PoolAssumption DEF Holders
<1>6. IsFiniteSet(Active \ {t}) /\ Cardinality(Active \ {t}) = Cardinality(Active) - 1
    BY <1>1, <1>2, FS_RemoveElement DEF SlotsAreUsed
<1> HIDE DEF t
<1>7. CASE tasks = <<>>
  <2>1. freeWorkers' = Append(freeWorkers, x) /\ taskInfo' = info /\ tasks' = tasks
      BY <1>7 DEF Freed
  <2>2. Active' = Active \ {t}
      BY <1>2, <1>3, <1>5, <2>1 DEF Active, Holders
  <2>3. Len(freeWorkers') = Len(freeWorkers) + 1
      BY <1>1, <2>1, PushFacts DEF TypeOK
  <2>4. SlotsAreUsed'
      BY <1>1, <1>6, <2>2, <2>3 DEF SlotsAreUsed
  <2>5. Service!Finish(t, how)
      BY <1>2, <1>4, <1>7, <2>1, <2>2 DEF Service!Finish, Active
  <2> QED
      BY <2>4, <2>5 DEF t
<1>8. CASE tasks # <<>>
  <2> PICK h \in Tasks : h = Head(tasks)
      BY <1>1, <1>8, ShiftFacts DEF TypeOK
  <2>1. /\ taskInfo' = [info EXCEPT ![x] = h] /\ tasks' = Tail(tasks)
        /\ freeWorkers' = freeWorkers
      BY <1>8 DEF Freed, PostTo, Oldest, ShiftTasks
  <2>2. h = tasks[1] /\ 1 \in 1 .. Len(tasks)
      BY <1>1, <1>8, ShiftFacts DEF TypeOK
  <2>3. promise[h].state = "pending" /\ Holders(h) = {}
      BY <1>1, <2>2 DEF QueuedOnce, Holders
  <2>4. h # t /\ h \notin Active
      BY <1>2, <2>3 DEF Active, Holders, t
  <2>5. taskInfo'[x] = h /\ \A u \in Workers : u # x => taskInfo'[u] = info[u]
      BY <2>1
  <2>6. \A u \in Tasks \ {t, h} : Holders(u)' = Holders(u)
    <3>1. \A u \in Tasks \ {t, h} : Holders(u)' = {w \in Workers : info[w] = u}
        BY <2>5, PoolAssumption DEF Holders
    <3> QED
        BY <1>5, <3>1
  <2>7. x \in Holders(h)'
      BY <2>5 DEF Holders
  <2>8. Active' = (Active \ {t}) \cup {h}
      BY <1>2, <1>3, <2>2, <2>3, <2>4, <2>6, <2>7 DEF Active
  <2>9. IsFiniteSet(Active') /\ Cardinality(Active') = Cardinality(Active)
    <3>1. /\ IsFiniteSet((Active \ {t}) \cup {h})
          /\ Cardinality((Active \ {t}) \cup {h}) = Cardinality(Active \ {t}) + 1
        BY <1>6, <2>4, FS_AddElement
    <3> QED
        BY <1>1, <1>6, <2>8, <3>1
  <2>10. SlotsAreUsed'
      BY <1>1, <2>1, <2>9 DEF SlotsAreUsed
  <2>11. Service!Finish(t, how)
      BY <1>2, <1>4, <1>8, <2>1, <2>8 DEF Service!Finish, Active
  <2> QED
      BY <2>10, <2>11 DEF t
<1> QED
    BY <1>7, <1>8

\* Clients do not see the other steps.
LEMMA StutterRefines ==
    ASSUME SInv, UNCHANGED <<freeWorkers, tasks, taskInfo, promise>>
    PROVE  (UNCHANGED Service!svars) /\ SlotsAreUsed'
<1>1. Active' = Active
    BY DEF Active, Holders
<1> QED
    BY <1>1 DEF Service!svars, SInv, SlotsAreUsed, Active

LEMMA NextRefines ==
    ASSUME SInv, [Next]_vars
    PROVE  [Service!Next]_Service!svars /\ SlotsAreUsed'
<1>1. ASSUME NEW t \in Tasks, Submit(t) PROVE Service!Next /\ SlotsAreUsed'
    BY <1>1, SubmitRefines DEF Service!Next
<1>2. ASSUME NEW w \in Workers, NEW e \in outbox[w], HandleMessage(w, e)
      PROVE  Service!Next /\ SlotsAreUsed'
  <2>1. TypeOK /\ taskInfo[w] # None
      BY <1>2 DEF SInv, IInv, HandleMessage
  <2>2. taskInfo[w] \in Tasks
      BY <2>1 DEF TypeOK, Maybe
  <2> DEFINE info == [taskInfo EXCEPT ![w] = None]
  <2>3. /\ info \in [Workers -> Maybe] /\ info[w] = None
        /\ \A u \in Workers : u # w => info[u] = taskInfo[u]
      BY <2>1 DEF TypeOK, Maybe
  <2>4. /\ Freed(w, info)
        /\ promise' = [promise EXCEPT ![taskInfo[w]] = [state |-> "resolved", by |-> e.task]]
      BY <1>2 DEF HandleMessage, Done, Forget
  <2> HIDE DEF info
  <2>5. Service!Finish(taskInfo[w], "resolved") /\ SlotsAreUsed'
      BY <2>1, <2>3, <2>4, SettleRefines
  <2> QED
      BY <2>2, <2>5 DEF Service!Next
<1>3. ASSUME NEW w \in Workers, NEW e \in outbox[w], NEW n \in Workers, HandleError(w, e, n)
      PROVE  Service!Next /\ SlotsAreUsed'
  <2>1. TypeOK /\ taskInfo[w] # None /\ taskInfo[n] = None
      BY <1>3 DEF SInv, IInv, HandleError, UnbornAreBlank
  <2>2. taskInfo[w] \in Tasks /\ taskInfo \in [Workers -> Maybe]
      BY <2>1 DEF TypeOK, Maybe
  <2>3. /\ Freed(n, taskInfo)
        /\ promise' = [promise EXCEPT ![taskInfo[w]] = [state |-> "rejected", by |-> e.task]]
      BY <1>3 DEF HandleError, Done
  <2>4. Service!Finish(taskInfo[w], "rejected") /\ SlotsAreUsed'
      BY <2>1, <2>2, <2>3, SettleRefines
  <2> QED
      BY <2>2, <2>4 DEF Service!Next
<1>4. ASSUME UNCHANGED <<freeWorkers, tasks, taskInfo, promise>>
      PROVE  [Service!Next]_Service!svars /\ SlotsAreUsed'
    BY <1>4, StutterRefines
<1>5. ASSUME NEW w \in Workers, NEW e \in outbox[w], HandleIdleError(w, e)
      PROVE  UNCHANGED <<freeWorkers, tasks, taskInfo, promise>>
    BY <1>5 DEF HandleIdleError
<1>6. ASSUME NEW w \in Workers, Work(w) PROVE UNCHANGED <<freeWorkers, tasks, taskInfo, promise>>
    BY <1>6 DEF Work, ThreadStart, ThreadStartFails, Take, Answer, Fail, mainVars
<1>7. CASE Close \/ UNCHANGED vars
    BY <1>4, <1>7 DEF Close, vars
<1> QED
    BY <1>1, <1>2, <1>3, <1>4, <1>5, <1>6, <1>7 DEF Next, Handle

-----------------------------------------------------------------------------
\* No more tasks are active than the constructor made workers, and none waits
\* while a slot is free (runTask and the listener of kWorkerFreedEvent).
THEOREM SlotsInvariant == Spec => []SInv
<1>1. Init => SInv
    BY InitInv, InitSlots DEF SInv
<1>2. SInv /\ [Next]_vars => SInv'
    BY NextInv, NextRefines DEF SInv
<1> QED
    BY <1>1, <1>2, PTL DEF Spec

\* The pool implements the service: first come first served, at most as many
\* tasks at a time as workers were made, each settled once, after it started.
THEOREM Implements == Spec => ImplementsService
<1>1. Init => Service!Init
  <2> SUFFICES ASSUME Init PROVE Service!Init
      OBVIOUS
  <2>1. Active = {} /\ tasks = <<>> /\ [t \in Tasks |-> promise[t].state] = [t \in Tasks |-> "none"]
      BY DEF Init, Active
  <2> QED
      BY <2>1 DEF Service!Init, Active
<1>2. SInv /\ [Next]_vars => [Service!Next]_Service!svars
    BY NextRefines
<1> QED
    BY <1>1, <1>2, SlotsInvariant, PTL DEF Spec, ImplementsService, Service!Spec

-----------------------------------------------------------------------------
(* No wake-up is lost: the safety half of Settles.                         *)

Holds(w, t) == taskInfo[w] = t /\ promise[t].state = "pending"

\* Something is still to happen to w's task without anybody else's help: w's
\* thread has it and lives, or the main thread has an event of w to handle.
Stirs(w) ==
    \/ thread[w] \in {"starting", "online"} /\ inbox[w] # {}
    \/ thread[w] = "online" /\ running[w] # {}
    \/ outbox[w] # {}

Running == main = "running" /\ ~closed

\* The pool lists every worker it may use: the free ones, and those alive.
UsableAreListed ==
    ~closed => /\ \A i \in 1 .. Len(freeWorkers) : freeWorkers[i] \in workers
               /\ \A w \in Workers : thread[w] \in {"starting", "online"} => w \in workers

HoldersStir == Running => \A w \in Workers, t \in Tasks : Holds(w, t) => Stirs(w)

\* A pending task is not forgotten: its own worker stirs, or it is queued
\* behind a task whose worker does, which hands its place on (lines 43-51).
NobodyWaitsInVain ==
    Running => \A t \in Tasks : promise[t].state = "pending" =>
        \E w \in Workers :
            /\ Stirs(w)
            /\ Holds(w, t) \/ (Places(t) # {} /\ \E u \in Tasks : Holds(w, u))

StirInv == UsableAreListed /\ HoldersStir

LEMMA InitStirs == Init => StirInv
<1> SUFFICES ASSUME Init PROVE StirInv
    OBVIOUS
<1>1. \A i \in 1 .. Len(Initial) : Initial[i] \in Workers
    BY PoolAssumption, ElementOfSeq
<1>2. UsableAreListed
    BY <1>1 DEF Init, UsableAreListed
<1>3. \A w \in Workers : taskInfo[w] = None
    BY DEF Init
<1>4. HoldersStir
    BY <1>3, PoolAssumption DEF HoldersStir, Holds
<1> QED
    BY <1>2, <1>4 DEF StirInv

\* A free worker gets a task: it lives, or its death has still to be told.
LEMMA SubmitStirs ==
    ASSUME LiveInv, StirInv, NEW t \in Tasks, Submit(t) PROVE StirInv'
<1>1. /\ TypeOK /\ HeldOnce /\ promise[t].state = "none"
      /\ UNCHANGED <<main, closed, workers, thread, running, outbox>>
      /\ \A u \in Tasks : u # t => promise'[u] = promise[u]
    BY DEF LiveInv, IInv, Submit, TypeOK
<1>2. CASE freeWorkers = <<>>
  <2>1. UNCHANGED <<freeWorkers, taskInfo, inbox>>
      BY <1>2 DEF Submit
  <2>2. \A w \in Workers : taskInfo[w] # t
      BY <1>1, PoolAssumption DEF HeldOnce
  <2> QED
      BY <1>1, <2>1, <2>2
      DEF StirInv, UsableAreListed, HoldersStir, Running, Holds, Stirs
<1>3. CASE freeWorkers # <<>>
  <2>0. /\ freeWorkers \in Seq(Workers) /\ freeWorkers # <<>>
        /\ freeWorkers' = SubSeq(freeWorkers, 1, Len(freeWorkers) - 1)
      BY <1>1, <1>3 DEF TypeOK, Submit, PopFree
  <2> PICK n \in Nat \ {0} : n = Len(freeWorkers)
      BY <2>0, PopFacts
  <2> PICK v \in Workers : v = freeWorkers[n]
      BY <2>0, PopFacts
  <2>1. /\ taskInfo' = [taskInfo EXCEPT ![v] = t]
        /\ inbox' = [inbox EXCEPT ![v] = inbox[v] \cup {t}]
      BY <1>3 DEF Submit, PostTo
  <2>2. /\ Len(freeWorkers') = n - 1
        /\ \A i \in 1 .. n - 1 : freeWorkers'[i] = freeWorkers[i]
      BY <2>0, PopFacts
  <2>3. thread[v] # "unborn" /\ (~closed => v \in workers)
      BY <2>2 DEF LiveInv, IInv, FreeAreIdle, StirInv, UsableAreListed
  <2>4. UsableAreListed'
      BY <1>1, <2>2 DEF StirInv, UsableAreListed
  <2>5. /\ taskInfo'[v] = t /\ inbox'[v] # {}
        /\ \A u \in Workers : u # v => taskInfo'[u] = taskInfo[u] /\ inbox'[u] = inbox[u]
      BY <1>1, <2>1, <2>2 DEF TypeOK
  <2>6. Running => Stirs(v)'
    <3>1. Running => thread[v] \in {"starting", "online"} \/ outbox[v] # {}
        BY <1>1, <2>2, <2>3 DEF LiveInv, DeadIsReplaced, Running, TypeOK
    <3> QED
        BY <1>1, <2>5, <3>1 DEF Stirs
  <2>7. HoldersStir'
    <3> SUFFICES ASSUME Running, NEW u \in Workers, NEW s \in Tasks, Holds(u, s)'
                 PROVE  Stirs(u)'
        BY <1>1 DEF HoldersStir, Running
    <3>1. CASE u = v
        BY <2>6, <3>1
    <3>2. CASE u # v
      <4>1. taskInfo[u] = s /\ s # t
          BY <1>1, <2>5, <3>2, PoolAssumption DEF Holds, HeldOnce
      <4>2. Stirs(u)
          BY <1>1, <4>1 DEF StirInv, HoldersStir, Holds
      <4> QED
          BY <1>1, <2>5, <3>2, <4>2 DEF Stirs
    <3> QED
        BY <3>1, <3>2
  <2> QED
      BY <2>4, <2>7 DEF StirInv
<1> QED
    BY <1>2, <1>3

\* Both listeners settle v's task and free x, which lives: the task x gets, if
\* one waits, finds a thread.
LEMMA FreedStirs ==
    ASSUME LiveInv, StirInv, UsableAreListed',
           NEW v \in Workers, NEW x \in Workers, NEW e \in outbox[v],
           NEW info \in [Workers -> Maybe], NEW how \in {"resolved", "rejected"},
           taskInfo[v] # None,
           promise' = [promise EXCEPT ![taskInfo[v]] = [state |-> how, by |-> e.task]],
           outbox' = [outbox EXCEPT ![v] = @ \ {e}],
           UNCHANGED <<main, closed, running>>,
           Freed(x, info),
           Running => thread'[x] \in {"starting", "online"},
           info[x] = None, \A u \in Workers : u # v => info[u] = taskInfo[u],
           info[v] \in {None, taskInfo[v]},
           \A u \in Workers : u # x => thread'[u] = thread[u]
    PROVE  StirInv'
<1>1. TypeOK /\ HeldOnce /\ taskInfo[v] \in Tasks
    BY DEF LiveInv, IInv, TypeOK, Maybe
<1>2. /\ promise'[taskInfo[v]].state # "pending"
      /\ \A u \in Tasks : u # taskInfo[v] => promise'[u] = promise[u]
      /\ \A u \in Workers : u # v => outbox'[u] = outbox[u]
    BY <1>1 DEF TypeOK
<1>3. /\ \A u \in Workers : u # x => taskInfo'[u] = info[u] /\ inbox'[u] = inbox[u]
      /\ taskInfo'[x] = None \/ inbox'[x] # {}
  <2>1. CASE tasks = <<>>
      BY <2>1 DEF Freed
  <2>2. CASE tasks # <<>>
    <3>1. /\ taskInfo' = [info EXCEPT ![x] = Head(tasks)]
          /\ inbox' = [inbox EXCEPT ![x] = inbox[x] \cup {Head(tasks)}]
        BY <2>2 DEF Freed, PostTo, Oldest
    <3>2. Head(tasks) \in inbox'[x]
        BY <1>1, <3>1 DEF TypeOK
    <3> QED
        BY <1>1, <3>1, <3>2 DEF TypeOK
  <2> QED
      BY <2>1, <2>2
<1>4. HoldersStir'
  <2> SUFFICES ASSUME Running, NEW u \in Workers, NEW s \in Tasks, Holds(u, s)'
               PROVE  Stirs(u)'
      BY DEF HoldersStir, Running
  <2>1. s # None
      BY PoolAssumption
  <2>2. CASE u = x
      BY <1>3, <2>1, <2>2 DEF Holds, Stirs
  <2>3. CASE u # x
    <3>1. u # v /\ taskInfo[u] = s
        BY <1>2, <1>3, <2>1, <2>3 DEF Holds
    <3>2. s # taskInfo[v]
        BY <1>1, <2>1, <3>1 DEF HeldOnce
    <3>3. Stirs(u)
        BY <1>2, <3>1, <3>2 DEF StirInv, HoldersStir, Holds
    <3> QED
        BY <1>2, <1>3, <2>3, <3>1, <3>3 DEF Stirs
  <2> QED
      BY <2>2, <2>3
<1> QED
    BY <1>4 DEF StirInv

LEMMA HandleStirs ==
    ASSUME HostCatches = FALSE, LiveInv, LiveInv', StirInv,
           NEW w \in Workers, Handle(w)
    PROVE  StirInv'
<1> PICK e \in outbox[w] :
        \/ HandleMessage(w, e)
        \/ \E n \in Workers : HandleError(w, e, n)
        \/ HandleIdleError(w, e)
    BY DEF Handle
<1>1. TypeOK /\ TypeOK' /\ MailIsCurrent /\ FreeAreIdle
    BY DEF LiveInv, IInv
<1>2. CASE HandleMessage(w, e)
  <2> PICK info \in [Workers -> Maybe] : info = [taskInfo EXCEPT ![w] = None]
      BY <1>1 DEF TypeOK, Maybe
  <2>1. /\ Freed(w, info) /\ taskInfo[w] # None
        /\ promise' = [promise EXCEPT ![taskInfo[w]] = [state |-> "resolved", by |-> e.task]]
        /\ outbox' = [outbox EXCEPT ![w] = @ \ {e}]
        /\ UNCHANGED <<main, closed, workers, thread, running>>
      BY <1>2 DEF HandleMessage, Done, Forget
  <2>2. ~closed => thread[w] = "online"
      BY <1>2 DEF HandleMessage, LiveInv, ResultsComeFromLiveThreads
  <2>3. UsableAreListed'
    <3>1. ~closed => w \in workers
        BY <2>2 DEF StirInv, UsableAreListed
    <3>2. CASE tasks = <<>>
      <4>1. freeWorkers' = Append(freeWorkers, w) /\ freeWorkers \in Seq(Workers)
          BY <1>1, <2>1, <3>2 DEF Freed, TypeOK
      <4>2. /\ Len(freeWorkers') = Len(freeWorkers) + 1 /\ Len(freeWorkers) \in Nat
            /\ freeWorkers'[Len(freeWorkers) + 1] = w
            /\ \A i \in 1 .. Len(freeWorkers) : freeWorkers'[i] = freeWorkers[i]
          BY <4>1, PushFacts
      <4> QED
          BY <2>1, <3>1, <4>2 DEF StirInv, UsableAreListed
    <3>3. CASE tasks # <<>>
        BY <2>1, <3>3 DEF Freed, StirInv, UsableAreListed
    <3> QED
        BY <3>2, <3>3
  <2>4. /\ info[w] = None /\ \A u \in Workers : u # w => info[u] = taskInfo[u]
        /\ Running => thread'[w] \in {"starting", "online"}
        /\ \A u \in Workers : u # w => thread'[u] = thread[u]
      BY <1>1, <2>1, <2>2 DEF TypeOK, Running
  <2> QED
      BY <2>1, <2>3, <2>4, FreedStirs
<1>3. ASSUME NEW n \in Workers, HandleError(w, e, n) PROVE StirInv'
  <2>1. /\ Freed(n, taskInfo) /\ taskInfo[w] # None /\ e.type = "error"
        /\ promise' = [promise EXCEPT ![taskInfo[w]] = [state |-> "rejected", by |-> e.task]]
        /\ outbox' = [outbox EXCEPT ![w] = @ \ {e}]
        /\ workers' = (workers \ {w}) \cup {n} /\ thread[n] = "unborn"
        /\ thread' = [thread EXCEPT ![n] = "starting"]
        /\ UNCHANGED <<main, closed, running>>
      BY <1>3 DEF HandleError, Done, Replace
  <2>2. /\ thread'[n] = "starting" /\ taskInfo[n] = None /\ thread[w] = "dead"
        /\ \A u \in Workers : u # n => thread'[u] = thread[u]
        /\ taskInfo \in [Workers -> Maybe]
      BY <1>1, <2>1 DEF TypeOK, LiveInv, IInv, UnbornAreBlank, MailIsCurrent
  <2>3. UsableAreListed'
    <3>1. \A i \in 1 .. Len(freeWorkers) : freeWorkers[i] # w
        BY <1>1, <2>1 DEF FreeAreIdle
    <3>2. \A u \in Workers : u # n /\ thread'[u] \in {"starting", "online"} => u # w
        BY <2>2
    <3>3. CASE tasks = <<>>
      <4>1. freeWorkers' = Append(freeWorkers, n) /\ freeWorkers \in Seq(Workers)
          BY <1>1, <2>1, <3>3 DEF Freed, TypeOK
      <4>2. /\ Len(freeWorkers') = Len(freeWorkers) + 1 /\ Len(freeWorkers) \in Nat
            /\ freeWorkers'[Len(freeWorkers) + 1] = n
            /\ \A i \in 1 .. Len(freeWorkers) : freeWorkers'[i] = freeWorkers[i]
          BY <4>1, PushFacts
      <4> QED
          BY <2>1, <2>2, <3>1, <3>2, <4>2 DEF StirInv, UsableAreListed
    <3>4. CASE tasks # <<>>
        BY <2>1, <2>2, <3>1, <3>2, <3>4 DEF Freed, StirInv, UsableAreListed
    <3> QED
        BY <3>3, <3>4
  <2> QED
      BY <2>1, <2>2, <2>3, FreedStirs
<1>4. CASE HandleIdleError(w, e)
  <2>1. main' = "crashed" /\ UNCHANGED <<closed, workers, freeWorkers, thread>>
      BY <1>4 DEF HandleIdleError
  <2> QED
      BY <2>1 DEF StirInv, UsableAreListed, HoldersStir, Running
<1> QED
    BY <1>2, <1>3, <1>4

\* A thread hands its task from the inbox to performTask and from there to an
\* event: it does not drop it on the way (src/worker-thread.ts).
LEMMA WorkStirs ==
    ASSUME LiveInv, StirInv, NEW w \in Workers, Work(w) PROVE StirInv'
<1>1. /\ TypeOK
      /\ UNCHANGED <<main, closed, workers, freeWorkers, taskInfo, promise>>
    BY DEF LiveInv, IInv, Work, ThreadStart, ThreadStartFails, Take, Answer, Fail, mainVars
<1>2. /\ thread[w] \in {"starting", "online"}
      /\ \A u \in Workers : u # w =>
            /\ thread'[u] = thread[u] /\ inbox'[u] = inbox[u]
            /\ running'[u] = running[u] /\ outbox'[u] = outbox[u]
    BY <1>1 DEF Work, ThreadStart, ThreadStartFails, Take, Answer, Fail, Raise, TypeOK
<1>3. Stirs(w) => Stirs(w)'
  <2>1. CASE ThreadStart(w)
      BY <1>1, <2>1 DEF ThreadStart, Stirs, TypeOK
  <2>2. CASE ThreadStartFails(w)
      BY <1>1, <2>2 DEF ThreadStartFails, Raise, Stirs, TypeOK
  <2>3. CASE \E t \in Tasks : Take(w, t)
      BY <1>1, <2>3 DEF Take, Stirs, TypeOK
  <2>4. CASE \E t \in Tasks : Answer(w, t)
      BY <1>1, <2>4 DEF Answer, Raise, Stirs, TypeOK
  <2>5. CASE \E t \in Tasks : Fail(w, t)
      BY <1>1, <2>5 DEF Fail, Raise, Stirs, TypeOK
  <2> QED
      BY <2>1, <2>2, <2>3, <2>4, <2>5 DEF Work
<1>4. \A u \in Workers : Stirs(u) => Stirs(u)'
    BY <1>2, <1>3 DEF Stirs
<1>5. HoldersStir'
    BY <1>1, <1>4 DEF StirInv, HoldersStir, Running, Holds
<1>6. UsableAreListed'
    BY <1>1, <1>2 DEF StirInv, UsableAreListed
<1> QED
    BY <1>5, <1>6 DEF StirInv

\* All the slots are taken when a task waits, by tasks that stir.
LEMMA QueueMoves ==
    ASSUME SInv, StirInv PROVE NobodyWaitsInVain
<1> SUFFICES ASSUME Running, NEW t \in Tasks, promise[t].state = "pending"
             PROVE  \E w \in Workers :
                        /\ Stirs(w)
                        /\ Holds(w, t) \/ (Places(t) # {} /\ \E u \in Tasks : Holds(w, u))
    BY DEF NobodyWaitsInVain
<1>1. TypeOK /\ HeldOnce /\ WorkConserving /\ SlotsAreUsed
    BY DEF SInv, IInv
<1>2. CASE \E w \in Workers : taskInfo[w] = t
    BY <1>2 DEF Holds, StirInv, HoldersStir
<1>3. CASE \E i \in 1 .. Len(tasks) : tasks[i] = t
  <2>1. Places(t) # {} /\ tasks # <<>>
      BY <1>3, EmptySeq DEF Places
  <2>2. Len(freeWorkers) = 0
      BY <1>1, <2>1, EmptySeq DEF WorkConserving
  <2>3. Cardinality(Active) # 0
      BY <1>1, <2>2, SlotFacts, PoolAssumption DEF SlotsAreUsed
  <2>4. Active # {}
      BY <2>3, FS_EmptySet
  <2> PICK u \in Tasks : promise[u].state = "pending" /\ Holders(u) # {}
      BY <2>4 DEF Active
  <2> PICK w \in Workers : taskInfo[w] = u
      BY DEF Holders
  <2>5. Holds(w, u)
      BY DEF Holds
  <2> QED
      BY <2>1, <2>5 DEF StirInv, HoldersStir
<1> QED
    BY <1>1, <1>2, <1>3 DEF HeldOnce

\* Under a host that exits on an uncaught exception no wake-up is lost, whatever
\* tasks fail and whatever threads die: from every state of an open pool, each
\* pending task is a step of a thread or of a listener (lines 58-81) away from
\* progress, which is all that the fairness of Settles has to supply.
THEOREM NoLostWakeUp ==
    ASSUME HostCatches = FALSE PROVE Spec => []NobodyWaitsInVain
<1>1. Init => StirInv
    BY InitStirs
<1>2. LiveInv /\ LiveInv' /\ StirInv /\ [Next]_vars => StirInv'
  <2> SUFFICES ASSUME LiveInv, LiveInv', StirInv, [Next]_vars PROVE StirInv'
      OBVIOUS
  <2>1. CASE Close
      BY <2>1 DEF Close, StirInv, UsableAreListed, HoldersStir, Running
  <2>2. CASE UNCHANGED vars
      BY <2>2 DEF vars, StirInv, UsableAreListed, HoldersStir, Running, Holds, Stirs
  <2> QED
      BY <2>1, <2>2, SubmitStirs, HandleStirs, WorkStirs DEF Next
<1>3. SInv /\ StirInv => NobodyWaitsInVain
    BY QueueMoves
<1> QED
    BY <1>1, <1>2, <1>3, LiveInvariant, SlotsInvariant, PTL DEF Spec

-----------------------------------------------------------------------------
(* What is left to do runs out: with NoLostWakeUp all of Settles, but for  *)
(* the fairness.                                                           *)

Unsettled == {t \in Tasks : promise[t].state = "pending"}

\* What a worker has still to go through: its script is loaded, its task taken
\* and run, and what it has to say heard.
Duty == {"load", "take", "run", "say"}
Has(w, d) ==
    \/ d = "load" /\ thread[w] = "starting"
    \/ d = "take" /\ inbox[w] # {}
    \/ d = "run" /\ (inbox[w] # {} \/ running[w] # {})
    \/ d = "say" /\ (thread[w] = "starting" \/ inbox[w] # {} \/ running[w] # {} \/ outbox[w] # {})

Duties == {p \in Workers \X Duty : Has(p[1], p[2])}

\* A step leaves fewer promises to be settled, or as many and less to go
\* through, or it closes the pool.
GetsOn ==
    /\ IsFiniteSet(Unsettled) /\ IsFiniteSet(Duties)
    /\ Unsettled' \subseteq Unsettled /\ (closed => closed')
    /\ \/ Unsettled' # Unsettled
       \/ Duties' \subseteq Duties /\ (Duties' # Duties \/ closed' # closed)

\* The workers that exist, and those of the list.
Born == {w \in Workers : thread[w] # "unborn"} \cup workers

FewInv == IInv /\ IsFiniteSet(Unsettled) /\ IsFiniteSet(Born)

LEMMA DutiesAreFinite == ASSUME FewInv PROVE IsFiniteSet(Duties)
<1>1. IsFiniteSet(Duty)
  <2>1. IsFiniteSet({"load"})
      BY FS_Singleton
  <2>2. IsFiniteSet({"load"} \cup {"take"})
      BY <2>1, FS_AddElement
  <2>3. IsFiniteSet(({"load"} \cup {"take"}) \cup {"run"})
      BY <2>2, FS_AddElement
  <2>4. IsFiniteSet((({"load"} \cup {"take"}) \cup {"run"}) \cup {"say"})
      BY <2>3, FS_AddElement
  <2>5. Duty = (({"load"} \cup {"take"}) \cup {"run"}) \cup {"say"}
      BY DEF Duty
  <2> QED
      BY <2>4, <2>5
<1>2. IsFiniteSet(Born \X Duty)
    BY <1>1, FS_Product DEF FewInv
<1>3. Duties \subseteq Born \X Duty
  <2> SUFFICES ASSUME NEW p \in Duties PROVE p[1] \in Born
      BY DEF Duties
  <2> PICK w \in Workers : w = p[1]
      BY DEF Duties
  <2>1. Has(w, p[2])
      BY DEF Duties
  <2>2. thread[w] # "unborn"
      BY <2>1 DEF Has, FewInv, IInv, UnbornAreBlank
  <2> QED
      BY <2>2 DEF Born
<1> QED
    BY <1>2, <1>3, FS_Subset

LEMMA InitFew == Init => FewInv
<1> SUFFICES ASSUME Init PROVE FewInv
    OBVIOUS
<1>1. IInv /\ Unsettled = {}
    BY InitInv DEF Init, Unsettled
<1> DEFINE made == {Initial[k] : k \in 1 .. Len(Initial)}
           f == [k \in 1 .. Len(Initial) |-> Initial[k]]
<1>2. Len(Initial) \in Nat
    BY PoolAssumption, LenProperties
<1>3. IsFiniteSet(1 .. Len(Initial))
    BY <1>2, FS_Interval
<1>4. f \in Surjection(1 .. Len(Initial), made)
    BY DEF Surjection
<1>5. IsFiniteSet(made)
    BY <1>3, <1>4, FS_Surjection
<1>6. Born = made
    BY PoolAssumption, ElementOfSeq DEF Init, Born
<1> QED
    BY <1>1, <1>5, <1>6, FS_EmptySet DEF FewInv

\* A worker has a duty less, and none gets one.
LEMMA OneDutyLess ==
    ASSUME NEW w \in Workers, NEW d \in Duty, Has(w, d), ~Has(w, d)',
           \A v \in Workers : \A k \in Duty : Has(v, k)' => Has(v, k)
    PROVE  Duties' \subseteq Duties /\ Duties' # Duties
<1> PICK p : p = <<w, d>>
    OBVIOUS
<1>1. p \in Workers \X Duty /\ p[1] = w /\ p[2] = d
    OBVIOUS
<1>2. p \in Duties /\ p \notin Duties'
    BY <1>1 DEF Duties
<1>3. Duties' \subseteq Duties
    BY DEF Duties
<1> QED
    BY <1>2, <1>3

\* What a worker with such a duty has in hand.
LEMMA WorkDoesADuty ==
    ASSUME IInv, NEW w \in Workers, Work(w)
    PROVE  Duties' \subseteq Duties /\ Duties' # Duties
<1>1. \A v \in Workers : v # w =>
            /\ thread'[v] = thread[v] /\ inbox'[v] = inbox[v]
            /\ running'[v] = running[v] /\ outbox'[v] = outbox[v]
    BY DEF Work, ThreadStart, ThreadStartFails, Take, Answer, Fail, Raise, IInv, TypeOK
<1>2. \A v \in Workers : v # w => \A d \in Duty : Has(v, d)' <=> Has(v, d)
    BY <1>1 DEF Has
<1>3. MailIsCurrent!(w)
    BY DEF IInv, MailIsCurrent
<1> SUFFICES \E d \in Duty : Has(w, d) /\ ~Has(w, d)' /\ \A k \in Duty : Has(w, k)' => Has(w, k)
    BY <1>2, OneDutyLess
<1> USE DEF Has, Duty
<1>4. CASE ThreadStart(w)
  <2>1. /\ thread[w] = "starting" /\ thread'[w] = "online"
        /\ inbox'[w] = inbox[w] /\ running'[w] = running[w] /\ outbox'[w] = outbox[w]
      BY <1>4 DEF ThreadStart, IInv, TypeOK
  <2>2. Has(w, "load") /\ ~Has(w, "load")' /\ \A k \in Duty : Has(w, k)' => Has(w, k)
      BY <2>1
  <2> QED
      BY <2>2
<1>5. CASE ThreadStartFails(w)
  <2>1. /\ thread[w] = "starting" /\ thread'[w] = "dead"
        /\ inbox'[w] = inbox[w] /\ running'[w] = running[w]
      BY <1>5 DEF ThreadStartFails, IInv, TypeOK
  <2>2. Has(w, "load") /\ ~Has(w, "load")' /\ \A k \in Duty : Has(w, k)' => Has(w, k)
      BY <2>1
  <2> QED
      BY <2>2
<1>6. ASSUME NEW t \in Tasks, Take(w, t)
      PROVE  \E d \in Duty : Has(w, d) /\ ~Has(w, d)' /\ \A k \in Duty : Has(w, k)' => Has(w, k)
  <2>1. /\ inbox[w] # {} /\ inbox'[w] = {}
        /\ thread'[w] = thread[w] /\ outbox'[w] = outbox[w]
      BY <1>3, <1>6 DEF Take, IInv, TypeOK
  <2>2. Has(w, "take") /\ ~Has(w, "take")' /\ \A k \in Duty : Has(w, k)' => Has(w, k)
      BY <2>1
  <2> QED
      BY <2>2
<1>7. ASSUME NEW t \in Tasks, Answer(w, t) \/ Fail(w, t)
      PROVE  \E d \in Duty : Has(w, d) /\ ~Has(w, d)' /\ \A k \in Duty : Has(w, k)' => Has(w, k)
  <2>1. /\ running[w] # {} /\ running'[w] = {} /\ inbox[w] = {} /\ inbox'[w] = {}
        /\ thread[w] = "online" /\ thread'[w] # "starting"
      BY <1>3, <1>7 DEF Answer, Fail, IInv, TypeOK
  <2>2. Has(w, "run") /\ ~Has(w, "run")' /\ \A k \in Duty : Has(w, k)' => Has(w, k)
      BY <2>1
  <2> QED
      BY <2>2
<1> QED
    BY <1>4, <1>5, <1>6, <1>7 DEF Work

\* A listener settles the promise of the worker's task, or throws for a worker
\* that has nothing else to say.
LEMMA HandleGetsOn ==
    ASSUME IInv, NEW w \in Workers, Handle(w)
    PROVE  /\ Unsettled' \subseteq Unsettled
           /\ \/ Unsettled' # Unsettled
              \/ Duties' \subseteq Duties /\ Duties' # Duties
           /\ closed' = closed
           /\ \E n \in Workers : Born' \subseteq Born \cup {n}
<1> PICK e \in outbox[w] :
        \/ HandleMessage(w, e)
        \/ \E n \in Workers : HandleError(w, e, n)
        \/ HandleIdleError(w, e)
    BY DEF Handle
<1>1. MailIsCurrent!(w) /\ HeldIsPending!(w)
    BY DEF IInv, MailIsCurrent, HeldIsPending
<1>2. ASSUME taskInfo[w] # None, NEW how \in {"resolved", "rejected"}, Done(w, how, e.task)
      PROVE  Unsettled' \subseteq Unsettled /\ Unsettled' # Unsettled
  <2> PICK t \in Tasks : t = taskInfo[w]
      BY <1>2 DEF IInv, TypeOK, Maybe
  <2>1. t \in Unsettled
      BY <1>1, <1>2 DEF Unsettled
  <2>2. promise'[t].state = how /\ \A u \in Tasks : u # t => promise'[u] = promise[u]
      BY <1>2 DEF Done, IInv, TypeOK
  <2>3. t \notin Unsettled'
      BY <2>2 DEF Unsettled
  <2>4. Unsettled' \subseteq Unsettled
      BY <2>2, <2>3 DEF Unsettled
  <2> QED
      BY <2>1, <2>3, <2>4
<1>3. CASE HandleMessage(w, e)
  <2>1. Unsettled' \subseteq Unsettled /\ Unsettled' # Unsettled
      BY <1>2, <1>3 DEF HandleMessage
  <2>2. closed' = closed /\ Born' = Born
      BY <1>3 DEF HandleMessage, Born
  <2> QED
      BY <2>1, <2>2
<1>4. ASSUME NEW n \in Workers, HandleError(w, e, n)
      PROVE  /\ Unsettled' \subseteq Unsettled /\ Unsettled' # Unsettled
             /\ closed' = closed /\ Born' \subseteq Born \cup {n}
  <2>1. Unsettled' \subseteq Unsettled /\ Unsettled' # Unsettled
      BY <1>2, <1>4 DEF HandleError
  <2>2. closed' = closed /\ Born' \subseteq Born \cup {n}
      BY <1>4 DEF HandleError, Replace, Born, IInv, TypeOK
  <2> QED
      BY <2>1, <2>2
<1>5. CASE HandleIdleError(w, e)
  <2>1. UNCHANGED <<promise, closed, workers, thread, inbox, running>>
      BY <1>5 DEF HandleIdleError
  <2>2. Unsettled' = Unsettled /\ Born' = Born
      BY <2>1 DEF Unsettled, Born
  <2>3. /\ outbox[w] = {e} /\ thread[w] = "dead"
        /\ inbox[w] = {} /\ running[w] = {}
    <3>1. taskInfo[w] = None /\ e.type = "error"
        BY <1>5 DEF HandleIdleError
    <3>2. inbox[w] \subseteq Tasks /\ running[w] \subseteq Tasks
        BY DEF IInv, TypeOK
    <3> QED
        BY <1>1, <3>1, <3>2, PoolAssumption
  <2>4. outbox'[w] = {} /\ \A v \in Workers : v # w => outbox'[v] = outbox[v]
      BY <1>5, <2>3 DEF HandleIdleError, IInv, TypeOK
  <2>5. Has(w, "say") /\ ~Has(w, "say")' /\ "say" \in Duty
      BY <2>1, <2>3, <2>4 DEF Has, Duty
  <2>6. \A v \in Workers : \A k \in Duty : Has(v, k)' => Has(v, k)
      BY <2>1, <2>3, <2>4 DEF Has
  <2>7. Duties' \subseteq Duties /\ Duties' # Duties
      BY <2>5, <2>6, OneDutyLess
  <2> QED
      BY <2>1, <2>2, <2>7
<1> QED
    BY <1>3, <1>4, <1>5

LEMMA SubmitFew ==
    ASSUME FewInv, NEW t \in Tasks, Submit(t)
    PROVE  IsFiniteSet(Unsettled') /\ IsFiniteSet(Born')
<1>1. Unsettled' \subseteq Unsettled \cup {t}
    BY DEF Submit, Unsettled, FewInv, IInv, TypeOK
<1>2. IsFiniteSet(Unsettled \cup {t})
    BY FS_AddElement DEF FewInv
<1>3. Born' = Born
    BY DEF Submit, Born
<1> QED
    BY <1>1, <1>2, <1>3, FS_Subset DEF FewInv

LEMMA CloseGetsOn ==
    ASSUME IInv, Close
    PROVE  /\ Unsettled' = Unsettled /\ Duties' \subseteq Duties
           /\ closed' # closed /\ (closed => closed') /\ Born' \subseteq Born
<1>1. /\ UNCHANGED <<promise, workers, outbox>> /\ ~closed /\ closed'
      /\ \A w \in Workers : /\ thread'[w] # thread[w] => w \in workers /\ thread'[w] = "dead"
                            /\ inbox'[w] \in {inbox[w], {}} /\ running'[w] \in {running[w], {}}
    BY DEF Close
<1>2. ASSUME NEW w \in Workers, NEW d \in Duty, Has(w, d)' PROVE Has(w, d)
    BY <1>1, <1>2 DEF Has
<1>3. Duties' \subseteq Duties
    BY <1>2 DEF Duties
<1>4. Unsettled' = Unsettled /\ Born' \subseteq Born
    BY <1>1 DEF Unsettled, Born
<1> QED
    BY <1>1, <1>3, <1>4

LEMMA NextFew ==
    ASSUME FewInv, Next
    PROVE  FewInv' /\ (GetsOn \/ \E t \in Tasks : Submit(t))
<1>1. IInv /\ IInv' /\ IsFiniteSet(Unsettled) /\ IsFiniteSet(Born) /\ IsFiniteSet(Duties)
    BY NextInv, DutiesAreFinite DEF FewInv
<1>2. ASSUME NEW t \in Tasks, Submit(t) PROVE FewInv'
    BY <1>1, <1>2, SubmitFew DEF FewInv
<1>3. ASSUME Close PROVE FewInv' /\ GetsOn
  <2>1. IsFiniteSet(Unsettled') /\ IsFiniteSet(Born')
      BY <1>1, <1>3, CloseGetsOn, FS_Subset
  <2> QED
      BY <1>1, <1>3, <2>1, CloseGetsOn DEF FewInv, GetsOn
<1>4. ASSUME NEW w \in Workers, Handle(w) PROVE FewInv' /\ GetsOn
  <2> PICK n \in Workers : Born' \subseteq Born \cup {n}
      BY <1>1, <1>4, HandleGetsOn
  <2>1. Unsettled' \subseteq Unsettled /\ closed' = closed
      BY <1>1, <1>4, HandleGetsOn
  <2>2. IsFiniteSet(Unsettled')
      BY <1>1, <2>1, FS_Subset
  <2>3. IsFiniteSet(Born \cup {n})
      BY <1>1, FS_AddElement
  <2>4. IsFiniteSet(Born')
      BY <2>3, FS_Subset
  <2> QED
      BY <1>1, <1>4, <2>1, <2>2, <2>4, HandleGetsOn DEF FewInv, GetsOn
<1>5. ASSUME NEW w \in Workers, Work(w) PROVE FewInv' /\ GetsOn
  <2>1. UNCHANGED <<promise, closed, workers>>
      BY <1>5 DEF Work, ThreadStart, ThreadStartFails, Take, Answer, Fail, mainVars
  <2>2. \A v \in Workers : thread[v] = "unborn" => thread'[v] = "unborn"
      BY <1>1, <1>5 DEF Work, ThreadStart, ThreadStartFails, Take, Answer, Fail, IInv, TypeOK
  <2>3. Unsettled' = Unsettled /\ Born' \subseteq Born
      BY <2>1, <2>2 DEF Unsettled, Born
  <2>4. IsFiniteSet(Born')
      BY <1>1, <2>3, FS_Subset
  <2>5. Duties' \subseteq Duties /\ Duties' # Duties
      BY <1>1, <1>5, WorkDoesADuty
  <2> QED
      BY <1>1, <2>1, <2>3, <2>4, <2>5 DEF FewInv, GetsOn
<1> QED
    BY <1>2, <1>3, <1>4, <1>5 DEF Next

\* Every step of the pool but a client's runTask gets on, for any tasks and
\* workers: a promise is settled, for good, or the workers have less to go
\* through before the next one is (lines 58-81, and worker-thread.ts).  No thread
\* or listener is busy for ever without settling a task; it could be if a task
\* that failed were posted to the worker that replaces the dead one.
THEOREM WorkRunsOut == Spec => [][GetsOn \/ \E t \in Tasks : Submit(t)]_vars
<1>1. Init => FewInv
    BY InitFew
<1>2. FewInv /\ [Next]_vars => FewInv'
  <2>1. FewInv /\ UNCHANGED vars => FewInv'
    <3>1. IInv /\ UNCHANGED vars => IInv'
        BY NextInv
    <3> QED
        BY <3>1 DEF vars, FewInv, Unsettled, Born
  <2> QED
      BY <2>1, NextFew
<1>3. FewInv /\ [Next]_vars => [GetsOn \/ \E t \in Tasks : Submit(t)]_vars
    BY NextFew
<1> QED
    BY <1>1, <1>2, <1>3, PTL DEF Spec
=============================================================================
