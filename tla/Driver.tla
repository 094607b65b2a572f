------------------------------- MODULE Driver -------------------------------
(***************************************************************************)
(* The command line driver (src/driver.ts): it builds a list of jungles, a *)
(* few at a time (promiseAll, src/util.ts), each for one product after     *)
(* the other, and runs what it built in the one simulator.                 *)
(*                                                                         *)
(* A build is a chain of steps that use the worker pool of the process,    *)
(* each in its own way:                                                    *)
(*  - the driver itself starts a pool when it works on several jungles,    *)
(*    and stops it at the end;                                             *)
(*  - generateOptimizedProject (src/optimizer.ts), when it does not run in *)
(*    a worker, starts a pool for the configurations of a project and      *)
(*    stops it if it was the one that started it;                          *)
(*  - optimizePackage (src/readprg.ts) starts a pool for the programs of a *)
(*    package, and stops it.                                               *)
(* There is at most one pool (TaskService says what it does for a task);   *)
(* stopping it stops its threads, and their tasks are never heard of again.*)
(*                                                                         *)
(* A unit <<j, k>> is the build of jungle j for its k-th product.          *)
(***************************************************************************)
EXTENDS Naturals, Sequences, FiniteSets

CONSTANT
    Jobs  \* what the driver may be called for: jungles (a sequence of Jungle),
          \* parallelism, and profile (the profiler is on: no pool for the driver)

\* A jungle that is built: for how many products, of how many configurations,
\* and whether it is run, exported, and may fail.
Jungle == [products : Nat \ {0}, configs : Nat, simulates : BOOLEAN,
           exports : BOOLEAN, mayFail : BOOLEAN]

ASSUME DriverAssumption ==
    \A job \in Jobs : /\ job.jungles \in Seq(Jungle)
                      /\ job.parallelism \in Nat \ {0}
                      /\ job.profile \in BOOLEAN

UnitsOf(job) ==
    UNION {{<<j, k>> : k \in 1 .. job.jungles[j].products} : j \in DOMAIN job.jungles}

VARIABLES
    call,      \* the job the driver was called for
    i,         \* i of promiseAll: the next index
    slots,     \* what each of its chains works on: a unit, or Idle, or Ended
    stage,     \* where the build of each unit is
    failures,  \* failures: the units that failed
    tasks,     \* the tasks that did not settle: [unit, n, on]
    rejected,  \* the units one of whose tasks failed
    pool,      \* pool: the number of the pool, or NoPool
    pools,     \* how many pools were started
    started,   \* poolStarted: the projects that started the pool they use
    after,     \* the simulator run each unit waits for
    lastSim,   \* serializeSim.promise: the last run that was asked for
    over       \* promiseAll settled

vars == <<call, i, slots, stage, failures, tasks, rejected, pool, pools, started,
          after, lastSim, over>>
buildVars == <<call, i, slots, failures, over>>
taskVars == <<tasks, rejected>>
poolVars == <<pool, pools, started>>
simVars == <<after, lastSim>>

Jungles == call.jungles
Units == UnitsOf(call)
J(u) == Jungles[u[1]]

Main == 0     \* the main thread, where tasks run when there is no pool
NoPool == 0
NoUnit == <<>>
Idle == <<>>
Ended == <<0>>

\* startPool, for the statements that call it.
StartPool ==
    IF pool = NoPool THEN pool' = pools + 1 /\ pools' = pools + 1
                     ELSE UNCHANGED <<pool, pools>>
StopPool == pool' = NoPool /\ UNCHANGED pools

\* runTaskInPool.
Submit(u, n) ==
    tasks' = tasks \cup {[unit |-> u, n |-> m, on |-> IF pool = NoPool THEN Main ELSE pool] : m \in 1 .. n}

Pending(u) == {t \in tasks : t.unit = u}
Goto(u, s) == stage' = [stage EXCEPT ![u] = s]

\* The driver starts a pool if it works on several jungles at a time.
FirstPool == IF call.parallelism > 1 /\ ~call.profile THEN 1 ELSE NoPool

Init ==
    /\ call \in Jobs
    /\ i = 0
    /\ slots = [s \in 1 .. call.parallelism |-> Idle]
    /\ stage = [u \in Units |-> "none"]
    /\ failures = {}
    /\ tasks = {}
    /\ rejected = {}
    /\ pool = FirstPool
    /\ pools = FirstPool
    /\ started = {}
    /\ after = [u \in Units |-> NoUnit]
    /\ lastSim = NoUnit
    /\ over = FALSE

-----------------------------------------------------------------------------
(* promiseAll, and the products of a jungle.                               *)

\* next: a chain takes the next index, or ends.  Mutant: the index is advanced
\* for the chain and again for what it takes.
AdvanceTwice == i + 2
Advance == i + 1

TakeJungle(s) ==
    /\ slots[s] = Idle
    /\ i' = Advance
    /\ IF i < Len(Jungles)
       THEN slots' = [slots EXCEPT ![s] = <<i + 1, 1>>] /\ Goto(<<i + 1, 1>>, "generate")
       ELSE slots' = [slots EXCEPT ![s] = Ended] /\ UNCHANGED stage
    /\ UNCHANGED <<call, failures, over, taskVars, poolVars, simVars>>

\* runOne catches its own failure: the next product is built all the same.
\* Mutant: it is not.
NextProductIfWell(s) ==
    LET u == slots[s] IN u[2] < J(u).products /\ u \notin failures
NextProduct(s) ==
    LET u == slots[s] IN u[2] < J(u).products

GoOn(s) ==
    /\ slots[s] \in Units /\ stage[slots[s]] = "done"
    /\ LET u == slots[s]
       IN  IF NextProduct(s)
           THEN /\ slots' = [slots EXCEPT ![s] = <<u[1], u[2] + 1>>]
                /\ Goto(<<u[1], u[2] + 1>>, "generate")
           ELSE slots' = [slots EXCEPT ![s] = Idle] /\ UNCHANGED stage
    /\ UNCHANGED <<call, i, failures, over, taskVars, poolVars, simVars>>

\* The driver stops the pool when all chains ended.
Finish ==
    /\ ~over
    /\ \A s \in DOMAIN slots : slots[s] = Ended
    /\ over' = TRUE
    /\ StopPool
    /\ UNCHANGED <<call, i, slots, stage, failures, taskVars, started, simVars>>

-----------------------------------------------------------------------------
(* The steps of a build.                                                   *)

Fail(u) == Goto(u, "done") /\ failures' = failures \cup {u}

\* A task settles where its thread is alive.
Settle(t) ==
    /\ t.on \in {Main, pool}
    /\ tasks' = tasks \ {t}
    /\ \/ UNCHANGED rejected
       \/ J(t.unit).mayFail /\ rejected' = rejected \cup {t.unit}
    /\ UNCHANGED <<buildVars, stage, poolVars, simVars>>

\* runTaskInPool hands the project to a worker, or works on it right here.
Generate(u) ==
    /\ stage[u] = "generate"
    /\ IF pool # NoPool THEN Submit(u, 1) /\ Goto(u, "generating")
                      ELSE Goto(u, "configure") /\ UNCHANGED tasks
    /\ UNCHANGED <<buildVars, rejected, poolVars, simVars>>

\* generateOptimizedProject: startPool for several configurations, then a task
\* for each.
Configure(u) ==
    /\ stage[u] = "configure"
    /\ IF J(u).configs > 1 THEN StartPool ELSE UNCHANGED <<pool, pools>>
    /\ started' = IF pool' # pool THEN started \cup {u} ELSE started
    /\ tasks' = tasks \cup {[unit |-> u, n |-> m, on |-> IF pool' = NoPool THEN Main ELSE pool'] :
                                m \in 1 .. J(u).configs}
    /\ Goto(u, "generating")
    /\ UNCHANGED <<buildVars, rejected, simVars>>

\* It waits for all of them, or for the first failure, and stops the pool it
\* started.  Mutant: it stops any.
StopAny(u) == TRUE
StopOwn(u) == u \in started

Generated(u) ==
    /\ stage[u] = "generating"
    /\ u \in rejected \/ Pending(u) = {}
    /\ IF StopOwn(u) THEN StopPool ELSE UNCHANGED <<pool, pools>>
    /\ started' = started \ {u}
    /\ IF u \in rejected THEN Fail(u) ELSE Goto(u, "compile") /\ UNCHANGED failures
    /\ UNCHANGED <<call, i, slots, over, taskVars, simVars>>

\* The compiler (an external program) succeeds, or not.
Compile(u) ==
    /\ stage[u] = "compile"
    /\ \/ Goto(u, IF J(u).exports THEN "optimize"
                  ELSE IF J(u).simulates THEN "ask" ELSE "done") /\ UNCHANGED failures
       \/ J(u).mayFail /\ Fail(u)
    /\ UNCHANGED <<call, i, slots, over, taskVars, poolVars, simVars>>

\* optimizePackage: the pool is started before the package is unpacked, and
\* used as its programs turn up.
OptimizePackage(u) ==
    /\ stage[u] = "optimize"
    /\ StartPool
    /\ Goto(u, "unpack")
    /\ UNCHANGED <<buildVars, taskVars, started, simVars>>
Unpack(u) ==
    /\ stage[u] = "unpack"
    /\ Submit(u, 2)
    /\ Goto(u, "optimizing")
    /\ UNCHANGED <<buildVars, rejected, poolVars, simVars>>
Optimized(u) ==
    /\ stage[u] = "optimizing"
    /\ u \in rejected \/ Pending(u) = {}
    /\ StopPool
    /\ IF u \in rejected THEN Fail(u) ELSE Goto(u, "done") /\ UNCHANGED failures
    /\ UNCHANGED <<call, i, slots, over, taskVars, started, simVars>>

-----------------------------------------------------------------------------
(* The simulator.                                                          *)

\* serializeSim: the run waits for the last one that was asked for, and is the
\* one the next waits for.  Mutant: it is not noted.
AskAlone(u) == after' = [after EXCEPT ![u] = lastSim] /\ UNCHANGED lastSim
Ask(u) == after' = [after EXCEPT ![u] = lastSim] /\ lastSim' = u

AskSimulator(u) ==
    /\ stage[u] = "ask"
    /\ Ask(u)
    /\ Goto(u, "waiting")
    /\ UNCHANGED <<buildVars, taskVars, poolVars>>

\* Runs that failed count as well (serializeSim swallows the failure).
\* Mutant: the next waits for ever.
AfterSuccess(u) == after[u] # NoUnit => stage[after[u]] = "done" /\ after[u] \notin failures
AfterAnyRun(u) == after[u] # NoUnit => stage[after[u]] = "done"

Simulate(u) ==
    /\ stage[u] = "waiting"
    /\ AfterAnyRun(u)
    /\ Goto(u, "simulating")
    /\ UNCHANGED <<buildVars, taskVars, poolVars, simVars>>

\* TestRun: in the end there is a verdict.
Simulated(u) ==
    /\ stage[u] = "simulating"
    /\ \/ Goto(u, "done") /\ UNCHANGED failures
       \/ J(u).mayFail /\ Fail(u)
    /\ UNCHANGED <<call, i, slots, over, taskVars, poolVars, simVars>>

-----------------------------------------------------------------------------
Step(u) == \/ Generate(u) \/ Configure(u) \/ Generated(u) \/ Compile(u)
           \/ OptimizePackage(u) \/ Unpack(u) \/ Optimized(u)
           \/ AskSimulator(u) \/ Simulate(u) \/ Simulated(u)

Next == \/ \E s \in DOMAIN slots : TakeJungle(s) \/ GoOn(s)
        \/ \E u \in Units : Step(u)
        \/ \E t \in tasks : Settle(t)
        \/ Finish

\* The event loop runs what is ready; workers, compiler and simulator answer.
Fairness ==
    /\ \A s \in UNION {1 .. job.parallelism : job \in Jobs} :
        WF_vars(s \in DOMAIN slots /\ (TakeJungle(s) \/ GoOn(s)))
    /\ \A u \in UNION {UnitsOf(job) : job \in Jobs} :
        /\ WF_vars(u \in Units /\ Step(u))
        /\ WF_vars(\E t \in Pending(u) : Settle(t))
    /\ WF_vars(Finish)

Spec == Init /\ [][Next]_vars /\ Fairness

-----------------------------------------------------------------------------
(* Properties.                                                             *)

\* A build that waits for a task waits for a thread that is alive: nobody
\* stops the pool while another one uses it.
NobodyStranded ==
    \A t \in tasks :
        stage[t.unit] \in {"generating", "optimizing"} /\ t.unit \notin rejected
            => t.on \in {Main, pool}

\* One program at a time runs in the simulator.
OneSimulator == Cardinality({u \in Units : stage[u] = "simulating"}) <= 1

\* The products of a jungle are built one after the other, and all jungles for
\* all products, whatever fails on the way.
AllBuilt ==
    /\ \A u, v \in Units : u[1] = v[1] /\ u[2] < v[2] /\ stage[v] # "none" => stage[u] = "done"
    /\ over => \A u \in Units : stage[u] = "done"

\* The driver comes to an end.
Finishes == <>over
=============================================================================
