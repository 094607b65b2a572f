# Verification of monkeyc-optimizer

TLA+ models of the optimizer of Garmin's Monkey C (`src/src/*.ts`), the TLC runs that check them and the TLAPS proofs about
them. Line numbers below are those of the files under `src/src/`.

Contents: [the system](#the-system) · [the plan](#the-plan) · [modules](#modules-and-the-code-they-model) ·
[runs](#runs) · [proofs](#proofs) · [disagreements](#where-the-code-and-its-documents-disagree) ·
[what is left out](#what-is-not-modelled)

## The system

`monkeyc-optimizer` takes a Connect IQ project (a jungle file, Monkey C sources, resources), writes an optimized copy of its
sources, has Garmin's compiler build that copy, optimizes the bytecode of the result, and, for tests, runs it in Garmin's
simulator. It is one Node process with an event loop, a pool of worker threads, a directory of outputs that outlives it, and
two external programs.

| component | state it keeps | operations | hard behaviour | what makes it correct |
|---|---|---|---|---|
| Worker pool (`worker-pool.ts`, `worker-thread.ts`) | free workers, queued tasks, the task each worker holds, mailboxes of the threads | run a task, close; messages, errors, start of threads | threads interleave with the event loop; a failing task kills its thread; errors of idle workers; close with work under way | every task is settled once, by its own outcome; none waits while a worker is free; dead workers are replaced |
| Task dispatch (`worker-task.ts`) and log (`logger.ts`) | the chain of promises of messages that are not ready | log, wait for the log before a task is answered | promises kept in any order, or broken | messages in order; an answer after the messages of its task |
| Build cache (`optimizer.ts`: `generateOneConfig`) | output directory, `build-info.json`, modification times | compare, clear, read, optimize, write, seal | edits and crashes between any two steps; clock granularity | what is returned was made of the sources as they are |
| Driver (`driver.ts`, `util.ts`: `promiseAll`) | jobs under way, who waits for the simulator, the failures | take a jungle, build a product, ask for the simulator, retry | several jobs share one pool and one simulator; any step fails | everything is built, one simulation at a time, the driver ends, verdicts are right |
| Package optimizer (`readprg.ts`: `optimizePackage`) | the programs of an archive | unpack, optimize each in the pool, pack | shares the pool of the driver | as above |
| Control flow and data flow (`control-flow.ts`, `data-flow.ts`) | a graph of blocks with events; a worklist | build, reduce, visit | exceptions, loops left in the middle, code without an end | every path of the source is a path of the graph |
| Function info (`function-info.ts`) | what each function modifies and calls | record, close over calls | recursion | a function that may modify a variable is known to |
| Dead stores (`type-flow/dead-store.ts`) | dead, anticipated and partly anticipated references per block | backward analysis, removal | loops, `try`, several exits of a loop | a store that is removed is never read; the analysis ends |
| Minimization of locals (`type-flow/minimize-locals.ts`) | conflicts, colors | color, merge, rename | copies between locals, scopes | merged locals are told apart |
| Partial redundancy elimination (`pre.ts`) | anticipated expressions per block, insertion points | backward analysis, choice of insertion points, rewriting | exceptions, modification by calls | the value inserted is the value replaced; no path evaluates more |
| Type flow (`type-flow.ts`, `type-flow/optimize.ts`, `interp*.ts`) | a type (or value) of each variable per block | forward analysis, equivalences, rewriting | aliasing, loops, narrowing by tests | a value is of the type it is said to have |
| Type lattice (`type-flow/types.ts`, `union-type.ts`, `intersection-type.ts`, `sub-type.ts`, `could-be.ts`) | - | union, intersection, sub-type, could-be | data of parts of a union (arrays, classes, values) | agree with each other and with the sets of values |
| Inliner, unused expressions (`inliner.ts`, `unused-exprs.ts`, `variable-renamer.ts`) | names in use | inline a call, keep effects | order of evaluation, capture of names | effects are kept, in order |
| Lookup (`api.ts`) | scopes, imports, classes, modules | look a name up | several definitions, inheritance, imports | finds what the language says |
| Jungles (`jungles.ts`) | qualifiers, products, barrels | evaluate, resolve | references between qualifiers | the product's sources and excludes |
| Live analysis (`analysis.ts`) | the last analysis, states of files | update, analyze | updates while an analysis runs | the last one describes the files as they are |
| Program post-optimizer (`readprg/*.ts`) | blocks of bytecode | dead code, control flow, sharing, locals, array initializers, PRE | exceptions, stack contents | the program does what it did |
| Formats (`readprg/header.ts` ..., `manifest.ts`, `resources.ts`, `xml-util.ts`) | - | read, write | - | nothing is lost |

How they interact: the driver calls `generateOptimizedProject` (in a worker when it has a pool), which calls
`generateOneConfig` for every group of products (each in a worker when the project has several), which analyzes, optimizes
and writes the sources; the driver then runs the compiler, `optimizePackage` or `optimizeProgram`, and the simulator. All use
one module variable, `pool` of `worker-pool.ts`, one chain of promises `logPromise`, and one `serializeSim.promise`. The
source optimizer works on one syntax tree after the other: control flow graph, data flow events, dead stores, type flow, PRE,
locals.

The hazards of this code, each at its line and with the properties that would catch it going wrong, are in `PROJECT.json`. Where
the code does go wrong, and a run leaves out the inputs on which it does, the hazard is listed without a property, and its note
names the one that fails.

## The plan

In the order of what would hurt most:

1. (done) `WorkerPool`, `TaskService`, `WorkerPoolProofs`: tasks, threads and the abstract service.
2. (done) `BuildCache`, `BuildCacheProofs`: the decision that outputs are current.
3. (done) `DeadStore`, `MinimizeLocals`, `OptimizedRun`: the backward analysis, what is done with it, and the function run
   before and after.
4. (done) `Driver`, `TestRun`, `Logger`, and the proofs of each: the clients of the pool and of the simulator, verdicts, the
   log.
5. (done) `TypeLattice`, `TypeMeaning`, `TypeFlow`: union, intersection, sub-type and could-be against the values of the
   types, within the forward analysis that uses them. Left: the folding of operators (`TypeOperators`), members of objects,
   copy propagation (which uses the candidates of `DeadStore`), conditional expressions.
6. (done) `Statements`, `DataFlow`, `ControlFlow`, `FlowGraph`: graphs from statements, and their reduction, against what
   statements do.
7. (done) `FunctionInfo`, `PRE`, `SizeBasedPRE`: what calls may modify, insertion of variables; the function and what became
   of it run in step, as in `OptimizedRun`, which is the pattern for all that rewrites functions.
8. (done) `Bytecode` and its passes, `PostOptimizer`: blocks, sharing, dead code, locals and array initializers of the
   post-optimizer, against a stack machine.
9. `Lookup`, `Jungles`, `Inliner`, `Packages` (pairing of programs and debug information), `LiveAnalysis`.

Pure algorithms share runs: one MC module enumerates their inputs. Theorems to add: that an empty worklist of `TypeFlow` and of
`SizeBasedPRE` means that the equations of every block hold, as it does in `DeadStore` (both reach recursive operators, which would
have to be rewritten as functions first).

## Modules and the code they model

**`WorkerPool`** (389 lines of the pool, its threads and their tasks). One `WorkerPool` object after its constructor. Each
callback of the event loop is an action, run to completion: `Submit` (`runTask`), `HandleMessage`, `HandleError`,
`HandleIdleError` (the two ways through the error listener), `Close`. `Freed` is the push to `freeWorkers` together with the
listener of `kWorkerFreedEvent` that it calls synchronously. Threads are `ThreadStart`, `ThreadStartFails`, `Take`, `Answer`,
`Fail`; mailboxes in both directions are `inbox` and `outbox`. `promise` records the task whose outcome settled it, which the
code does not: this is what makes a mix-up visible. An exception nobody catches ends the process, or does not where the
optimizer runs inside a host that survives it (`HostCatches`): an editor's extension host, for instance.
**`TaskService`** is what a client sees: tasks start first come first served, at most `Slots` at a time.

**`BuildCache`**. The steps of `generateOneConfig` between which the files can change are the values of `pc`: compare names and
options, stat sources, decide, clear, read, write, seal. The user edits, creates and removes sources, the process dies, the
clock (with the granularity of the file system) ticks, all at any moment. Contents are numbers that are never used twice; an
output records what it was made of.

**`DeadStore`**, **`MinimizeLocals`**, **`OptimizedRun`**. `Visit` is one iteration of the worklist of `findDeadStores`, with
`mergeStates` in its three parts. A call of `findDeadStores` is a record: graph, events and `candidates`
(`findCopyPropCandidates`). `Minimize` colors the locals in any of the orders the sort may produce. `OptimizedRun` then runs
the function three times in step: as written, without dead stores, and with merged locals. `Propagated` are the candidates that
`propagateTypes` does not give up (`type-flow.ts:1847`: a reference that is an `x++` cannot be replaced). `MCDeadStore` builds the graphs
that `control-flow.ts` makes of `if`, `while`, `do` with a `break`, `switch` (with its bogus predecessor) and `try`, with any
statements of a menu in their blocks.

**`Driver`**. `promiseAll` (`util.ts`) as slots, the products of a jungle one after the other, the steps of a build, and the
pool and simulator they share. `StartPool` and `StopPool` are those of `worker-pool.ts`; a task submitted to a pool that was
stopped never settles, as in `WorkerPool`. What the driver is called for (`call`) is chosen at the start.

**`TestRun`**. The handler that reads the output of the simulator (`PrintLine`), the chain of retries, the verdict.
What the simulator prints (tests and outcomes) is chosen at the start; it fails at any line.

**`Logger`**. `log`, the chain of promises, and how `performTask` waits for it.

**`TypeLattice`**, **`TypeMeaning`**, **`TypeFlow`**. A type is a set of tags and, for some of them, data, which is what the
bits and the `value` of the code's `ExactOrUnion` hold: `Has` is `getUnionComponent`, and the operators have the names of the
functions. Data that is equal is the same, where the code compares references: merging what is equal gives what it was, but for
data deeper than `MaxWidenDepth` in a widening union, which the code drops. (With no two arrays, dictionaries, methods, classes,
objects or enums the same, the run has as many states and the same result.) Numbers are counted in halves, so that a `Float` may be no integer; `NumberMax`, `FloatMax` and `DoubleMax` stand
for 2^31, 2^24 and 2^53. `TypeMeaning` says which values a type has and when values are equal, independently of the code.
`TypeFlow` is `propagateTypes` for local variables: `Visit` is one iteration of its worklist (events of the block, tests with
`Apply`, `MergeTypeState` into the successors); once the queue is empty, `Start` and `Run` execute the function with any
values of its declared types. `MCTypeFlow` builds the programs.

**`Statements`** (external) is a machine that runs statements and expressions: what is left to do is a sequence of frames, every
test goes either way, every operation that can throw may do so. It knows nothing of graphs. **`DataFlow`** says which events
an analysis is told of (`buildDataFlowGraph`), for the two users of it: types (`allRefs`) and redundant expressions.
**`ControlFlow`** is the walk that makes the graph (`buildReducedGraph`): one operator per statement, `Enter` is `newBlock`,
`Terminal` the way of a `break`, `return` or exception through finalizers, `Notice` and `Split` what `post` does with events
and tests, `End` the removal of unreachable statements; then `CleanCfg`. A builder is a record, passed along. **`FlowGraph`**
runs the function and follows it in its graph (`leads = "function"`), or the other way round (`leads = "graph"`).

**`FunctionInfo`** is what is recorded of functions while they are optimized, and `FunctionMayModify`, with all that it keeps for
the next question. **`PRE`** is the analysis and rewriting of `sizeBasedPRE` as operators, in the order of the file: blocks are
split, states of blocks merged, candidates chosen, the tree rewritten. **`SizeBasedPRE`** composes them: a function is built,
cleaned and split, `VisitBlock` is one iteration of the worklist, `Rewrite` the choice and the changes; then both functions run
in step. No values are modelled: `same` are the locals that have the value of their variable, `owed` the variables that do not
have theirs yet. A call of a function of which nothing was recorded, or that may call one, may change anything. A variable of a
module is named by its name alone, so every read of it costs as much; the code also knows `M.x`, and goes by the first read it
meets.

**`Bytecode`** and what extends it: the post-optimizer. A function is a record of blocks of instructions (`Bytecode`, with
the traversals and edits of `bytecode.ts`), and each pass is an operator on it: `BytecodeFlow` (`cflow.ts`),
`BytecodeSharing`, `BytecodeLocals` (`locals.ts` and `pre.ts`), `BytecodeArrays`, `BytecodeInterp`
(`interp.ts`, and what `interpFunc` replaces), `BytecodeClean` (`optimize.ts` and `dce.ts`), `BytecodeEmit` (`emit.ts`: order of blocks, exceptions,
debug ranges). `BytecodeVM` (external) is the device: stack, locals, frames, handlers. **`PostOptimizer`** applies the passes as
`optimizeFunc` does until none changes anything, writes the function out, and runs both on the device with the same arguments
and the same outcomes of calls. `StrictFolds` has the folds of the community modules over evaluated values.

## Runs

| run | question | instance | why it is enough |
|---|---|---|---|
| `worker_pool` | Are tasks lost, doubled, mixed up, left waiting? | 2 workers, 4 spares, 4 tasks; one spare may not start; any task may fail; close at any time; 304k states | two tasks wait in the queue (so that their order matters) while two run; every task may kill its worker, and every one is replaced. The proofs cover the safety properties for all sizes |
| `build_cache` | Does a build return what belongs to the sources? | 2 sources, 1 dependency, 2 values of options, 2 edits, 1 crash, 3 ticks; 1.1M states | builds are not counted: a build may meet what any sequence of earlier ones left. Two edits change and remove, or race and repair; three ticks make before, same and after |
| `dead_store` | Do the results of the analysis hold when the function runs? | 13,559 functions of five shapes; 1 parameter, 1 local, 1 global; 318k states | a path through a merge, a loop, a handler with every combination of read, store, update, call on either side of it |
| `dead_store_loop` | Does the analysis end? | one function | violated |
| `driver` | Do builds end, share the simulator, and leave each other's pool alone? | 3 jungles, 5 builds, 2 at a time; 4 jungles, one at a time; any step may fail; 298k states | two jobs are what parallelism needs; the third is taken when one of the two ends |
| `driver_exports` | and two exports at a time? | 2 exports | violated |
| `test_run` | Is the verdict right? Is there one? | up to 3 tests of 16 kinds with any outcome; up to 3 failures of the simulator; 272k states | two tests may cancel out in the counts of the summary; a third may mask it |
| `logger` | Is the log in order and complete? | 2 tasks, 5 messages; 340k states | a promise before and after plain messages, answers in between |
| `type_flow` | Are values of the types the analysis found, and equal where it says so? Does it end? Do `subtypeOf` and `couldBe` agree with the values? | loops over one variable with every pair of 29 types and 17 tests; comparisons of two parameters, one of them of a union of any two types; copies between up to three variables; nesting of arrays and dictionaries; 247k states | a union, its test and the types that come round a loop are all pairs of the kinds of data the code tells apart; copies in a branch, before it and after it. `WidenAfter` is 3 (10 in the code) and `MaxWidenDepth` 2 (4): widening is reached, and types nest deeper than it allows |
| `source_functions` | Do graphs have the paths functions take? Does the elimination of redundant reads keep what functions do, and end? | 2,200 functions: every kind of statement around every other and every way out of them, conditions nested twice, calls that throw; 5,200 functions of a statement, two in one of 13 structures, and a read, with calls that set `x` or `y` directly, through callees, through `new`, by name, through the system or through a function nothing is known of; 261k states | a path is forgotten where two constructs meet: all pairs meet, and what leaves one leaves the other. A way into a region is from before, around, out of the middle, or from an exception |
| `control_flow_finally` | Is what is removed behind a finalizer never run? | 11 functions | violated |
| `post_optimizer` | Does the device see a difference? Do the passes end, keep their graph in order, and make nothing longer? | 546 functions of branches, loops, `try`, `finally`, switches, array literals and repeated constants; 19.5k states | each function is there for what a pass looks for, in the place where it would be wrong: constants on both sides of a handler, blocks that differ in their last instruction, a local that is dead only without exceptions |

`CHECK_DEADLOCK FALSE` is set where the system may stop: the pool is closed or the process is gone, the function has
returned, the driver is done, everything is logged, the analysis has failed or the function was left as it is.

Bounds in guards: `MaxTime`, `MaxEdits`, `MaxCrashes` (`BuildCache`), `SimFailures` (`TestRun`), `MaxMessages` (`Logger`),
`MaxNesting` (`TypeFlow`, of the values in its run; the analysis itself is not bounded). Loops of `FlowGraph`, `SizeBasedPRE`
and `PostOptimizer` have no bound: their states repeat, since values are not counted up; the identities in `Workers` bound the
replacements of `WorkerPool` (with fewer spares than tasks `HandleError` would block, so there are as many).

Fairness. `WorkerPool`: weak fairness of each thread's work (the operating system schedules threads) and of the handling of
each worker's events (the event loop runs); none of `Submit` and `Close`: clients need not call. `OptimizedRun`: weak fairness
of the whole: one thread runs. `Driver`: the chains go on, tasks in a living pool settle (which is `Settles` of
`WorkerPool`), the compiler and the simulator answer (they are child processes that end). `TestRun`: the simulator prints
or ends. `Logger`: the microtask queue runs, promises are settled one way or the other. `TypeFlow`: the loop of the analysis
goes on until its queue is empty, written as one of the two happening again and again. `SizeBasedPRE`: a function is analysed
by one thread without a pause; `beat` turns with every step of it, and the fairness is of a step that turns it.
`PostOptimizer`: the same, of its passes.

Programs `type_flow` leaves out, because the code is wrong about them (see below): types that have a bare `Object` and data of
other parts, variables that hold dictionaries with known keys and such with any keys, empty arrays, loops over three variables
that take equal ones apart, and conditional expressions. Functions `source_functions` leaves out for the same reason: finalizers
whose handler goes on or calls, and, of those to rewrite, `do` loops whose test and `for` loops whose update reads a variable
or calls, `if (f()) continue;`, loops whose body never reaches its end, and calls that set a variable in a `try`.

## Proofs

`WorkerPoolProofs`, for any sets of tasks and workers, any list of at least two initial workers, whether or not threads start
and whether or not the host survives:

* `TypeCorrect`, `Invariance`: `Spec => []IInv`. None of the properties below is inductive. What makes them so is what the
  listeners rely on without checking it: a free worker holds no task and has nothing to say (`FreeAreIdle`), a queued task is
  queued once and no worker has it (`QueuedOnce`), a task is held once and a pending one is queued or held (`HeldOnce`), what
  a thread has to do, does or has said is about the task its worker holds, and one of the three at a time (`MailIsCurrent`),
  and whoever may still raise an event holds a promise nobody has settled (`HeldIsPending`).
* `NeverIdleWithQueue` (`WorkConserving`), `OutcomesAreOwn` (`OwnOutcome`), `PendingInOnePlace` (`TaskInOnePlace`) follow from
  it; `SettledForGood` (`SettleOnce`) is an action property proved from the same invariant.
* `DeadAreReplaced` (`DeadIsReplaced`) from the assumption that an uncaught exception ends the process.
* `NoLostWakeUp`, from the same assumption, is the safety half of `Settles`: in every state of an open pool a pending task is with
  a worker whose thread or listener has a step to take, or queued while some worker with a task has one (`NobodyWaitsInVain`).
  What makes it inductive: until it is closed the pool lists its free workers and whoever is alive (`UsableAreListed`), and
  whoever holds a task stirs (`HoldersStir`), by a message to its thread, a thread at work, a result, or an error that replaces
  it. A queue without such a worker would need a free one, and there is none (`WorkConserving`). Without the assumption it
  fails: a worker that dies idle takes the next task and never answers. Fairness has to supply nothing but these steps.
* `WorkRunsOut`, without the assumption, is what is left of `Settles`: every step but a client's `runTask` gets on (`GetsOn`).
  Either a promise is settled, and none becomes pending, or the workers have less to go through (`Duties`: to load their
  script, to take a task, to run it, to say what came of it), or the pool is closed. Both sets are finite, for any sets of
  tasks and workers: only what was submitted is pending, and only workers that were started have duties (`FewInv`). So
  threads and listeners cannot keep each other busy for ever without settling a task. They could if the handler of `"error"`
  posted the failed task anew to the worker that replaces the dead one.

The proof that a step preserves `IInv` has a lemma for each action, and in it a step for each conjunct the action can disturb.

The refinement is in the same module: `Implements` (`ImplementsService`), the step simulation of `TaskService`, for any tasks
and workers. A queued task is a waiting one, a held task an active one. What it needs besides `IInv` is that the service counts
what the pool lists: the free workers and the active tasks are together as many as the service has slots (`SlotsInvariant`), so
that the pool starts a task exactly when the service has a slot.

`BuildCacheProofs`, for any files, options, contents and number of edits and crashes, **on the assumption that the process does
not die while old outputs are removed** (`"clear" \notin CrashesIn`; the hazard at line 878 of `optimizer.ts` has no property for
this reason): `TypeCorrect`, `Invariance`, `CurrentIsReturned` (`ReturnsCurrent`). Modification times are all that the code
compares, and they do not say what a file was made of; the invariant says what they stand for. No file is from the future
(`Stamped`); outputs come into being together, from the same input and options, and `build-info.json` after all of them
(`Sealed`); where an output differs from a source that is there, its time is not above the source's (`TimeTells`); what the
check takes for the newest source is no older than any of them (`NewestIsNewest`). So outputs that are younger than the newest
source do not differ. What a build finds and reads stays so while it runs (`FoundIsCurrent`), apart from files that are edited
meanwhile (`Racy`), which the property excuses. Without the assumption `Sealed` fails: a build that dies while it removes the
old outputs leaves some of them beside the old seal. `UpToDateIsTaken` (`NoNeedlessWork`) is about the opposite mistake, and needs
no assumption on crashes: a build of outputs that are current writes nothing. It is proved where no personality file is named
(`Personality = {}`, as in the run); with one, the code does optimize anew (see below).

`LoggerProofs`, for any tasks and number of messages: `Invariance`, `OutInOrder` (`InOrder`), `OutBeforeAnswer`
(`AnswerIsLast`). What is out and what waits in the chain ascends, in this order (`InLine`); the counter is the length of the
chain until a promise is broken, and never 0 again from then on (`LivesAreInChain`), which is why a plain message is never
printed past one that waits; a task that returned waits for all that was logged by then (`WaitsForItsOwn`).
`DroppedBehindBrokenOnly` is the safety half of `AllOut`: unless a promise was broken, what is out and what is in the chain are
all that was logged. `SilentOnceRejected` is an action property about the opposite case: once the chain is rejected nothing is
written any more, plain messages included, since the counter stays above 0. `LogRunsDry`, for finitely many tasks, has the other
half: each step but a call of `log` leaves less to do (`Left`: promises to be kept or broken, messages in the chain, tasks to
return, tasks to be answered). When nothing is left the chain is empty, and what `DroppedBehindBrokenOnly` says is `AllOut`.

`DriverProofs`, for any jobs: `Invariance`, `SimulatorIsAlone` (`OneSimulator`), `NothingIsLeftOut` (`AllBuilt`). The chains of
`promiseAll` work on jungles of their own, taken in order, and products are done up to the one at work (`OwnJungle`,
`TakenInOrder`). That only one run is in the simulator is not visible in any two runs: each waits for the one before it only.
The invariant is that those that are not over can be put in a queue, where each waits for the one in front of it and the next to
ask will wait for the last (`RunsQueue`); a step appends to it or takes the first off. `SharedPoolStays` (`NobodyStranded`) is
about the jobs where no build can stop the pool another one uses (`Undisturbed`): one build at a time, or any number that neither
export nor start a pool of their own while they profile. It does not hold of all jobs, as `driver_exports` shows. Its invariant
(`PoolInv`) says whose tasks there are, and that a pool the jobs share is the one the driver began with until the driver is done.

`BuildsGetOn` is the safety half of `Finishes`, for the same jobs: a build that was begun and is not over has a step to take, or
waits in `serializeSim` behind one that has (`NobodyIsStuck`). It needs of the queue of runs that its first one may go on
(`FirstMayRun`): whom it waits for is over, whether it failed or not. `DriverGetsOn` puts that together for the whole driver:
until it is over a chain may take or leave a jungle, or a build gets on, or all chains have ended and it may finish.
`StepsRunOut` says, for any jobs, that this does not go on for ever: a step, or a failure, leaves fewer steps for the builds
(`StepsLeft`), or fewer chains that have not ended (`ChainsLeft`), or as many of both and fewer tasks to settle, and neither of
the first two ever grows. It takes both: a driver in which two runs wait for each other satisfies the second one, and one that
tries a build again for ever the first.

`TestRunProofs`, for any programs, and a simulator that fails at any moment: `Invariance`, `CountsAreEnough` (`VerdictIsRight`:
the verdict on a first attempt, and on any attempt if no test failed or crashed as its name promises; one that did is counted
anew by each attempt, and then the verdict may be wrong, see below). What the latter takes is that the tests only run again
while nothing is known of their result (`RetryReckons`). The handler compares numbers, not tests. They are enough because the
tests counted as expected failures are among those that failed: a subset of as many members is all of it (`SameCount`).
`AttemptsRunOut` is the safety half of `IsJudged`: each step is towards a verdict, a new attempt of three, a later stage of the
simulator, or one line less to print.

`DeadStoreProofs` and `OptimizedRunProofs`, for any control flow graphs, locals and events:

* `DoneStaysSettled`: `Spec => []AInv`. States of blocks go down only (`Below`: less is dead, fewer references are
  anticipated, more are partly so), and a block that is not queued is settled: what was found in it is what the walk from its
  end finds there, and its predecessors claim no more than is left at its start. When the queue is empty this is so of every
  block, so the equations hold whatever the order of the visits and however often a block was visited. Where `mergeStates`
  reports a change it did not make (`dead_store_loop`) the queue may not get empty; what is found when it does is still right.
* `VisitsGetOn`, an action property, is the safety half of `TerminatesPlainly`: where no candidates are asked for, a visit leaves
  fewer pairs of a block and a local undecided (a block not reached yet, or a local that is dead at its end), or the same and
  fewer blocks queued (`GetsOn`). Both are numbers, for any graph, so that the visits come to an end. With candidates a merge
  may report a change it did not make, and neither falls.
* `GreatestIsFound`: nothing is missed. The other theorems say that what is found is true; an analysis that finds nothing would
  satisfy them. This one says, where every block ends, that what is found when the queue is empty is the greatest solution of the
  equations of dead code (`Greatest`): no assignment of dead sets to the points of the function that the events and branches
  justify (`Justified`) claims more anywhere. So the dead stores, and the conflicts between locals, do not depend on the order of
  the visits, or on how often a block was visited. The invariant is that no state has given up what some solution claims
  (`NothingIsGivenUp`): a walk and a merge give up only what the equations do not allow (`WalkGivesNothingUp`,
  `VisitGivesNothingUp`); and once all is settled the states are a solution themselves (`SettledIsGreatest`). A block without
  a way to the end is the exception: the analysis, which goes backwards from the end, never gets there.
* `DeadStoresAreDead` (`DeadIsNeverRead`), `MergedLocalsAreOwn` (`MergedIsOwn`): what is not dead where the run is, and has a
  value, has the same in all three runs (`SameValues`). Two locals in one variable may both be live, as long as they hold the same
  value: a copy is no conflict with what it copies. Any other store to one of them where the other is live is one (`StoreValues`),
  and coloring keeps the two apart (`ColoredFacts`), in any order.
* `CandidatesHaveOneRef` (`OnlyRef`): what was stored is not read from where the run is, or first by the reference it has
  (`OnlyRefs`).
* `AnticipatedAreReached` (`AntIsReached`): what was stored and not read yet has its reference ahead (`AntIsAhead`). This needs
  two facts that the code relies on without a word. What is known of the references of a store is not looked at again when the
  store is found dead; but a store that was live once is live at every later visit (`CandidatesLive`). And a local that goes
  out of scope, or is stored to, where it is dead keeps the anticipated reference of the code behind (`kil` and `def` do not
  clear it, lines 243 and 288): no such reference exists, or it would be passed on to every block behind and be known at
  the end of the function (`NoRefAhead`).

They assume of the function (of the graph and its events, which are not code of these modules) what is named in `OptimizedRun`:
every block has a way to the end, bogus predecessors included (`EveryBlockEnds`, for all but the first two), and one without an
exception (`EveryBlockReturns`, for the last); no local is read before it is stored to or out of its scope (`SetBeforeRead`, for
all that are about values and the last), which the compiler demands. `MCDeadStore` checks these of every function of its runs.
Endless loops are what the first one excludes: the theorems, like the property, fail for them (see below).

`SequenceFacts` has what `push`, `shift` and `pop` do to an array.

Assumptions: those on the constants, named in each module (`PoolAssumption`, from line 113 of `worker-pool.ts` for the two
workers; `CacheAssumption`, `DriverAssumption`, `TestRunAssumption`, and `GraphAssumption` with `EventAssumption`, from
`buildDataFlowGraph`: which events have a variable, which may throw, what is read before it is copied), and those named above.

Only model-checked: liveness (`Settles`, `Finishes`, `IsJudged`, `AllOut`, `Ends`, `TerminatesPlainly`, `EventuallyEmitted`),
which TLAPS's backends do not do under fairness (of `Settles`, `Finishes`, `AllOut`, `IsJudged` and `TerminatesPlainly` both
parts that are safety are proved, see above: that steps run out, and, where it takes an argument, that there is one until the
end is reached; the rule that concludes "eventually" from them under fairness is TLC's); the operators on types, which are
recursive, and the analysis that uses them; the walks over syntax trees and the passes over bytecode, which are recursive, too,
or use the bitwise operators. (The walks of `DeadStore` and `MinimizeLocals` over the events of a block and over the locals are
recursive functions of numbers; `SetInduction` of `DeadStoreProofs` is the induction over numbers with a set for the formula,
and `WalkIs` and `ColoredIs` their equations.)

## Where the code and its documents disagree

* **What follows a `try` with a finalizer is removed, and would run** (`control_flow_finally`, `control-flow.ts:352`): the
  finalizer gets its edge to what follows only if the end of the `try` block is reached; the handlers do not count.
* **The analysis of dead stores may not end** (`dead_store_loop`, `dead-store.ts:116`): a merge reports a change where there
  is none, and two blocks of a loop keep waking each other.
* **Two packages at a time share a pool that the first one to finish stops** (`driver_exports`, `readprg.ts:420`).

Seen while modelling, without a run of their own.

Builds and tests: a source edited after it was read and before the outputs are written is older than they are, and the next
build takes them as current (`optimizer.ts:863`); expected failures of an attempt that died are counted again, and make up for
as many unexpected ones (`driver.ts:743`; `VerdictIsRight` leaves these attempts out); a process that dies while it removes old
outputs may leave a set of files that looks current (`optimizer.ts:878`); options that change the code are missing from
`configOptionsToCheck` (`optimizer.ts:708`); a build that started the pool stops it under another one while profiling
(`optimizer.ts:679`); an idle worker that dies is not replaced (`worker-pool.ts:76`: `emit("error")` has no listener, so it
throws before the lines that replace the worker; with `HostCatches` the model has this state); a rejected promise of a message
stops the log for good (`logger.ts:52`). A project with a personality file is optimized anew every time (`optimizer.ts:860`: its
output, which is never written, counts as infinitely old).

Types: equal variables that part in a loop go on narrowing each other (`type-flow.ts:374`: taking two apart is not reported as
a change unless one was in no set at all); the intersection of `Object or Array<Number>` and `Number` is empty
(`intersection-type.ts:152`); the union of a dictionary with known keys and one with any keys forgets what either allowed
(`union-type.ts:286`); `1 == true` is folded to false (`interp-binary.ts:229`); sums of Numbers are folded without overflow
(`interp-binary.ts:300`); types of `x = c ? x : {:k => x}` in a loop grow forever, since widening takes the new type when it
includes the old one (`type-flow.ts:618`).

Functions: a store before an endless loop is taken for dead when only the loop reads it (`dead-store.ts:174` starts from
blocks without successors). The graph of a `try` with a finalizer and no handler has no edge to it for exceptions, that of a
handler that throws none to its own finalizer, that of an inner finalizer none to the outer one (`control-flow.ts:127`, 322, 346).
`cleanCfg` leaves `bogopred` as it was; `splitBlock` of `pre.ts:169` leaves `expreds` of the handler. Names that callees set are
merged and not looked at again, and a function's own neither once it was asked for another variable (`function-info.ts:90`, 104).
`sizeBasedPRE` puts its assignment in front of a `do` or `for` loop where it belongs to the test or the update, in front of which
its block begins; behind `if (f())`, though a `continue` in it goes past that; and behind a loop whose test calls (`pre.ts:754`).
It stops with an error (`pre.ts:500`) for `for` and `do` loops whose body never reaches its end.

Bytecode: what is live in a handler may grow without its `try` being looked at again (`readprg/dce.ts`); a `try` region entered
at two places fails an assertion when blocks are put in order; `removeNoOpBlocks` does not end for an empty endless loop;
array literals of more than 48 elements that are not constant lose elements; locals are minimized without end when one is read
before it is stored to; `.equals(:sym)` becomes `==`, which accepts `null`. None of these is in `post_optimizer`.

## What is not modelled

Listed with reasons in `PROJECT.json`. Of modelled components: declarations inside modules and classes, and members of objects as
variables (`control-flow.ts`, `data-flow.ts`); the names of new locals; of the bytecode, instructions that differ only in what
they compute. Parsing and printing of files (jungles, XML, binary programs, archives) is conversion
without control. The syntax-directed rewriting of `mc-rewrite.ts` and the tables of `readprg/opcodes.ts` are many small cases
without state. Garmin's compiler and simulator, the file system and `node:worker_threads` are external; they are modelled by
what the code has to expect of them. The rest is in the plan.
