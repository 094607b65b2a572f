---------------------------- MODULE OptimizedRun ----------------------------
(***************************************************************************)
(* What the optimizer does with the results of findDeadStores and          *)
(* minimizeLocals, shown by running the function they were computed for    *)
(* three times in step: as it was written (memory), without its dead       *)
(* stores (lean), and with locals of a color in one variable (merged).     *)
(* The runs take the same path, for whatever they read must be the same.   *)
(*                                                                         *)
(* The function that runs is not code of the repository: a block runs its  *)
(* events in turn and goes on with any of its successors; an event that    *)
(* may throw goes to the handler of its block instead.                     *)
(***************************************************************************)
EXTENDS MinimizeLocals

VARIABLES
    at,       \* the node that runs next, or Done
    memory,   \* the value of each variable
    lean,     \* the same, when dead stores are left out
    merged,   \* the value of each variable locals are merged into
    writer,   \* the last store to each local, or None
    unread    \* the locals whose last store was not read yet

rvars == <<at, memory, lean, merged, writer, unread>>
vars == <<mvars, rvars>>

Done == <<>>
Unset == 0

Slot(v) == IF v \in Locals THEN colors[v] ELSE v

-----------------------------------------------------------------------------
Number(s) == CHOOSE f \in [s -> 1 .. Cardinality(s)] : IsInjective(f)

RunInit ==
    /\ MinimizeInit
    /\ at = <<graph.entry, 1>>
    /\ memory = [v \in Decls |-> IF v \in Params \cup Globals
                                 THEN Number(Params \cup Globals)[v] ELSE Unset]
    /\ lean = memory
    /\ merged = <<>>
    /\ writer = [v \in Locals |-> None]
    /\ unread = {}

\* The variables are allocated, and parameters and globals have their values.
Enter ==
    /\ Minimize
    /\ merged' = [slot \in {colors'[v] : v \in Locals} \cup Globals |->
                    LET here == {v \in Params \cup Globals :
                                    slot = (IF v \in Locals THEN colors'[v] ELSE v)}
                    IN  IF here = {} THEN Unset ELSE memory[CHOOSE v \in here : TRUE]]
    /\ UNCHANGED <<at, memory, lean, writer, unread>>

Running == colors # <<>> /\ at # Done
AtEvent == Running /\ at[2] <= Len(graph.events[at[1]])
AtEnd == Running /\ at[2] > Len(graph.events[at[1]])
Current == Event(at[1], at[2])

\* A value no variable holds.
Fresh == CHOOSE n \in 1 .. 3 * Cardinality(Decls) + 1 :
            n \notin Range(memory) \cup Range(lean) \cup Range(merged)

\* The value a store stores: that of rhs, or one that is new.
Value(mem, e, new) == IF e.rhs # None THEN mem[e.rhs] ELSE new

StoreTo(e) ==
    LET new == Fresh
    IN  /\ memory' = [memory EXCEPT ![e.decl] = Value(memory, e, new)]
        /\ lean' = IF at \in found.dead THEN lean
                   ELSE [lean EXCEPT ![e.decl] = Value(lean, e, new)]
        /\ merged' = [merged EXCEPT ![Slot(e.decl)] =
                        IF e.rhs # None THEN merged[Slot(e.rhs)] ELSE new]

\* What is said to hold the value that is stored does (NodeEquivMap).
EquivalentsHold(e) == \A v \in e.copies : memory[v] = memory[e.rhs]

RunEvent ==
    /\ AtEvent
    /\ LET e == Current
       IN  /\ \/ e.type = "def" /\ EquivalentsHold(e) /\ StoreTo(e)
              \/ /\ e.type = "kil"
                 /\ memory' = [memory EXCEPT ![e.decl] = Unset]
                 /\ UNCHANGED <<lean, merged>>
              \/ /\ e.type \in {"ref", "mod", "exn"}
                 /\ UNCHANGED <<memory, lean, merged>>
           /\ writer' = IF e.decl \in Locals /\ e.type \in {"def", "kil"}
                        THEN [writer EXCEPT ![e.decl] = IF e.type = "def" THEN at ELSE None]
                        ELSE writer
           /\ unread' = IF e.type = "def" THEN unread \cup ({e.decl} \cap Locals)
                        ELSE unread \ {e.decl}
    /\ at' = [at EXCEPT ![2] = @ + 1]
    /\ UNCHANGED mvars

RunThrow ==
    /\ AtEvent /\ Current.mayThrow /\ graph.exsucc[at[1]] # None
    /\ at' = <<graph.exsucc[at[1]], 1>>
    /\ UNCHANGED <<mvars, memory, lean, merged, writer, unread>>

RunBranch ==
    /\ AtEnd
    /\ \/ \E b \in graph.succs[at[1]] : at' = <<b, 1>>
       \/ graph.succs[at[1]] = {} /\ at' = Done
    /\ UNCHANGED <<mvars, memory, lean, merged, writer, unread>>

Next == \/ Visit /\ UNCHANGED <<colors, rvars>>
        \/ Enter \/ RunEvent \/ RunThrow \/ RunBranch

Spec == RunInit /\ [][Next]_vars
FairSpec == Spec /\ WF_vars(Next)

-----------------------------------------------------------------------------
(* What the properties ask of the function.                                *)

\* The analysis gets everywhere from the blocks without successors.
EveryBlockEnds(g) ==
    \A S \in SUBSET DOMAIN g.succs :
        /\ {b \in DOMAIN g.succs : g.succs[b] = {}} \subseteq S
        /\ \A b \in S : PredsIn(g, b) \subseteq S
        => S = DOMAIN g.succs

\* It is left without an exception, too.
EveryBlockReturns(g) ==
    \A S \in (SUBSET DOMAIN g.succs) \ {{}} :
        (\A b \in S : g.succs[b] \subseteq S) => \E b \in S : g.succs[b] = {}

\* No path from behind the i-th event of block b, or from the start of a block
\* of Z, reads v before it stores to it.
UnsetFrom(g, b, i, v, Z) ==
    LET events == g.events[b]
        Unstored(k) == \A j \in i + 1 .. k : ~(events[j].type = "def" /\ events[j].decl = v)
    IN  /\ \A k \in i + 1 .. Len(events) :
            Unstored(k - 1) =>
                /\ ~(events[k].decl = v /\ (events[k].type = "ref" \/ events[k].form = "update"))
                /\ events[k].mayThrow /\ g.exsucc[b] # None => g.exsucc[b] \in Z
        /\ Unstored(Len(events)) => g.succs[b] \subseteq Z

\* A local is not read before it is stored to, nor when it is out of scope.
SetBeforeRead(g) ==
    \A v \in Locals : \E Z \in SUBSET DOMAIN g.succs :
        /\ v \in Params \/ g.entry \in Z
        /\ \A b \in Z : UnsetFrom(g, b, 0, v, Z)
        /\ \A b \in DOMAIN g.succs : \A i \in DOMAIN g.events[b] :
            g.events[b][i].type = "kil" /\ g.events[b][i].decl = v => UnsetFrom(g, b, i, v, Z)

-----------------------------------------------------------------------------
(* Properties.                                                             *)

\* A store that may be moved to its reader: propagateTypes gives it up where
\* that is an `x++`.  (What such a store is said to have for its only reader
\* need not be: in a try, the handler reads the value where `x++` throws.)
Propagated(n) ==
    /\ n \in DOMAIN found.copy
    /\ LET ref == found.copy[n].ref IN Event(ref[1], ref[2]).form # "update"

\* What the next event reads, and what the caller sees when it is over.
Reads ==
    IF AtEvent
    THEN CASE Current.type = "ref" -> {Current.decl}
           [] Current.form = "update" /\ at \notin found.dead -> {Current.decl}
           [] Current.type = "mod" -> Globals
           [] OTHER -> {}
    ELSE IF at = Done THEN Globals ELSE {}

\* A store eliminateDeadStores removes is never read: neither in the function,
\* on whatever path, nor by what it calls, nor after it returned.
DeadIsNeverRead == \A v \in Reads : lean[v] = memory[v]

\* Locals that became one variable are still told apart: whatever is read is
\* what its own local holds.
MergedIsOwn == colors # <<>> => \A v \in Reads : merged[Slot(v)] = memory[v]

\* A store that is a candidate of copy propagation is read by one reference
\* only (asserted by propagateTypes, type-flow.ts:1659).
OnlyRef ==
    \A v \in Reads \cap Locals :
        Propagated(writer[v]) => found.copy[writer[v]].ref = at

\* One whose reference is anticipated is read, whatever path is taken, before
\* its local is stored to again, or goes out of scope: a call may be moved
\* there from the store without being lost.
Lost ==
    IF AtEvent
    THEN IF Current.type = "kil" \/ Current.form = "assign"
         THEN {Current.decl} \cap unread
         ELSE {}
    ELSE IF at = Done THEN unread ELSE {}
AntIsReached ==
    \A v \in Lost : Propagated(writer[v]) => ~found.copy[writer[v]].ant
=============================================================================
