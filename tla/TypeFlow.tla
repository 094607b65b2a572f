------------------------------ MODULE TypeFlow ------------------------------
(***************************************************************************)
(* The types of the local variables of a function (propagateTypes in       *)
(* src/type-flow.ts), and the function itself, run once its types are      *)
(* known.                                                                  *)
(*                                                                         *)
(* A program is                                                            *)
(*   vars    its variables, in the order the map of a state has them       *)
(*   types   the types they are declared to have at the start              *)
(*   blocks  a sequence of blocks in the order of the queue, the first one *)
(*           the entry: [stmts, test, succs], with a test and two          *)
(*           successors, or no test and any number of them                 *)
(* A state of a block says of each variable its type, and which variables  *)
(* are known to have the same value.  Every variable is a local one with a *)
(* value from the start; what the code keeps of members of objects, and of *)
(* copies it may propagate, is not modelled.                               *)
(***************************************************************************)
EXTENDS TypeMeaning, SequencesExt

CONSTANTS
    Programs,
    Values,      \* the values expressions of a program have
    Universe,    \* types to compare those of the variables with
    WidenAfter,  \* visits of a block before its types are widened: 10
    MaxNesting   \* bound: how deep the values of a run may be nested

ASSUME FlowAssumption == {WidenAfter, MaxNesting} \subseteq Nat

VARIABLES
    program,
    phase,   \* "analysis", then "run"
    at,      \* blockStates: the state each visited block starts with
    visits,  \* how often it was merged into
    queue,   \* the blocks to visit
    pc, env  \* the run: the block it is at, and the values there

vars == <<program, phase, at, visits, queue, pc, env>>

Blocks == DOMAIN program.blocks
Vars == DOMAIN program.types

(***************************************************************************)
(* Variables with the same value: equiv[v] is v's equivSet, {} for none.   *)
(***************************************************************************)
Ungrouped(set) == IF Cardinality(set) = 1 THEN {} ELSE set

RemoveEquiv(equiv, v) ==
    LET rest == equiv[v] \ {v}
    IN  [u \in DOMAIN equiv |-> IF u = v THEN {} ELSE IF u \in rest THEN Ungrouped(rest) ELSE equiv[u]]

AddEquiv(equiv, key, v) ==
    IF key = v \/ key \in equiv[v] THEN equiv
    ELSE LET alone == RemoveEquiv(equiv, v)
             set == alone[key] \cup {key, v}
         IN  [u \in DOMAIN equiv |-> IF u \in set THEN set ELSE alone[u]]

\* What two states agree on about v, and whether the code calls it a change.
IntersectEquiv(to, from, v) ==
    LET keep == to[v] \cap from[v]
        removed == to[v] \ from[v]
    IN  IF to[v] = {} THEN [equiv |-> to, changed |-> FALSE]
        ELSE IF from[v] = {} THEN [equiv |-> RemoveEquiv(to, v), changed |-> TRUE]
        ELSE [equiv |-> [u \in DOMAIN to |-> IF u \in keep THEN Ungrouped(keep)
                                             ELSE IF u \in removed THEN Ungrouped(removed)
                                             ELSE to[u]],
              changed |-> FALSE]

(***************************************************************************)
(* What a statement does to a state.                                       *)
(***************************************************************************)
\* Drops literals, and makes false or true Boolean.
RelaxType(t) ==
    LET literals == t.tags \cap ValueTags
        logical == IF t.tags \cap Boolean = {} THEN {} ELSE Boolean
    IN  IF DOMAIN t.data \cap literals = {} /\ logical \subseteq t.tags THEN t
        ELSE UnionInto(Plain(literals \cup logical), t)

\* The type of what is assigned: of a known type, another variable, or an
\* array or dictionary made of one.
ExpressionType(stmt, types) ==
    CASE stmt.kind = "let" -> stmt.type
      [] stmt.kind = "copy" -> types[stmt.from]
      [] stmt.kind = "array" -> Exact("Array", {<<"tuple", <<RelaxType(types[stmt.from])>>>>})
      [] stmt.kind = "literal" ->
            Exact("Dictionary", <<"literal", [k \in {stmt.key} |-> RelaxType(types[stmt.from])]>>)
      [] stmt.kind = "generic" ->
            Exact("Dictionary", <<"generic", RelaxType(stmt.type), RelaxType(types[stmt.from])>>)

\* setStateEvent without a new value: all equivalent variables learn of it.
Refine(state, v, t) ==
    [state EXCEPT !.types = [u \in DOMAIN @ |-> IF u = v \/ u \in state.equiv[v] THEN t ELSE @[u]]]

\* Mutant of Define: a variable keeps its place when it gets a new value.
DefineInPlace(state, stmt) ==
    [types |-> [state.types EXCEPT ![stmt.var] = ExpressionType(stmt, state.types)],
     equiv |-> IF stmt.kind = "copy" THEN AddEquiv(state.equiv, stmt.from, stmt.var) ELSE state.equiv]

\* A "def" event.
Define(state, stmt) ==
    LET alone == RemoveEquiv(state.equiv, stmt.var)
    IN  [types |-> [state.types EXCEPT ![stmt.var] = ExpressionType(stmt, state.types)],
         equiv |-> IF stmt.kind = "copy" THEN AddEquiv(alone, stmt.from, stmt.var) ELSE alone]

AfterStatements(state, stmts) == FoldLeft(Define, state, stmts)

(***************************************************************************)
(* handleFlowEvent: the states with which a test is left one way or the    *)
(* other: one, or none when it is not left that way.                       *)
(***************************************************************************)
\* The state with a type that was narrowed; none if no value is left of it.
Narrow(state, v, t) == IF t.tags = {} THEN {} ELSE {Refine(state, v, t)}

\* v, of the type old, is equal to something of the type other, which leaves it
\* the type t.  If that is nothing v keeps its type, be it Never, where other has
\* the Null that the declaration of v may lack (missingNullWorkaround).
Equate(state, v, t, old, other) ==
    IF t.tags # {} THEN {Refine(state, v, t)}
    ELSE IF "Null" \in other.tags THEN {Refine(state, v, old)} ELSE {}

WhenEqual(state, test) ==
    LET left == state.types[test.left]
        right == IF test.isVar THEN state.types[test.right] ELSE test.right
    IN  UNION {IF test.isVar
               THEN Equate(s, test.right, RestrictByEquality(left, right), right, left)
               ELSE {s} :
               s \in Equate(state, test.left, RestrictByEquality(right, left), left, right)}

WhenNotEqual(state, test) ==
    LET left == state.types[test.left]
        right == IF test.isVar THEN state.types[test.right] ELSE test.right
    IN  IF IsExact(right) /\ right.tags \subseteq SingletonTags \cap left.tags
        THEN Narrow(state, test.left, Type(left.tags \ right.tags, left.data))
        ELSE {state}

WhenTrue(state, test) ==
    LET left == state.types[test.left]
    IN  IF left.tags \cap {"Null", "False"} = {} THEN {state}
        ELSE Narrow(state, test.left, Type(left.tags \ {"Null", "False"}, left.data))

\* Mutant of WhenFalse: forgets that 0 is false.
WhenNothing(state, test) ==
    Narrow(state, test.left, Intersection(state.types[test.left], Plain({"Null", "False"})))

WhenFalse(state, test) ==
    Narrow(state, test.left, Intersection(state.types[test.left],
                                          Plain({"Null", "False", "Number", "Long", "Enum"})))

\* test.right is the type the class stands for (typeFromTypeStateNode).
WhenInstance(state, test) ==
    {Refine(state, test.left, Intersection(state.types[test.left], test.right))}

WhenNoInstance(state, test) ==
    LET left == state.types[test.left]
        right == test.right
        known == IF Has(left, "Object") THEN left.data["Object"].data["Class"] ELSE {}
        others == {c \in known : ~\A r \in right.data["Object"].data["Class"] : InClasses(c, {r})}
        cleared == ClearValuesUnder(left, {"Object"}, TRUE)
        result ==
            IF ~IsExact(right) /\ right.tags # Boolean THEN {}
            ELSE IF AnyObject(right) THEN {ClearValuesUnder(left, ObjectLikeTags \cup {"Object"}, TRUE)}
            ELSE IF "Object" \in right.tags
            THEN IF others = known THEN {}
                 ELSE {IF others = {} THEN cleared
                       ELSE UnionInto(cleared, Exact("Object", Exact("Class", others)))}
            ELSE IF right.tags \cap ObjectLikeTags # {} /\ right.tags \cap left.tags # {}
            THEN {ClearValuesUnder(left, right.tags, TRUE)}
            ELSE {}
    IN  IF result = {} THEN {state} ELSE {Refine(state, test.left, t) : t \in result}

Apply(state, test, truthy) ==
    CASE test.kind \in {"equal", "unequal"} ->
            IF truthy = (test.kind = "equal") THEN WhenEqual(state, test) ELSE WhenNotEqual(state, test)
      [] test.kind = "truthy" -> IF truthy THEN WhenTrue(state, test) ELSE WhenFalse(state, test)
      [] test.kind = "instanceof" ->
            IF truthy THEN WhenInstance(state, test) ELSE WhenNoInstance(state, test)

(***************************************************************************)
(* mergeTypeState.                                                         *)
(***************************************************************************)
\* Mutant of MergeType: takes any visit for a change.
MergeAgain(to, from, widen) ==
    IF widen /\ SubtypeOf(from, to) THEN Result(to, TRUE)
    ELSE IF widen /\ SubtypeOf(to, from) THEN Result(from, TRUE)
    ELSE UnionHelper(to, from, IF widen THEN 0 ELSE NotWidening)

MergeType(to, from, widen) ==
    IF widen /\ SubtypeOf(from, to) THEN Result(to, FALSE)
    ELSE IF widen /\ SubtypeOf(to, from) THEN Result(from, TRUE)
    ELSE UnionHelper(to, from, IF widen THEN 0 ELSE NotWidening)

\* Adds what became of the equivalences and of the type of v.
WithVariable(merged, v, common, type) ==
    [state |-> [types |-> [merged.state.types EXCEPT ![v] = type.type], equiv |-> common.equiv],
     changed |-> merged.changed \/ common.changed \/ type.changed]

MergeVariables(to, from, widen) ==
    FoldLeft(LAMBDA merged, v :
                WithVariable(merged, v, IntersectEquiv(merged.state.equiv, from.equiv, v),
                             MergeType(to.types[v], from.types[v], widen)),
             [state |-> to, changed |-> FALSE], program.vars)

\* found is [at, visits, queue].
Remember(found, block, merged) ==
    [at |-> [b \in DOMAIN found.at \cup {block} |-> IF b = block THEN merged.state ELSE found.at[b]],
     visits |-> [found.visits EXCEPT ![block] = IF @ >= WidenAfter THEN @ ELSE @ + 1],
     queue |-> IF merged.changed THEN found.queue \cup {block} ELSE found.queue]

MergeTypeState(found, block, from) ==
    Remember(found, block,
             IF block \notin DOMAIN found.at THEN [state |-> from, changed |-> TRUE]
             ELSE MergeVariables(found.at[block], from, found.visits[block] >= WidenAfter))

\* The states with which a block is left for its i-th successor.
Leaving(block, state, i) ==
    IF "kind" \in DOMAIN block.test THEN Apply(state, block.test, i = 1) ELSE {state}

(***************************************************************************)
(* The analysis.                                                           *)
(***************************************************************************)
NoEquiv == [v \in Vars |-> {}]

Init ==
    /\ program \in Programs
    /\ phase = "analysis"
    /\ at = [b \in {1} |-> [types |-> program.types, equiv |-> NoEquiv]]
    /\ visits = [b \in Blocks |-> 0]
    /\ queue = {1}
    /\ pc = 1
    /\ env = <<>>

\* What is found once the state at the end of a block is merged into those of
\* its successors.
Visited(top) ==
    LET block == program.blocks[top]
        state == AfterStatements(at[top], block.stmts)
        toSucc(found, i) ==
            FoldLeft(LAMBDA f, s : MergeTypeState(f, block.succs[i], s),
                     found, SetToSeq(Leaving(block, state, i)))
    IN  FoldLeft(toSucc, [at |-> at, visits |-> visits, queue |-> queue \ {top}],
                 [i \in DOMAIN block.succs |-> i])

Visit ==
    /\ phase = "analysis"
    /\ queue # {}
    /\ \E found \in {Visited(Min(queue))} :
          /\ at' = found.at
          /\ visits' = found.visits
          /\ queue' = found.queue
    /\ UNCHANGED <<program, phase, pc, env>>

(***************************************************************************)
(* A run of the program.                                                   *)
(***************************************************************************)
ValuesOf(t) == {v \in Values : Holds(v, t)}

Start ==
    /\ phase = "analysis"
    /\ queue = {}
    /\ phase' = "run"
    /\ env' \in {e \in [Vars -> Values] : \A v \in Vars : Holds(e[v], program.types[v])}
    /\ UNCHANGED <<program, at, visits, queue, pc>>

RECURSIVE Nesting(_)
Nesting(v) ==
    CASE v[1] = "Array" -> 1 + Max({0} \cup {Nesting(v[2][i]) : i \in DOMAIN v[2]})
      [] v[1] = "Dictionary" -> 1 + Max({0} \cup {Nesting(v[2][k]) : k \in DOMAIN v[2]})
      [] OTHER -> 0

Results(stmt, e) ==
    CASE stmt.kind = "let" -> ValuesOf(stmt.type)
      [] stmt.kind = "copy" -> {e[stmt.from]}
      [] stmt.kind = "array" -> {<<"Array", <<e[stmt.from]>>>>}
      [] stmt.kind = "literal" -> {<<"Dictionary", [k \in {stmt.key} |-> e[stmt.from]]>>}
      [] stmt.kind = "generic" ->
            {<<"Dictionary", [k \in {key} |-> e[stmt.from]]>> : key \in ValuesOf(stmt.type)}

After(envs, stmt) == UNION {{[e EXCEPT ![stmt.var] = v] : v \in Results(stmt, e)} : e \in envs}

\* May the test come out this way?  Things that are made, not just named,
\* may be unequal whatever is in them.
Made == {"Array", "Dictionary", "Object", "Method"}

ComesOut(test, e, truthy) ==
    LET left == e[test.left]
        rights == IF test.kind \notin {"equal", "unequal"} THEN {}
                  ELSE IF test.isVar THEN {e[test.right]} ELSE ValuesOf(test.right)
    IN  CASE test.kind \in {"equal", "unequal"} ->
                \E right \in rights : IF truthy = (test.kind = "equal")
                                      THEN Equals(left, right)
                                      ELSE left[1] \in Made \/ ~Equals(left, right)
          [] test.kind = "truthy" -> truthy = ~IsFalsy(left)
          [] test.kind = "instanceof" -> truthy = Holds(left, test.right)

Run ==
    /\ phase = "run"
    /\ LET block == program.blocks[pc]
       IN  \E e \in FoldLeft(After, {env}, block.stmts), i \in DOMAIN block.succs :
              /\ "kind" \in DOMAIN block.test => ComesOut(block.test, e, i = 1)
              /\ \A v \in Vars : Nesting(e[v]) <= MaxNesting
              /\ pc' = block.succs[i]
              /\ env' = e
    /\ UNCHANGED <<program, phase, at, visits, queue>>

Next == Visit \/ Start \/ Run

Spec == Init /\ [][Next]_vars

(* propagateTypes goes on until its queue is empty: WF_vars(Visit), with   *)
(* the condition for a visit in place of ENABLED <<Visit>>_vars, which     *)
(* would have TLC evaluate the types of each of them anew.                 *)
FairSpec == Spec /\ ([]<>(queue = {}) \/ []<><<Visit>>_vars)

(***************************************************************************)
(* Properties.                                                             *)
(***************************************************************************)
(* The analysis is right about every run: a block that is run was visited, *)
(* and the variables have values of the types it found.  Conditions are    *)
(* folded, code is dropped and calls are resolved because of these types.  *)
Sound ==
    phase = "run" => /\ pc \in DOMAIN at
                     /\ \A v \in Vars : Holds(env[v], at[pc].types[v])

(* Variables it takes for equivalent have the same value: what a test says *)
(* of one is used for all of them, and one is read in place of another.    *)
EquivalentAreEqual ==
    phase = "run" => \A v \in Vars : \A u \in at[pc].equiv[v] : env[u] = env[v]

(* subtypeOf and couldBe, as the tests of instanceof, of diagnostics and   *)
(* of widening use them, are right about the values, and a type that is a  *)
(* subtype of another could be it.                                         *)
ComparesRightly ==
    phase = "analysis" /\ queue = {} =>
        \A b \in DOMAIN at, v \in Vars, u \in Universe :
            LET t == at[b].types[v] IN
            /\ SubtypeOf(t, u) => ValuesOf(t) \subseteq ValuesOf(u)
            /\ SubtypeOf(u, t) => ValuesOf(u) \subseteq ValuesOf(t)
            /\ CouldBe(t, u) \/ ValuesOf(t) \cap ValuesOf(u) = {}
            /\ CouldBe(t, u) = CouldBe(u, t)
            /\ SubtypeOf(t, u) /\ t.tags # {} => CouldBe(t, u)

(* The analysis of a loop ends, however its types nest.                    *)
Ends == <>(queue = {})
=============================================================================
