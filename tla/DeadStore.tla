----------------------------- MODULE DeadStore ------------------------------
(***************************************************************************)
(* findDeadStores (src/type-flow/dead-store.ts): the backward data flow    *)
(* analysis that finds the stores nobody reads, the stores with a single   *)
(* reader (candidates of copy propagation), and the locals that are live   *)
(* together (conflicts, for the minimization of locals).                   *)
(*                                                                         *)
(* The analysis works on a control flow graph: a record of                 *)
(*   entry   the block the function starts with                            *)
(*   succs   the successors of each block                                  *)
(*   exsucc  the block its exceptions go to, or None                       *)
(*   bogo    its bogopred, or None                                         *)
(*   events  the sequence of its events, each with a type ("ref", "def",   *)
(*           "kil", "mod", "exn"), a decl, a form (of a def: "assign",     *)
(*           "update" or "compound"), rhs (of a def: the variable it       *)
(*           stores, or None), copies (the variables known to hold that    *)
(*           value: rhs and its equivalents) and mayThrow                  *)
(*   candidates  findCopyPropCandidates: whether the caller wants to know  *)
(*           the stores with one reader.                                   *)
(* Blocks are numbered in post order; the i-th event of block b is the     *)
(* node <<b, i>> of the syntax tree.                                       *)
(***************************************************************************)
EXTENDS Naturals, Sequences, FiniteSets, SequencesExt

CONSTANTS
    Locals,   \* the locals with a def, and the parameters
    Params,   \* the parameters
    Globals,  \* the other variables
    None,     \* no block, no local
    Graphs    \* the control flow graphs of the functions

Decls == Locals \cup Globals

EventTypes == [type : {"ref", "def", "kil", "mod", "exn"}, decl : Decls \cup {None},
               form : {"", "assign", "update", "compound"}, rhs : Decls \cup {None},
               copies : SUBSET Decls, mayThrow : BOOLEAN]

\* What is known of the i-th event of a block (buildDataFlowGraph): only locals
\* of a block go out of scope; of stores, `x++` alone may throw (mayThrow); the
\* variable that is stored was just read.
EventAssumption(events, i) ==
    LET e == events[i]
    IN  /\ e.type \in {"ref", "def", "kil"} <=> e.decl # None
        /\ e.type = "def" <=> e.form # ""
        /\ e.type = "kil" => e.decl \in Locals \ Params
        /\ e.mayThrow => e.type \in {"mod", "exn"} \/ e.form = "update"
        /\ IF e.rhs = None
           THEN e.copies = {}
           ELSE /\ e.form = "assign" /\ e.rhs \in e.copies
                /\ i > 1 /\ events[i - 1].type = "ref" /\ events[i - 1].decl = e.rhs

\* Which references of a local may be reached: none, one (a node), or many.
NoRef == <<>>
Many == <<"many">>
Refs == {NoRef, Many} \cup (Nat \X Nat)

\* A DeadState.  `dead` holds what is not read before it is written again;
\* `ant` the reference every path reaches first, `pant` the one some path
\* reaches.  (An AntMap that is undefined is an empty one.)
DeadState == [dead : SUBSET Decls, ant : [Locals -> Refs], pant : [Locals -> Refs]]

ASSUME GraphAssumption ==
    /\ Params \subseteq Locals
    /\ Locals \cap Globals = {}
    /\ IsFiniteSet(Locals) /\ IsFiniteSet(Globals)
    /\ \A v \in Globals : v \notin Nat
    /\ None \notin Decls \cup DeadState \cup Nat \cup (Nat \X Nat)
    /\ \A g \in Graphs :
        /\ g.candidates \in BOOLEAN
        /\ g.succs \in Seq(SUBSET Nat)
        /\ g.entry \in DOMAIN g.succs
        /\ \A b \in DOMAIN g.succs :
            /\ g.succs[b] \subseteq DOMAIN g.succs
            /\ {g.exsucc[b], g.bogo[b]} \subseteq DOMAIN g.succs \cup {None}
            /\ g.events[b] \in Seq(EventTypes)
            /\ \A i \in DOMAIN g.events[b] : EventAssumption(g.events[b], i)

VARIABLES
    graph,   \* the graph under analysis
    queue,   \* the blocks to be visited (DataflowQueue)
    states,  \* blockStates: the state at the end of each block, or None
    found    \* deadStores, copyPropStores and nodeConflicts

avars == <<graph, queue, states, found>>

Blocks == DOMAIN graph.succs
Event(b, i) == graph.events[b][i]

Everywhere(dead) == [dead |-> dead,
                     ant |-> [x \in Locals |-> NoRef],
                     pant |-> [x \in Locals |-> NoRef]]

\* Blocks without successors are queued; what they leave of locals is dead.
Init ==
    /\ graph \in Graphs
    /\ queue = {b \in DOMAIN graph.succs : graph.succs[b] = {}}
    /\ states = [b \in DOMAIN graph.succs |->
                    IF graph.succs[b] = {} THEN Everywhere(Locals) ELSE None]
    /\ found = [dead |-> {}, copy |-> <<>>, conflicts |-> <<>>]

-----------------------------------------------------------------------------
(* States.                                                                 *)

\* mergeStates, for each of the three parts of a state: the result, and
\* whether it reports a change.  Mutants: dead on one path is dead; one path
\* that reaches a reference is as good as all.
MergeDeadAny(to, from) == to \cup from
MergeDead(to, from) == to \cap from
MergeAntAny(to, from) == IF to = NoRef THEN from ELSE to
MergeAnt(to, from) == IF to = from THEN to ELSE NoRef
MergePartlyFirst(to, from) == IF to = NoRef THEN from ELSE to
MergePartly(to, from) ==
    IF from = NoRef THEN to ELSE IF to \in {NoRef, from} THEN from ELSE Many

mergeStates(to, from) ==
    [dead |-> MergeDead(to.dead, from.dead),
     ant  |-> [x \in Locals |-> MergeAnt(to.ant[x], from.ant[x])],
     pant |-> [x \in Locals |-> MergePartly(to.pant[x], from.pant[x])]]

\* The last disjunct also holds where `to` has been Many before.  A mutant
\* reports a change wherever there is a difference.
ChangesIfDifferent(to, from) == to # from
Changes(to, from) ==
    \/ ~(to.dead \subseteq from.dead)
    \/ \E x \in Locals : to.ant[x] \notin {NoRef, from.ant[x]}
    \/ \E x \in Locals : from.pant[x] \notin {NoRef, to.pant[x]}

addAnt(ref, n) == IF ref \in {NoRef, n} THEN n ELSE Many

copyPropRef(s, x, n) ==
    IF graph.candidates /\ x \in Locals
    THEN [dead |-> s.dead,
          ant |-> [s.ant EXCEPT ![x] = addAnt(s.ant[x], n)],
          pant |-> [s.pant EXCEPT ![x] = addAnt(s.pant[x], n)]]
    ELSE s

-----------------------------------------------------------------------------
(* Events: the state before an event, from the state behind it.            *)

\* An event that may throw is followed by the handler, whose state is part of
\* that at the end of the block.  A mutant that forgets the handler.
NoThrow(s, b, e) == s
AfterThrow(s, b, e) ==
    IF e.mayThrow /\ graph.exsucc[b] # None THEN mergeStates(s, states[b]) ELSE s

Ref(s, e, n) == [copyPropRef(s, e.decl, n) EXCEPT !.dead = @ \ {e.decl}]

\* The references behind a store are none of the value before it.
Store(s, x) ==
    IF x \in s.dead \/ x \notin Locals
    THEN s
    ELSE [dead |-> s.dead, ant |-> [s.ant EXCEPT ![x] = NoRef], pant |-> [s.pant EXCEPT ![x] = NoRef]]

Def(s, e, n) ==
    LET t == Store(s, e.decl)
    IN  CASE e.form = "assign" -> [t EXCEPT !.dead = @ \cup {e.decl}]
          [] e.form = "update" -> copyPropRef(t, e.decl, n)
          [] e.form = "compound" -> t

Kil(s, e) == [s EXCEPT !.dead = @ \cup {e.decl}]

\* A call may read anything but locals.
Mod(s) == [s EXCEPT !.dead = @ \cap Locals]

Before(s, e, n) ==
    CASE e.type = "ref" -> Ref(s, e, n)
      [] e.type = "def" -> Def(s, e, n)
      [] e.type = "kil" -> Kil(s, e)
      [] e.type = "mod" -> Mod(s)
      [] e.type = "exn" -> s

\* What is found at a store.  It is dead, or it is not, and may have a single
\* reader.
Put(f, k, v) == [i \in DOMAIN f \cup {k} |-> IF i = k THEN v ELSE f[i]]
Without(f, k) == [i \in DOMAIN f \ {k} |-> f[i]]

DeadFound(dead, s, x, n) == IF x \in s.dead THEN dead \cup {n} ELSE dead \ {n}
CopyFound(copy, s, x, n) ==
    IF x \in s.dead THEN copy
    ELSE IF x \notin Locals \/ s.pant[x] \in {NoRef, Many} THEN Without(copy, n)
    ELSE Put(copy, n, [ref |-> s.pant[x], ant |-> s.ant[x] = s.pant[x]])

\* What is live behind a store conflicts with it, but for what it copies.
\* Mutant: what is live before it.
ConflictsBefore(s, e) == (Locals \ (s.dead \cup {e.decl})) \ e.copies
Conflicts(s, e) == ((Locals \ s.dead) \ e.copies) \cup {e.decl}

Judge(f, s, e, n) ==
    [dead |-> DeadFound(f.dead, s, e.decl, n),
     copy |-> CopyFound(f.copy, s, e.decl, n),
     conflicts |-> Put(f.conflicts, n, Conflicts(s, e))]

Backward(b, i, acc) ==
    LET e == Event(b, i)
        s == AfterThrow(acc.state, b, e)
    IN  [state |-> Before(s, e, <<b, i>>),
         found |-> IF e.type = "def" THEN Judge(acc.found, s, e, <<b, i>>) ELSE acc.found]

\* The walk through a block from its end: walk[k] is the state, with what was
\* found, before the last k events.
Walk(b) ==
    LET n == Len(graph.events[b])
        walk[k \in 0 .. n] == IF k = 0 THEN [state |-> states[b], found |-> found]
                              ELSE Backward(b, n + 1 - k, walk[k - 1])
    IN  walk

-----------------------------------------------------------------------------
(* The worklist.                                                           *)

\* DataflowQueue takes the block that comes first in post order.
First == CHOOSE b \in queue : \A c \in queue : b <= c

PredsIn(g, b) == {p \in DOMAIN g.succs : b \in g.succs[p] \/ g.exsucc[p] = b}
                 \cup ({g.bogo[b]} \ {None})
Preds(b) == PredsIn(graph, b)

Visit ==
    /\ queue # {}
    /\ LET b == First
           start == Walk(b)[Len(graph.events[b])]
           Grows(p) == states[p] = None \/ Changes(states[p], start.state)
       IN  /\ found' = start.found
           /\ queue' = (queue \ {b}) \cup {p \in Preds(b) : Grows(p)}
           /\ states' = [p \in Blocks |->
                IF p \notin Preds(b) THEN states[p]
                ELSE IF states[p] = None THEN start.state
                ELSE mergeStates(states[p], start.state)]
    /\ UNCHANGED graph

Analyzed == queue = {}

\* The pairs of declarations that may not share a variable: those that meet in
\* the conflicts of some store (a global that is stored to is among them), and
\* the parameters.
localConflicts ==
    {pair \in Decls \X Decls :
        /\ pair[1] # pair[2]
        /\ \/ \E n \in DOMAIN found.conflicts : {pair[1], pair[2]} \subseteq found.conflicts[n]
           \/ pair[1] \in Params /\ pair[2] \in Params}

-----------------------------------------------------------------------------
(* Properties.                                                             *)

\* The analysis ends, whatever the loops of the function: mergeStates reports
\* a change only finitely often (line 318).
Terminates == <>Analyzed

\* It does where no candidates of copy propagation are asked for.
TerminatesPlainly == ~graph.candidates ~> Analyzed
=============================================================================
