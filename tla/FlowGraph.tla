----------------------------- MODULE FlowGraph -----------------------------
(***************************************************************************)
(* A graph that the optimizer makes of a function, and the function run    *)
(* along it: either the function runs, and `at` is where in the graph it   *)
(* may be (`leads = "function"`), or a path is taken through the graph,    *)
(* and `todo` is what of the function may be left to do                    *)
(* (`leads = "graph"`).                                                    *)
(***************************************************************************)
EXTENDS ControlFlow

CONSTANT Functions      \* syntax trees, their nodes told apart

VARIABLES function, graph, phase, leads, todo, at
vars == <<function, graph, phase, leads, todo, at>>

Init ==
  /\ function \in Functions
  /\ graph = NewBuilder(TRUE)
  /\ phase = "build"
  /\ leads = "function"
  /\ todo = {<<Do(function)>>}
  /\ at = {[block |-> 1, i |-> 1]}

Build ==
  /\ phase = "build"
  /\ graph' = BuildGraph(graph, function)
  /\ phase' = "clean"
  /\ UNCHANGED <<function, leads, todo, at>>

(***************************************************************************)
(* Edges that stand for no path, or for more paths than there are: out of  *)
(* a loop from the end of its body, to the handler from the start of a     *)
(* `try`, and out of a finalizer to wherever one may go from it.           *)
(***************************************************************************)
IsExact(f) == Kinds(f) \cap {"while", "try"} = {}

Place(block, i) == [block |-> block, i |-> i]
Events(place) == graph.blocks[place.block].events
IsAtEvent(place) == place.i <= Len(Events(place))
EventAt(place) == Events(place)[place.i]
IsAtEnd(place) == ~IsAtEvent(place) /\ (IF place.i = 1 THEN TRUE ELSE Events(place)[place.i - 1].k # "flow")
Successors(place) == {Place(graph.blocks[place.block].succs[i], 1) : i \in DOMAIN graph.blocks[place.block].succs}

RECURSIVE Moved(_)
\* where one may be without another event
Moved(places) ==
  LET more == UNION {Successors(p) : p \in {q \in places : IsAtEnd(q)}} \ places
  IN  IF more = {} THEN places ELSE Moved(places \cup more)

\* the place behind an event, depending on how it went
Behind(place, how) ==
  LET block == graph.blocks[place.block] IN
  CASE how = "done" -> {Place(place.block, place.i + 1)}
    [] how = "yes" -> {Place(block.succs[1], 1)}
    [] how = "no" -> {Place(block.succs[2], 1)}
    [] how = "throws" -> IF EventAt(place).throws /\ block.exsucc # 0 THEN {Place(block.exsucc, 1)} ELSE {}

IsSilent(step) == step.how = ""
IsTest(step) == step.how \in {"yes", "no"}
IsFor(event, step) == event.id = step.id /\ (event.k = "flow") = IsTest(step)
\* what is no event: operators and throws outside of any try, tests that say nothing of a variable, which case or clause
\* it is
IsUnnoticed(step) ==
  /\ step.k \in {"bin", "throw", "case", "clause", "lit"} \/ (step.k = "call" /\ IsTest(step))
  /\ \A b \in DOMAIN graph.blocks : \A i \in DOMAIN graph.blocks[b].events : ~IsFor(graph.blocks[b].events[i], step)
Follow(places, step) ==
  IF IsSilent(step) \/ IsUnnoticed(step) THEN places
  ELSE Moved(UNION {Behind(p, step.how) : p \in {q \in places : IsAtEvent(q) /\ IsFor(EventAt(q), step)}})

RECURSIVE Settled(_)
\* what may be left to do after steps that cannot be seen
Settled(todos) ==
  LET quiet(k) == {s.todo : s \in {t \in Steps(k) : IsSilent(t) \/ IsUnnoticed(t)}}
      more == UNION {quiet(k) : k \in todos} \ todos
  IN  IF more = {} THEN todos ELSE Settled(todos \cup more)

Clean ==
  /\ phase = "clean"
  /\ graph' = [graph EXCEPT !.blocks = CleanCfg(@)]
  /\ phase' = "start"
  /\ UNCHANGED <<function, leads, todo, at>>

Start ==
  /\ phase = "start"
  /\ phase' = "run"
  /\ leads' \in {"function"} \cup (IF IsExact(function) THEN {"graph"} ELSE {})
  /\ todo' = IF leads' = "graph" THEN Settled(todo) ELSE todo
  /\ at' = IF leads' = "function" THEN Moved(at) ELSE at
  /\ UNCHANGED <<function, graph>>

RunFunction ==
  /\ phase = "run" /\ leads = "function"
  /\ \E k \in todo : \E s \in Steps(k) :
       /\ todo' = {s.todo}
       /\ at' = Follow(at, s)
  /\ UNCHANGED <<function, graph, phase, leads>>

\* the function ends where the path does
RunGraph ==
  /\ phase = "run" /\ leads = "graph" /\ todo # {}
  /\ \E p \in at :
       \/ /\ IsAtEnd(p)
          /\ \E q \in Successors(p) : at' = {q}
          /\ UNCHANGED todo
       \/ /\ IsAtEvent(p)
          /\ \E how \in IF EventAt(p).k = "flow" THEN {"yes", "no"} ELSE {"done"} :
               /\ at' = Behind(p, how)
               /\ todo' = Settled({s.todo : s \in {t \in UNION {Steps(k) : k \in todo} :
                                                      IsFor(EventAt(p), t) /\ t.how = how}})
  /\ UNCHANGED <<function, graph, phase, leads>>

Next == Build \/ Clean \/ Start \/ RunFunction \/ RunGraph
Spec == Init /\ [][Next]_vars

-----------------------------------------------------------------------------
\* Whatever a function does can be followed in its graph: every analysis relies on that, none looks at a path the graph
\* does not have (`buildReducedGraph`, with exceptions, tests and what is left in the middle)
EveryPathIsInGraph == leads = "function" /\ todo # {<<>>} => at # {}

\* A statement that is taken out of the function, because the walk found that it cannot be reached, is never run
RemovedIsNeverRun ==
  leads = "function" => \A k \in todo : k # <<>> /\ Head(k).f = "do" => Head(k).n.id \notin graph.removed

\* Without the edges that are there on purpose, a path in the graph is one the function may take, to the end
NoOtherPath ==
  phase = "run" /\ leads = "graph" =>
    /\ todo # {}
    /\ \A p \in at : (IsAtEnd(p) /\ Successors(p) = {}) => <<>> \in todo

\* The two ends of an edge know of each other, for edges and for exceptions, before and after blocks are merged; what can
\* throw in a `try` knows where to; and no assertion of the code fails, of the builder or of an analysis
EdgesHaveTwoEnds ==
  LET blocks == graph.blocks
      live == {PostOrder(blocks)[i] : i \in DOMAIN PostOrder(blocks)}
      Has(s, x) == \E i \in DOMAIN s : s[i] = x
  IN  /\ graph.broken = {}
      /\ phase \in {"clean", "start"} =>
           \A a \in live :
             /\ \A i \in DOMAIN blocks[a].succs : Has(blocks[blocks[a].succs[i]].preds, a)
             /\ blocks[a].exsucc # 0 => Has(blocks[blocks[a].exsucc].expreds, a)
             /\ \A i \in DOMAIN blocks[a].events :
                  blocks[a].events[i].throws => blocks[a].exsucc \in DOMAIN blocks
             /\ \A b \in live : /\ Has(blocks[a].preds, b) => Has(blocks[b].succs, a)
                                /\ Has(blocks[a].expreds, b) => blocks[b].exsucc = a
=============================================================================
