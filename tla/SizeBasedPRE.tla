---------------------------- MODULE SizeBasedPRE ----------------------------
(***************************************************************************)
(* Functions on their way through the analyses of the source: their graph  *)
(* is built, and followed (FlowGraph); or it is built for `sizeBasedPRE`,  *)
(* which rewrites them.  Then the function and what has become of it run   *)
(* side by side: `todo` and `twin` are what is left of them.  Values are   *)
(* not known, but which of the new locals have the value of what they      *)
(* stand for (`same`), and which variables do not have their new value yet *)
(* (`owed`); `wrong` are those that were read nevertheless.                *)
(***************************************************************************)
EXTENDS PRE, FlowGraph

CONSTANT Programs       \* functions to rewrite

VARIABLES
  queue, states, infos,         \* of the analysis
  beat,                         \* turns with each of its steps
  rewritten, twin, same, owed, wrong
analysis == <<queue, states, infos, beat, rewritten>>
twins == <<twin, same, owed, wrong>>
all == <<vars, analysis, twins>>

InitRewrite ==
  /\ function \in Programs
  /\ graph = NewBuilder(FALSE)
  /\ phase = "build"
  /\ leads = "graph"
  /\ todo = {<<Do(function)>>}
  /\ at = {}
InitTwins ==
  /\ queue = {} /\ states = <<>> /\ infos = Infos /\ beat = 0 /\ rewritten = Nothing
  /\ twin = <<>> /\ same = {} /\ owed = {} /\ wrong = {}

ForPRE == ~graph.notes.allRefs

SplitGraph ==
  /\ phase = "start" /\ ForPRE
  /\ LET blocks == SplitBlocks(graph.blocks)
     IN  /\ graph' = [graph EXCEPT !.blocks = blocks]
         /\ queue' = Range(PostOrder(blocks))
  /\ phase' = "visit"
  /\ beat' = 1 - beat
  /\ UNCHANGED <<function, leads, todo, at, states, infos, rewritten, twins>>

\* the block that is first in the order, or one that is not in it at all
First(order) ==
  LET place(b) == IF b \in Range(order) THEN CHOOSE i \in DOMAIN order : order[i] = b ELSE 1
  IN  CHOOSE b \in queue : \A c \in queue : place(b) <= place(c)
\* mutant: whatever is found is new
VisitedAnew(order, cur) ==
  LET s == AtStart(graph.blocks, states, infos, cur)
  IN  /\ infos' = s.infos
      /\ states' = (cur :> s.decls) @@ states
      /\ queue' = (queue \ {cur}) \cup Range(graph.blocks[cur].preds)
Visited(order, cur) ==
  LET s == AtStart(graph.blocks, states, infos, cur)
      changed == cur \notin DOMAIN states \/ states[cur] # s.decls
  IN  /\ infos' = s.infos
      /\ states' = IF changed THEN (cur :> s.decls) @@ states ELSE states
      /\ queue' = (queue \ {cur}) \cup (IF changed THEN Range(graph.blocks[cur].preds) ELSE {})
VisitBlock ==
  /\ phase = "visit" /\ queue # {}
  /\ LET order == PostOrder(graph.blocks)
         cur == First(order)
     IN  IF cur \in Range(order) THEN Visited(order, cur) /\ UNCHANGED <<graph, phase>>
         ELSE /\ graph' = [graph EXCEPT !.broken = @ \cup {"Unreachable block was visited!"}]
              /\ phase' = "failed"
              /\ UNCHANGED <<queue, states, infos>>
  /\ beat' = 1 - beat
  /\ UNCHANGED <<function, leads, todo, at, rewritten, twins>>

Rewrite ==
  /\ phase = "visit" /\ queue = {}
  /\ LET found == Candidates(graph.blocks, states) IN
     /\ graph' = [graph EXCEPT !.broken = @ \cup found.broken]
     /\ rewritten' = Single(Rewritten(found.best, function))
     /\ phase' = IF found.best = <<>> THEN "kept" ELSE "rewritten"
     /\ twin' = <<Do(rewritten')>>
  /\ beat' = 1 - beat
  /\ UNCHANGED <<function, leads, todo, at, queue, states, infos, same, owed, wrong>>

-----------------------------------------------------------------------------
Subjects == Vars \cup Consts \cup {n.x : n \in {m \in AllNodes(function) : m.k = "lit"}}
StandsFor(name) == {x \in Subjects : Pre(x) = name}

\* all that a call of f may change: what it sets, and what the functions do that it may call
RECURSIVE Reached(_)
Reached(fs) ==
  LET next(e) == IF e.k = "assign" THEN {} ELSE IF e.found # {} THEN e.found ELSE FunctionsOf(e.name)
      more == UNION {IF f \in DOMAIN EffectsOf THEN UNION {next(e) : e \in Range(EffectsOf[f])}
                     ELSE IF f \in Invokers THEN AllExposed ELSE {} : f \in fs} \ fs
  IN  IF more = {} THEN fs ELSE Reached(fs \cup more)
Changed(e) ==
  CASE e.k = "assign" -> IF e.found # {} THEN e.found \cap Vars ELSE IF e.name = AnyCall THEN Vars ELSE {e.name} \cap Vars
    [] e.k = "new" /\ e.name = AnyCall -> Vars
    [] e.k = "call" /\ e.found = {} /\ e.name = AnyCall -> Vars
    [] OTHER -> {}
ChangedBy(name) ==
  IF name \notin DOMAIN Named THEN Vars
  ELSE LET called == Reached(Range(Named[name]))
       IN  IF called \subseteq DOMAIN Infos
           THEN UNION {Changed(e) : e \in UNION {Range(EffectsOf[f]) : f \in called \cap DOMAIN EffectsOf}}
           ELSE Vars

(***************************************************************************)
(* An operation of the rewritten function.                                 *)
(***************************************************************************)
Locals == [same |-> same, owed |-> owed, wrong |-> wrong]
Performed(s, n, how) ==
  LET mine == StandsFor(n.x) IN
  CASE n.k = "ref" -> [s EXCEPT !.wrong = @ \cup (mine \ s.same) \cup ({n.x} \cap s.owed)]
    [] n.k = "upd" /\ how = "throws" -> s
    [] n.k \in {"set", "upd"} /\ mine # {} ->
         [s EXCEPT !.same = @ \cup mine, !.owed = IF n.id = 0 THEN @ ELSE @ \cup mine,
                   !.wrong = IF n.k = "upd" THEN @ \cup (mine \ s.same) ELSE @]
    [] n.k \in {"set", "upd"} -> IF n.id = 0 THEN [s EXCEPT !.owed = @ \ {n.x}] ELSE [s EXCEPT !.same = @ \ {n.x}]
    [] n.k = "call" -> [s EXCEPT !.same = @ \ ChangedBy(n.x), !.wrong = @ \cup s.owed]
    [] OTHER -> s

IsHidden(step) == IsSilent(step) \/ step.id = 0
RECURSIVE ToVisible(_), TwinToVisible(_)
ToVisible(k) == IF \E t \in Steps(k) : IsSilent(t) THEN ToVisible((CHOOSE t \in Steps(k) : TRUE).todo) ELSE k
\* with the operations that were added
TwinToVisible(s) ==
  IF ~\E t \in Steps(s.twin) : IsHidden(t) THEN s
  ELSE LET t == CHOOSE t \in Steps(s.twin) : TRUE
           n == Head(s.twin).n
       IN  TwinToVisible([s EXCEPT !.twin = t.todo, !.locals = IF IsSilent(t) THEN @ ELSE Performed(@, n, t.how)])

SetTwin(s) ==
  /\ twin' = s.twin
  /\ same' = s.locals.same
  /\ owed' = s.locals.owed
  /\ wrong' = s.locals.wrong
BeginTwins ==
  /\ phase = "rewritten"
  /\ phase' = "twins"
  /\ todo' = {ToVisible(k) : k \in todo}
  /\ SetTwin(TwinToVisible([twin |-> twin, locals |-> Locals]))
  /\ UNCHANGED <<function, graph, leads, at, analysis>>
StepTwins ==
  /\ phase = "twins"
  /\ \E k \in todo : \E s \in Steps(k) : \E t \in Steps(twin) :
       /\ t.id = s.id /\ t.how = s.how
       /\ todo' = {ToVisible(s.todo)}
       /\ SetTwin(TwinToVisible([twin |-> t.todo, locals |-> Performed(Locals, Head(twin).n, t.how)]))
  /\ UNCHANGED <<function, graph, phase, leads, at, analysis>>

-----------------------------------------------------------------------------
InitAll == (Init \/ InitRewrite) /\ InitTwins
\* the first two steps are those of FlowGraph
Prepare == (Build \/ Clean) /\ beat' = (IF ForPRE THEN 1 - beat ELSE beat) /\ UNCHANGED <<queue, states, infos, rewritten, twins>>
FollowGraph == ~ForPRE /\ (Start \/ RunFunction \/ RunGraph) /\ UNCHANGED <<analysis, twins>>
NextAll == Prepare \/ FollowGraph \/ SplitGraph \/ VisitBlock \/ Rewrite \/ BeginTwins \/ StepTwins

\* a function is analysed without a pause
Working == {"build", "clean", "start", "visit"}
SpecAll == InitAll /\ [][NextAll]_all /\ WF_beat(ForPRE /\ phase \in Working /\ beat' = 1 - beat)

\* A read of the local gives what a read of the variable would have given, and whoever else reads a variable finds its
\* new value: no way into the part of the function that was rewritten is forgotten, and no change of the variable on a
\* way through it (`computeAttributes`, `functionMayModify`, `applyReplacements`)
SameReads == wrong = {} /\ (twin = <<>> => owed = {})

\* The rewritten function does what the function does, step by step, and ends where it ends
InStep ==
  phase = "twins" =>
    \A k \in todo : /\ (k = <<>>) = (twin = <<>>)
                    /\ \A s \in Steps(k) : \E t \in Steps(twin) : t.id = s.id /\ t.how = s.how

RECURSIVE Size(_)
\* bytes for what is read and set
Size(n) ==
  FoldUp(LAMBDA sum, kid : sum + Size(kid),
         CASE n.k \in {"ref", "set"} /\ ~IsGlobal(n.x) -> LocalRefCost
           [] n.k \in {"ref", "set"} -> 8
           [] n.k = "upd" -> IF IsGlobal(n.x) THEN 16 ELSE 2 * LocalRefCost
           [] n.k = "lit" -> LiteralCost(n.x)
           [] OTHER -> 0,
         n.kids)
\* It is done only where the code gets smaller (`candidateCost`)
Smaller == phase = "rewritten" => Size(rewritten) < Size(function)

\* The analysis comes to an end: what is known of the blocks settles, round loops and all (`queue`)
Ends == ForPRE /\ phase = "build" ~> phase \notin Working
=============================================================================
