------------------------------ MODULE DataFlow ------------------------------
(***************************************************************************)
(* The events an analysis is told of while the graph of a function is      *)
(* built (`buildDataFlowGraph`).  The analysis of types asks for all       *)
(* variables (`allRefs`); the elimination of redundant expressions for     *)
(* variables and constants of modules and for literals, and only where a   *)
(* temporary could be given their value first: not where a call, or a new  *)
(* value, is in the way that belongs to the same statement (`live`).       *)
(***************************************************************************)
EXTENDS Statements

CONSTANTS Vars, Consts,     \* names of modules' variables and constants; all others are local
          Named             \* the functions of a name, wherever they are, as a sequence

IsGlobal(x) == x \in Vars \cup Consts

\* what a read takes; the code goes by the first one it meets, and here all reads of a variable are alike (`x`, never `M.x`)
LiteralCost(x) == CASE x \in {"true", "null"} -> 2 [] x = "1.5d" -> 9 [] OTHER -> 5
LocalRefCost == 2
RefCost(x) == IF IsGlobal(x) THEN 8 ELSE LiteralCost(x)

\* what is kept between events: the calls (`AnyCall`) and new values in statements that are not done yet, those there is
\* more than one of, which stay for good, and the identifiers
AnyCall == ""
NewNotes(allRefs) == [allRefs |-> allRefs, once |-> {}, many |-> {}]
LiveDef(notes, def, stmt) ==
  LET entry == [def |-> def, stmt |-> stmt] IN
  IF notes.allRefs THEN notes
  ELSE IF entry \in notes.once \cup notes.many
  THEN [notes EXCEPT !.once = @ \ {entry}, !.many = @ \cup {entry}]
  ELSE [notes EXCEPT !.once = @ \cup {entry}]
Completed(notes, node) == [notes EXCEPT !.once = {entry \in @ : entry.stmt # node}]
IsInTheWay(notes, x) ==
  \E entry \in notes.once \cup notes.many : entry.def = x \/ (entry.def = AnyCall /\ x \in Vars)

Event(n, k, throws) == [id |-> n.id, k |-> k, x |-> n.x, throws |-> throws, update |-> n.k = "upd", callees |-> <<>>]
\* a name nothing is known of may be any function of that name, or anything
CalledBy(n) == IF n.x \in DOMAIN Named THEN Named[n.x] ELSE <<AnyCall>>

FindsDecl(notes, x) == notes.allRefs \/ IsGlobal(x)
\* notes and events once a node is done, `stmt` being the statement it belongs to
Noticed(before, n, stmt, throws) ==
  LET notes == Completed(before, n.id)
      exn == IF throws THEN <<Event(n, "exn", TRUE)>> ELSE <<>>
      Result(after, events) == [notes |-> after, events |-> events]
  IN  CASE n.k = "lit" ->
             Result(notes, IF ~notes.allRefs /\ LiteralCost(n.x) > LocalRefCost THEN <<Event(n, "ref", FALSE)>> ELSE <<>>)
        [] n.k = "ref" ->
             Result(notes, IF FindsDecl(notes, n.x) /\ ~IsInTheWay(notes, n.x) THEN <<Event(n, "ref", FALSE)>> ELSE <<>>)
        [] n.k \in {"set", "upd"} ->
             IF FindsDecl(notes, n.x) THEN Result(LiveDef(notes, n.x, stmt), <<Event(n, "def", throws)>>)
             ELSE Result(notes, exn)
        [] n.k = "call" ->
             Result(LiveDef(notes, AnyCall, stmt), <<[Event(n, "mod", throws) EXCEPT !.callees = CalledBy(n)]>>)
        [] OTHER -> Result(notes, exn)

RECURSIVE SaysSomething(_)
\* tests that say something of a variable, whichever way they go
SaysSomething(n) ==
  \/ n.k = "ref"
  \/ n.k = "bin" /\ n.x = "==" /\ \E i \in DOMAIN n.kids : n.kids[i].k = "ref"
  \/ n.k = "bin" /\ n.x = "instanceof" /\ \A i \in DOMAIN n.kids : n.kids[i].k = "ref"
  \/ n.k = "bin" /\ n.x = "!" /\ n.kids[1].k # "ref" /\ SaysSomething(n.kids[1])
FlowEvents(notes, n) == IF notes.allRefs /\ SaysSomething(n) THEN <<Event(n, "flow", FALSE)>> ELSE <<>>
=============================================================================
