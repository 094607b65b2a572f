-------------------------------- MODULE PRE --------------------------------
(***************************************************************************)
(* Size based partial redundancy elimination (`sizeBasedPRE`): what is     *)
(* read time and again of a module's variable, or written time and again   *)
(* as a literal, is kept in a local, `pre_x`, where that makes the code    *)
(* smaller.  The reads become reads of the local; every place where the    *)
(* variable may have changed gets an assignment to it, and so does every   *)
(* way into the part of the function that relies on it.                    *)
(*                                                                         *)
(* What is known at the start of a block, for each variable or literal:    *)
(* the events further on that would have to change (`ant`), whether it is  *)
(* read before it is set (`live`), the blocks that belong to it with their *)
(* own `live` (`members`), and whether it has to do with what is before    *)
(* (`isolated`).                                                           *)
(***************************************************************************)
EXTENDS ControlFlow, FunctionInfo

DefCost(x) == RefCost(x) + 2

-----------------------------------------------------------------------------
(***************************************************************************)
(* Blocks are split between a read of a variable and what changes it, and  *)
(* calls that do nothing are dropped.                                      *)
(***************************************************************************)
SplitAt(blocks, cur, i) ==
  LET new == Len(blocks) + 1
      tail == [blocks[cur] EXCEPT !.node = 0, !.preds = <<cur>>, !.expreds = <<>>, !.events = SubSeq(@, i, Len(@))]
      cut == [Append(blocks, tail) EXCEPT ![cur].succs = <<new>>, ![cur].events = SubSeq(@, 1, i - 1)]
      Redirect(bs, s) ==
        [bs EXCEPT ![s].preds = Replace(@, cur, new), ![s].expreds = IF Contains(@, cur) THEN Append(@, new) ELSE @]
  IN  FoldUp(Redirect, cut, tail.succs)

Dropped(e) == [e EXCEPT !.k = "dropped", !.throws = FALSE]
\* s: the blocks, and the events seen behind event i of block cur, up to where it was split last
SplitBehind(s, cur, i) ==
  LET e == s.blocks[cur].events[i]
      SplitIf(must) == IF must THEN [blocks |-> SplitAt(s.blocks, cur, i + 1), mod |-> FALSE, refs |-> {}, defs |-> {}] ELSE s
  IN  CASE e.k = "ref" /\ e.x \in Vars -> [SplitIf(s.mod \/ e.x \in s.defs) EXCEPT !.refs = @ \cup {e.x}]
        [] e.k = "def" -> [SplitIf(e.x \in s.refs) EXCEPT !.defs = @ \cup {e.x}]
        [] e.k = "mod" -> IF HasNoEffect(e.callees) THEN [s EXCEPT !.blocks[cur].events[i] = Dropped(e)]
                          ELSE [SplitIf(s.refs # {}) EXCEPT !.mod = TRUE]
        [] OTHER -> s
Backward(s) == [i \in 1..Len(s) |-> Len(s) + 1 - i]
SplitBlock(blocks, cur) ==
  FoldUp(LAMBDA s, i : SplitBehind(s, cur, i), [blocks |-> blocks, mod |-> FALSE, refs |-> {}, defs |-> {}],
         Backward(blocks[cur].events)).blocks
SplitBlocks(blocks) == FoldUp(SplitBlock, blocks, PostOrder(blocks))

-----------------------------------------------------------------------------
NoMembers == <<>>
NewState == [ant |-> {}, live |-> TRUE, members |-> NoMembers, isolated |-> FALSE]
NoDecls == <<>>

MergeState(s, t) == [s EXCEPT !.ant = @ \cup t.ant, !.live = @ \/ t.live, !.members = t.members @@ @]
MergeDecls(decls, more) ==
  LET coming == {x \in DOMAIN more : ~more[x].isolated}
  IN  [x \in DOMAIN decls \cup coming |->
         IF x \notin coming THEN decls[x] ELSE IF x \in DOMAIN decls THEN MergeState(decls[x], more[x]) ELSE more[x]]
SetState(decls, x, s) == (x :> s) @@ decls
StateOf(decls, x) == IF x \in DOMAIN decls THEN decls[x] ELSE NewState

\* an event of the function, or an assignment to the local that goes behind the statement of an event, or before a node
Spot(e, how) == [id |-> e.id, k |-> e.k, how |-> how]
Own(e) == Spot(e, "own")
After(e) == Spot(e, "after")
Before(node) == [id |-> node, k |-> "node", how |-> "before"]
IsInsertion(p) == p.how # "own"

Boundary(s, head, blocks) ==
  (UNION {Range(blocks[b].preds) : b \in {m \in DOMAIN s.members : s.members[m] /\ m # head}} \ DOMAIN s.members)
  \cup (IF s.live THEN {head} ELSE {})
\* mutant: the assignments on the ways in cost nothing
CostInside(x, s, head, blocks) ==
  LET refs == {p \in s.ant : p.k = "ref"}
  IN  DefCost(x) * Cardinality(s.ant \ refs) - (RefCost(x) - LocalRefCost) * Cardinality(refs)
Cost(x, s, head, blocks) ==
  LET refs == {p \in s.ant : p.k = "ref"}
  IN  DefCost(x) * (Cardinality(s.ant \ refs) + Cardinality(Boundary(s, head, blocks)))
      - (RefCost(x) - LocalRefCost) * Cardinality(refs)

(***************************************************************************)
(* From the end of a block to its start.  `s` has the states of the        *)
(* variables, and what is known of functions.                              *)
(***************************************************************************)
BeforeMod(s, e) ==
  LET change(t, x) ==
        LET asked == AnyMayModify(t.infos, e.callees, x)
        IN  [t EXCEPT !.infos = asked.infos,
                      !.decls[x] = IF asked.yes THEN [@ EXCEPT !.ant = @ \cup {After(e)}, !.live = FALSE] ELSE @]
  IN  FoldUp(change, s, Listed({x \in DOMAIN s.decls \cap Vars : s.decls[x].live}))
BeforeDef(s, e) ==
  LET state == StateOf(s.decls, e.x)
      ant == IF e.update \/ state.live THEN state.ant \cup {Own(e)} ELSE state.ant
  IN  [s EXCEPT !.decls = SetState(@, e.x, [state EXCEPT !.ant = ant, !.live = e.update])]
BeforeRef(s, e) ==
  [s EXCEPT !.decls = SetState(@, e.x, [StateOf(@, e.x) EXCEPT !.ant = @ \cup {Own(e)}, !.live = TRUE])]
BeforeEvent(s, e, handler) ==
  LET t == IF e.throws THEN [s EXCEPT !.decls = MergeDecls(@, handler)] ELSE s
  IN  CASE e.k = "ref" -> BeforeRef(t, e)
        [] e.k = "mod" -> BeforeMod(t, e)
        [] e.k = "def" -> BeforeDef(t, e)
        [] OTHER -> t

\* a part that is set before it is read, and left without being read, does not depend on what comes before it
Closed(decls, cur, blocks) ==
  [x \in DOMAIN decls |->
     LET s == [decls[x] EXCEPT !.members = (cur :> decls[x].live) @@ @]
     IN  [s EXCEPT !.isolated = ~s.live /\ Boundary(s, cur, blocks) = {}]]
KnownAt(states, b) == IF b \in DOMAIN states THEN states[b] ELSE NoDecls
AtStart(blocks, states, infos, cur) ==
  LET block == blocks[cur]
      atEnd == FoldUp(LAMBDA decls, succ : MergeDecls(decls, KnownAt(states, succ)), NoDecls, block.succs)
      handler == IF block.exsucc = 0 THEN NoDecls ELSE KnownAt(states, block.exsucc)
      s == FoldUp(LAMBDA t, e : BeforeEvent(t, e, handler), [decls |-> atEnd, infos |-> infos], Reverse(block.events))
  IN  [s EXCEPT !.decls = Closed(@, cur, blocks)]

-----------------------------------------------------------------------------
(***************************************************************************)
(* The candidates: for each variable the block where it is best to begin.  *)
(***************************************************************************)
Changes(block) == {i \in DOMAIN block.events : block.events[i].k \in {"def", "mod"}}
\* where the local gets its value on the way from block b, {} if it cannot
Insertion(x, blocks, b, head) ==
  LET block == blocks[b]
      changes == Changes(block)
      front == IF block.node = 0 THEN {} ELSE {Before(block.node)}
  IN  IF b = head \/ block.events = <<>> THEN front
      ELSE IF ~IsGlobal(x) THEN {}
      ELSE IF changes = {} THEN front
      ELSE {[After(block.events[i]) EXCEPT !.how = "behind"] : i \in {j \in changes : \A k \in changes : k <= j}}
\* s: the candidates so far by variable, each with the block it begins in, and the failed assertions
Consider(s, x, state, head, blocks) ==
  LET cost == Cost(x, state, head, blocks)
      rival == StateOf(s.best, x)
      rivalCost == Cost(x, rival, rival.head, blocks)
      boundary == Boundary(state, head, blocks)
      inserted == UNION {Insertion(x, blocks, b, head) : b \in boundary}
      placed == [state EXCEPT !.ant = @ \cup inserted, !.members = [b \in boundary |-> FALSE] @@ @, !.live = FALSE]
      chosen == IF x \in DOMAIN s.best /\ rival.isolated THEN MergeState(placed, rival) ELSE placed
      known == x \in DOMAIN s.best
  IN  IF cost >= 0 THEN s
      ELSE IF known /\ ~rival.isolated /\ rivalCost <= cost THEN s
      ELSE IF \E b \in boundary : Insertion(x, blocks, b, head) = {} THEN s
      ELSE [s EXCEPT !.best = SetState(@, x, [head |-> head] @@ chosen),
                     !.broken = IF (known /\ rival.isolated) \/ Cost(x, placed, head, blocks) = cost THEN @
                                ELSE @ \cup {"cost of block changed"}]
Candidates(blocks, states) ==
  LET ofBlock(s, b) == FoldUp(LAMBDA t, x : Consider(t, x, states[b][x], b, blocks), s, Listed(DOMAIN KnownAt(states, b)))
  IN  FoldUp(ofBlock, [best |-> <<>>, broken |-> {}], PostOrder(blocks))

-----------------------------------------------------------------------------
(***************************************************************************)
(* The changes to the syntax tree.  `best` are the candidates.             *)
(***************************************************************************)
Pre(x) == "pre_" \o x
Leaf(x) == Node(IF IsGlobal(x) THEN "ref" ELSE "lit", x, <<>>)
Assign(x, e) == Node("set", x, <<e>>)
Statement(e) == Node("expr", "", <<e>>)
Load(x) == Statement(Assign(Pre(x), Leaf(x)))                     \* pre_x = x
Store(x) == Assign(x, Node("ref", Pre(x), <<>>))                  \* x = pre_x

RECURSIVE InStatement(_)
\* the nodes of a statement that are of no other statement within
InStatement(n) == {n.id} \cup UNION {InStatement(n.kids[i]) : i \in {j \in DOMAIN n.kids : ~IsStatement(n.kids[j])}}

\* the assignments that go before or behind statement n
Loads(best, n, hows) ==
  LET nodes == InStatement(n)
      places(x) == {p \in best[x].ant : p.id \in nodes /\ p.how \in hows}
  IN  FoldUp(LAMBDA list, x : list \o [i \in 1..Cardinality(places(x)) |-> Load(x)], <<>>, Listed(DOMAIN best))

IsReplaced(best, n) == n.x \in DOMAIN best /\ \E p \in best[n.x].ant : p.id = n.id /\ p.how = "own"
\* mutant: one statement for several
SingleFirst(nodes) == nodes[1]
Single(nodes) == IF Len(nodes) = 1 THEN nodes[1] ELSE Node("block", "", nodes)

\* the node, or several in its place; `seq` is `pre_x = e, x = pre_x`
RECURSIVE Rewritten(_, _)
Rewritten(best, n) ==
  LET Kids(list, kid) == list \o (IF n.k \in {"block", "case"} THEN Rewritten(best, kid) ELSE <<Single(Rewritten(best, kid))>>)
      m == [n EXCEPT !.kids = FoldUp(Kids, <<>>, @)]
      renamed == [m EXCEPT !.x = Pre(n.x)]
      front == Loads(best, n, {"before"})
      itself ==
        IF n.k = "expr" /\ m.kids[1].k = "seq" THEN [i \in 1..2 |-> [m EXCEPT !.kids = <<m.kids[1].kids[i]>>]]
        ELSE <<m>>
  IN  CASE n.k \in {"ref", "lit"} /\ IsReplaced(best, n) -> <<[renamed EXCEPT !.k = "ref"]>>
        [] n.k \in {"set", "upd"} /\ IsReplaced(best, n) -> <<Node("seq", "", <<renamed, Store(n.x)>>)>>
        [] n.k = "block" -> <<[m EXCEPT !.kids = front \o @]>> \o Loads(best, n, {"after", "behind"})
        [] IsStatement(n) -> front \o itself \o Loads(best, n, {"after", "behind"})
        [] OTHER -> <<m>>
=============================================================================
