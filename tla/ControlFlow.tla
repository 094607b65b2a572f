---------------------------- MODULE ControlFlow ----------------------------
(***************************************************************************)
(* The graphs the optimizer makes of functions (`buildReducedGraph` and    *)
(* what it calls): a walk over the syntax tree that appends events to the  *)
(* current block and starts new blocks, and the merging of blocks after    *)
(* it (`cleanCfg`).                                                        *)
(*                                                                         *)
(* A block has its successors, the block its exceptions go to, and its     *)
(* events; 0 stands for a block that is not there.  The builder is a       *)
(* record: the blocks, the current one, whether control gets there, the    *)
(* statements the walk is in (`stmts`), those with targets among them      *)
(* (`stack`), and in how many `try` blocks it is.  `removed` are the       *)
(* statements that are taken out of the function as unreachable, `broken`  *)
(* the assertions of the code that failed, `notes` belong to the analysis. *)
(***************************************************************************)
EXTENDS DataFlow

NewBlock ==
  [node |-> 0, succs |-> <<>>, preds |-> <<>>, exsucc |-> 0, expreds |-> <<>>, bogopred |-> 0, events |-> <<>>]
NoTargets == [break |-> 0, continue |-> 0, throw |-> 0, finally |-> 0, posttry |-> 0, postfinally |-> <<>>]
NewBuilder(allRefs) ==
  [blocks |-> <<NewBlock>>, cur |-> 1, unreachable |-> FALSE, stmts |-> <<>>, stack |-> <<>>, tryActive |-> 0,
   removed |-> {}, broken |-> {}, notes |-> NewNotes(allRefs)]

NoContext == [yes |-> 0, no |-> 0]      \* the node is not a test
Context(yes, no) == [yes |-> yes, no |-> no]
InTest(t) == t.yes # 0

PushUnique(s, x) == IF \E i \in DOMAIN s : s[i] = x THEN s ELSE Append(s, x)
AddEdge(b, from, to) ==
  [b EXCEPT !.blocks[from].succs = PushUnique(@, to), !.blocks[to].preds = PushUnique(@, from)]
Here(b, to) == AddEdge(b, b.cur, to)

\* room for new blocks, which are not part of the graph yet: the first is Fresh(b)
Fresh(b) == Len(b.blocks) + 1
Alloc(b, count) == [b EXCEPT !.blocks = @ \o SubSeq(<<NewBlock, NewBlock, NewBlock>>, 1, count)]

Unreachable(b) == [b EXCEPT !.unreachable = TRUE]
Push(b, targets) == [b EXCEPT !.stack = Append(@, targets)]
Pop(b) == [b EXCEPT !.stack = SubSeq(@, 1, Len(@) - 1)]
Top(b) == b.stack[Len(b.stack)]
SetTop(b, targets) == [b EXCEPT !.stack[Len(b.stack)] = targets]

\* the places on the stack from the innermost on
Inward(b) == [i \in 1..Len(b.stack) |-> Len(b.stack) + 1 - i]
Handlers(b) == {i \in DOMAIN b.stack : b.stack[i].throw # 0}
Handler(b) == IF Handlers(b) = {} THEN 0 ELSE b.stack[CHOOSE i \in Handlers(b) : \A j \in Handlers(b) : j <= i].throw

ThrowsTo(b, block, handler) ==
  [b EXCEPT !.blocks[block].exsucc = handler, !.blocks[handler].expreds = Append(@, block)]

Enter(b, block) ==
  LET reached == [(IF b.unreachable THEN b ELSE Here(b, block)) EXCEPT !.unreachable = FALSE, !.cur = block]
  IN  IF Handler(b) = 0 THEN reached ELSE ThrowsTo(reached, block, Handler(b))
EnterNew(b) == Enter(Alloc(b, 1), Fresh(b))

(***************************************************************************)
(* break, continue, throw and return: on the way to the target, which      *)
(* return does not have, lie the finalizers.                               *)
(***************************************************************************)
Target(targets, how) ==
  CASE how = "break" -> targets.break
    [] how = "continue" -> targets.continue
    [] how = "throw" -> targets.throw
    [] OTHER -> 0
Terminal(b, how) ==
  LET ends == {i \in DOMAIN b.stack : Target(b.stack[i], how) # 0}
      last == IF ends = {} THEN 1 ELSE CHOOSE i \in ends : \A j \in ends : j <= i
      runs(i) == b.stack[i].finally # 0 /\ (how # "throw" \/ b.stack[i].throw = 0)
      passed == SelectSeq(Inward(b), LAMBDA i : i >= last /\ runs(i))
      through == FoldUp(LAMBDA c, i : Here(c, c.stack[i].finally), b, passed)
      target == Target(b.stack[last], how)
      after(c, i) == [c EXCEPT !.stack[i].postfinally = PushUnique(@, target)]
  IN  Unreachable(IF ends = {} THEN through ELSE FoldUp(after, Here(through, target), passed))

-----------------------------------------------------------------------------
AddEvents(b, events) == [b EXCEPT !.blocks[b.cur].events = @ \o events]
Expect(b, holds, what) == IF holds THEN b ELSE [b EXCEPT !.broken = @ \cup {what}]
CurStmt(b) == b.stmts[Len(b.stmts)]

\* the events of a node, behind those of the nodes under it
Notice(b, n) ==
  LET throws == b.tryActive > 0 /\ CanThrow(n)
      noticed == Noticed(b.notes, n, CurStmt(b).id, throws)
      noted == Expect([b EXCEPT !.notes = noticed.notes], throws => noticed.events # <<>>, "mayThrow without an event")
      handler == Handler(b)
      known == b.blocks[b.cur].exsucc
      caught ==
        IF ~throws \/ handler = 0 \/ known = handler THEN noted
        ELSE IF known = 0 THEN ThrowsTo(noted, b.cur, handler)
        ELSE Expect(noted, FALSE, "Block has multiple throw targets")
  IN  AddEvents(caught, noticed.events)

\* and where a test goes
Split(b, n, t) ==
  IF ~InTest(t) \/ b.unreachable THEN b
  ELSE LET yes == Here(b, t.yes) events == FlowEvents(b.notes, n) IN
       IF t.no = t.yes THEN yes
       ELSE LET both == AddEvents(Here(Expect(yes, Len(yes.blocks[b.cur].succs) = 1, "Unexpected successor edges"), t.no), events)
            IN  IF events = <<>> THEN both ELSE Unreachable(both)

RECURSIVE Visit(_, _, _)
VisitAll(b, nodes) == FoldUp(LAMBDA c, n : Visit(c, n, NoContext), b, nodes)
\* mutant: and by what follows it in the code
VisitTestOn(b, n, t) == Visit(b, n, t)
\* a part of a statement that decides between two blocks, or is followed by one
VisitTest(b, n, t) == Unreachable(Visit(b, n, t))

VisitLogical(b, n, t) ==
  LET right == Fresh(b) next == right + 1
      yes == IF InTest(t) THEN t.yes ELSE next
      no == IF InTest(t) THEN t.no ELSE next
      left == IF n.k = "and" THEN Context(right, no) ELSE Context(yes, right)
      done == VisitTest(Enter(VisitTest(Alloc(b, 2), n.kids[1], left), right), n.kids[2], Context(yes, no))
  IN  IF done.blocks[next].preds = <<>> THEN done ELSE Enter(done, next)

VisitChoice(b, n, t) ==
  LET consequent == Fresh(b) alternate == consequent + 1
      next == IF Len(n.kids) = 3 THEN alternate + 1 ELSE alternate
      out == IF InTest(t) THEN t ELSE Context(next, next)
      yes == VisitTest(Enter(VisitTest(Alloc(b, 3), n.kids[1], Context(consequent, alternate)), consequent), n.kids[2], out)
      no == IF Len(n.kids) = 3 THEN VisitTest(Enter(yes, alternate), n.kids[3], out) ELSE yes
  IN  IF no.blocks[next].preds = <<>> THEN no ELSE Enter(no, next)

VisitWhile(b, n) ==
  LET break == Fresh(b) head == break + 1 body == head + 1
      targets == [NoTargets EXCEPT !.break = break, !.continue = head]
      tested == VisitTest(Enter(Push(Alloc(b, 3), targets), head), n.kids[1], Context(body, break))
      done == Visit(Enter(tested, body), n.kids[2], NoContext)
      \* the end of the body goes to the head, and on to what comes after the loop
      back == IF done.unreachable THEN done ELSE Here(done, head)
  IN  Pop(Enter(back, break))

\* mutant: `continue` goes on with the body
VisitDoWhileHead(b, n) ==
  LET break == Fresh(b) continue == break + 1 head == continue + 1
      targets == [NoTargets EXCEPT !.break = break, !.continue = head]
      done == Visit(Enter(Push(Alloc(b, 3), targets), head), n.kids[1], NoContext)
  IN  Pop(Enter(VisitTest(Enter(done, continue), n.kids[2], Context(head, break)), break))

VisitDoWhile(b, n) ==
  LET break == Fresh(b) continue == break + 1 head == continue + 1
      targets == [NoTargets EXCEPT !.break = break, !.continue = continue]
      done == Visit(Enter(Push(Alloc(b, 3), targets), head), n.kids[1], NoContext)
  IN  Pop(Enter(VisitTest(Enter(done, continue), n.kids[2], Context(head, break)), break))

VisitFor(b, n) ==
  LET init == IF IsThere(n.kids[1]) THEN Visit(Push(b, NoTargets), n.kids[1], NoContext) ELSE Push(b, NoTargets)
      started == EnterNew(init)
      head == started.cur
      break == Fresh(started) continue == break + 1 body == continue + 1
      looped == SetTop(Alloc(started, 3), [NoTargets EXCEPT !.break = break, !.continue = continue])
      tested ==
        IF IsThere(n.kids[2]) THEN Enter(VisitTest(looped, n.kids[2], Context(body, break)), body) ELSE looped
      done == Enter(Visit(tested, n.kids[4], NoContext), continue)
      updated == IF IsThere(n.kids[3]) THEN Visit(done, n.kids[3], NoContext) ELSE done
      back == IF updated.unreachable THEN updated ELSE Here(updated, head)
      left == Enter(Unreachable(back), break)
  IN  Pop([left EXCEPT !.unreachable = left.blocks[break].preds = <<>>])

(***************************************************************************)
(* The tests of a switch one after the other, then the bodies, each of     *)
(* which is entered from its test and from the end of the one before.      *)
(***************************************************************************)
VisitCase(b, nodes) == FoldUp(LAMBDA c, n : IF c.unreachable THEN c ELSE Visit(c, n, NoContext), b, nodes)
VisitSwitch(b, n) ==
  LET break == Fresh(b)
      start == Visit(Push(Alloc(b, 1), [NoTargets EXCEPT !.break = break]), n.kids[1], NoContext)
      cases == SubSeq(n.kids, 2, Len(n.kids))
      hasDefault == Default(n) # {}
      \* the builder, and the block of each test
      test(s, case) ==
        IF IsThere(case.kids[1])
        THEN LET tested == Visit(s.b, case.kids[1], NoContext)
             IN  [b |-> EnterNew(tested), tests |-> Append(s.tests, tested.cur)]
        ELSE [s EXCEPT !.tests = Append(@, 0)]
      tested == FoldUp(test, [b |-> start, tests |-> <<>>], cases)
      endOfTests == tested.b.cur
      fallsOut == IF hasDefault THEN tested.b ELSE Here(tested.b, break)
      body(c, i) ==
        LET entered == EnterNew(c)
            from == IF tested.tests[i] = 0 THEN endOfTests ELSE tested.tests[i]
        IN  VisitCase(AddEdge(entered, from, entered.cur), SubSeq(cases[i].kids, 2, Len(cases[i].kids)))
      done == Enter(FoldUp(body, Unreachable(fallsOut), [i \in 1..Len(cases) |-> i]), break)
      reached == done.blocks[break].preds # <<>>
  IN  Pop([done EXCEPT !.unreachable = ~reached,
                       !.blocks[break].bogopred = IF reached /\ hasDefault THEN endOfTests ELSE @])

-----------------------------------------------------------------------------
AfterTry(targets) == IF targets.finally # 0 THEN targets.finally ELSE targets.posttry

\* mutant: the end of the handler goes nowhere
VisitClauseOut(b, clause) ==
  LET next == Fresh(b)
      tested == Visit(Alloc(b, 1), clause.kids[1], NoContext)
      matched == IF IsThere(clause.kids[1]) THEN EnterNew(Here(tested, next)) ELSE Alloc(b, 1)
  IN  Enter(Unreachable(Visit(matched, clause.kids[2], NoContext)), next)
VisitClause(b, clause) ==
  IF b.blocks[b.cur].preds = <<>> /\ b.blocks[b.cur].expreds = <<>> THEN b
  ELSE LET next == Fresh(b)
           param == clause.kids[1]
           tested == Visit(Alloc(b, 1), param, NoContext)
           matched == IF IsThere(param) THEN EnterNew(Here(tested, next)) ELSE Alloc(b, 1)
           done == Visit(matched, clause.kids[2], NoContext)
       IN  Enter(Unreachable(IF done.unreachable THEN done ELSE Here(done, AfterTry(Top(done)))), next)

\* from the end of the finalizer to all that was on its way when it began
VisitFinalizer(b, n, fallsThrough) ==
  LET targets == Top(b)
      entered == SetTop(Enter(Unreachable(b), targets.finally), [targets EXCEPT !.finally = 0])
      done == Visit(entered, n.kids[2], NoContext)
      onward == (IF fallsThrough THEN <<targets.posttry>> ELSE <<>>) \o targets.postfinally
  IN  Terminal(IF done.unreachable THEN done ELSE FoldUp(LAMBDA c, post : Here(c, post), done, onward), "throw")

VisitTry(b, n) ==
  LET catches == Fresh(b) finally == catches + 1 posttry == finally + 1
      hasFinalizer == IsThere(n.kids[2])
      targets == [NoTargets EXCEPT !.throw = catches, !.finally = IF hasFinalizer THEN finally ELSE 0]
      \* an edge that should not be there, for the sake of Garmin's compiler
      started == EnterNew(Here(Push(Alloc(b, 3), targets), catches))
      body == Visit([started EXCEPT !.tryActive = @ + 1], n.kids[1], NoContext)
      fallsThrough == ~body.unreachable
      left == SetTop([body EXCEPT !.tryActive = @ - 1], [Top(body) EXCEPT !.throw = 0, !.posttry = posttry])
      handling == Enter(Unreachable(IF fallsThrough THEN Here(left, AfterTry(Top(left))) ELSE left), catches)
      caught == FoldUp(VisitClause, handling, SubSeq(n.kids, 3, Len(n.kids)))
      \* the end of the chain of clauses passes the exception on
      passed == IF Len(n.kids) > 2 /\ caught.blocks[caught.cur].preds # <<>> THEN Terminal(caught, "throw") ELSE caught
      done == Enter(Unreachable(IF hasFinalizer THEN VisitFinalizer(passed, n, fallsThrough) ELSE passed), posttry)
  IN  Pop([done EXCEPT !.unreachable = done.blocks[posttry].preds = <<>>])

Inside(b, n, t) ==
  CASE n.k \in {"and", "or"} -> VisitLogical(b, n, t)
    [] n.k \in {"if", "cond"} -> VisitChoice(b, n, t)
    [] n.k = "while" -> VisitWhile(b, n)
    [] n.k = "do" -> VisitDoWhile(b, n)
    [] n.k = "for" -> VisitFor(b, n)
    [] n.k = "switch" -> VisitSwitch(b, n)
    [] n.k = "try" -> VisitTry(b, n)
    [] n.k \in {"throw", "return", "break", "continue"} -> Terminal(VisitAll(b, n.kids), n.k)
    [] OTHER -> VisitAll(b, n.kids)
\* what the tests of a logical operator do not decide is not decided after it either
ContextAfter(n, t) == IF n.k \in {"and", "or"} THEN NoContext ELSE t

IsStatement(n) == n.k \in StatementKinds
Begin(b, n) ==
  LET named == IF b.blocks[b.cur].node = 0 THEN [b EXCEPT !.blocks[b.cur].node = n.id] ELSE b
  IN  IF IsStatement(n) THEN [named EXCEPT !.stmts = Append(@, [id |-> n.id, k |-> n.k])] ELSE named
End(b, n) ==
  IF CurStmt(b).id = n.id THEN [b EXCEPT !.stmts = SubSeq(@, 1, Len(@) - 1)]
  ELSE IF b.unreachable /\ CurStmt(b).k = "block" /\ IsStatement(n) THEN [b EXCEPT !.removed = @ \cup {n.id}]
  ELSE b

\* what cannot be reached is not looked into
Visit(b, n, t) ==
  IF ~IsThere(n) THEN b
  ELSE IF b.unreachable THEN End(Notice(b, n), n)
  ELSE End(Split(Notice(Inside(Begin(b, n), n, t), n), n, ContextAfter(n, t)), n)

-----------------------------------------------------------------------------
(***************************************************************************)
(* The two orders of the blocks; both follow the successors first, then    *)
(* the handler.                                                            *)
(***************************************************************************)
Onward(blocks, cur) == blocks[cur].succs \o (IF blocks[cur].exsucc = 0 THEN <<>> ELSE <<blocks[cur].exsucc>>)
RECURSIVE PostOrderFrom(_, _, _)
PostOrderFrom(blocks, s, cur) ==
  IF cur \in s.visited THEN s
  ELSE LET rest == FoldUp(LAMBDA r, next : PostOrderFrom(blocks, r, next), [s EXCEPT !.visited = @ \cup {cur}], Onward(blocks, cur))
       IN  [rest EXCEPT !.order = Append(@, cur)]
PostOrder(blocks) == PostOrderFrom(blocks, [visited |-> {}, order |-> <<>>], 1).order

Replace(s, old, new) == FoldUp(LAMBDA r, x : Append(r, IF x = old THEN new ELSE x), <<>>, s)

CanMerge(blocks, cur) ==
  /\ Len(blocks[cur].succs) = 1
  /\ LET succ == blocks[cur].succs[1] IN
     /\ succ # 1
     /\ Len(blocks[succ].preds) = 1
     /\ blocks[cur].exsucc \in {0, blocks[succ].exsucc}
     /\ Len(blocks[succ].succs) <= 1 \/ Len(blocks[cur].preds) = 1

\* mutant: those behind still know the block that is gone
MergeOneEnd(blocks, cur) ==
  LET succ == blocks[cur].succs[1]
  IN  [blocks EXCEPT ![cur].events = @ \o blocks[succ].events, ![cur].exsucc = blocks[succ].exsucc,
                     ![cur].succs = blocks[succ].succs]
\* a block and its only successor, which has no other predecessor
Merge(blocks, cur) ==
  LET succ == blocks[cur].succs[1]
      handler == blocks[succ].exsucc
      throwers == IF blocks[cur].exsucc # 0 THEN SelectSeq(blocks[handler].expreds, LAMBDA p : p # succ)
                  ELSE Replace(blocks[handler].expreds, succ, cur)
      moved == IF handler = 0 THEN blocks ELSE [blocks EXCEPT ![handler].expreds = throwers]
      merged == [moved EXCEPT ![cur].events = @ \o moved[succ].events, ![cur].exsucc = handler,
                              ![cur].succs = moved[succ].succs, ![cur].node = IF @ = 0 THEN moved[succ].node ELSE @]
  IN  FoldUp(LAMBDA bs, s : [bs EXCEPT ![s].preds = Replace(@, succ, cur)], merged, merged[cur].succs)

RECURSIVE CleanFrom(_, _)
CleanFrom(s, cur) ==
  IF cur \in s.visited THEN s
  ELSE LET blocks == IF CanMerge(s.blocks, cur) THEN Merge(s.blocks, cur) ELSE s.blocks
       IN  FoldUp(CleanFrom, [blocks |-> blocks, visited |-> s.visited \cup {cur}], Onward(blocks, cur))
CleanCfg(blocks) == CleanFrom([blocks |-> blocks, visited |-> {}], 1).blocks

BuildGraph(b, function) ==
  Visit([Push(b, NoTargets) EXCEPT !.stmts = <<[id |-> 0, k |-> "function"]>>], function, NoContext)
=============================================================================
