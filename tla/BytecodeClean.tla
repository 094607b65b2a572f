--------------------------- MODULE BytecodeClean ---------------------------
(***************************************************************************)
(* The passes of the post-optimizer that look at a block and those around  *)
(* it: `cleanCfg` tidies the graph, `simpleOpts` rewrites a few idioms of  *)
(* Garmin's compiler; `localDCE` drops what nobody uses.                   *)
(***************************************************************************)
EXTENDS BytecodeFlow

CONSTANTS AllowForbiddenOpts,      \* may the behaviour change when a wrong number of arguments is passed?
          RemoveArgc               \* shall the checks of that number go?

EqualsSym == 8388787

Blocks(f) == DOMAIN f.blocks
EachBlock(f, Do(_, _)) == FoldUp(LAMBDA g, o : IF o \in Blocks(g) THEN Do(g, o) ELSE g, f, f.order)

-----------------------------------------------------------------------------
NoOpBlocks(f) ==
  {o \in Blocks(f) \ {f.at} : f.blocks[o].code = <<>> \/ (Len(f.blocks[o].code) = 1 /\ LastOp(f.blocks[o].code) = "nop")}
Beyond(f, noOps, o) ==
  FoldUp(LAMBDA p, i : IF p \in noOps THEN f.blocks[p].next ELSE p, o, [i \in 1..Cardinality(noOps) |-> i])

SkipAt(f, noOps, g, o, edge) ==
  IF g.blocks[o][edge] \in noOps THEN Redirect(g, o, g.blocks[o][edge], Beyond(f, noOps, g.blocks[o][edge])) ELSE g
SkipNoOps(f, noOps, g, o) ==
  SkipAt(f, noOps, SkipAt(f, noOps, SkipAt(f, noOps, g, o, "next"), o, "taken"), o, "exsucc")

\* A loop with nothing in it never ends here either
RemoveNoOpBlocks(f) ==
  LET noOps == NoOpBlocks(f)
      skipped == EachBlock(f, LAMBDA g, o : SkipNoOps(f, noOps, g, o))
  IN  IF \E o \in noOps : Beyond(f, noOps, o) \in noOps
      THEN Asserting(f, FALSE, "removeNoOpBlocks ends")
      ELSE EachBlock(skipped, LAMBDA g, o : IF o \in noOps THEN RemoveBlock(g, o) ELSE g)

-----------------------------------------------------------------------------
\* The only block after o that also comes after nobody else becomes a part of o
MergeExsucc(f, o, exsucc) ==
  IF ~Truthy(exsucc) THEN f
  ELSE IF f.blocks[o].exsucc # None THEN Asserting(f, f.blocks[o].exsucc = exsucc, "removeUnreachableCatches")
  ELSE AddPred([f EXCEPT !.blocks[o].exsucc = exsucc], exsucc, o)
MergeTaken(f, o, taken) ==
  IF Truthy(taken) THEN AddPred([f EXCEPT !.blocks[o].taken = taken], taken, o) ELSE f
Absorb(f, o, at) ==
  LET next == f.blocks[at]
      redirected == Redirect([f EXCEPT !.blocks[o].code = @ \o next.code], o, at, next.next)
      merged == MergeExsucc(MergeTaken(redirected, o, next.taken), o, next.exsucc)
  IN  RemoveBlock([merged EXCEPT !.blocks[at].preds = {}], at)

\* A short block that leaves is copied: that costs less than to go there
Renumber(code, at) ==
  FoldUp(LAMBDA done, bc : Append(done, [bc EXCEPT !.at = at + SizeOf(done)]), <<>>, code)
IsShortExit(f, at) ==
  /\ f.blocks[at].next = None
  /\ Len(f.blocks[at].code) < 3
  /\ SizeOf(f.blocks[at].code) < 3
  /\ CountFallthroughPreds(f, at) > 1
CopyExit(f, o, at) ==
  Redirect([f EXCEPT !.blocks[o].code = @ \o Renumber(f.blocks[at].code, f.fresh),
                     !.fresh = @ + SizeOf(f.blocks[at].code)], o, at, None)

MergeNext(f, o) ==
  LET b == f.blocks[o]
  IN  IF ~Truthy(b.next) \/ Truthy(b.taken) \/ b.next \in {o, f.at} \/ b.try # f.blocks[b.next].try THEN f
      ELSE IF Cardinality(f.blocks[b.next].preds) = 1 THEN Absorb(f, o, b.next)
      ELSE IF IsShortExit(f, b.next) THEN CopyExit(f, o, b.next)
      ELSE f

\* A branch to where control goes anyhow
DropBranch(f, o) ==
  IF ~Truthy(f.blocks[o].taken) \/ f.blocks[o].taken # f.blocks[o].next THEN f
  ELSE Asserting([f EXCEPT !.blocks[o].taken = None,
                           !.blocks[o].code = [@ EXCEPT ![Len(@)] = Argless(@, "popv")]],
                 LastOp(f.blocks[o].code) \in CondBranches, "removeUnreachableCatches: branch")

\* A block that cannot throw leaves the `try`s whose handlers nobody reaches; so do those it shares the array with,
\* except that they keep it when it gets empty
Unused(f, e) == ~(f.entries[e].handler \in Blocks(f) /\ f.blocks[f.entries[e].handler].preds # {})
LeaveTries(f, o) ==
  LET b == f.blocks[o]
      left == SelectSeq(f.stacks[b.try], LAMBDA e : ~Unused(f, e))
  IN  IF b.try = None \/ Truthy(b.exsucc) THEN f
      ELSE [f EXCEPT !.stacks[b.try] = left, !.blocks[o].try = IF left = <<>> THEN None ELSE @]

RemoveUnreachableCatches(f) == EachBlock(f, LAMBDA g, o : LeaveTries(DropBranch(MergeNext(g, o), o), o))

DeadBlocks(f) == SelectSeq(f.order, LAMBDA o : o \notin ToSet(PostOrder(f)))
DropDead(f, dead) ==
  FoldUp(LAMBDA g, o : Drop(Asserting(g, g.blocks[o].preds = {}, "cleanCfg"), o),
           FoldUp(Unlink, f, dead), dead)
DropUnreached(f) == DropDead(f, DeadBlocks(f))
CleanCfg(f) == DropUnreached(RemoveUnreachableCatches(RemoveNoOpBlocks(f)))

-----------------------------------------------------------------------------
\* `simpleOpts`, one instruction: the one at position i of block o
SetCode(f, o, code) == Changing([f EXCEPT !.blocks[o].code = code])

IsUseless(bc) == bc.op = "nop" \/ (bc.op = "incsp" /\ bc.arg = 0) \/ (bc.op = "argc" /\ RemoveArgc /\ AllowForbiddenOpts)

\* <thing>.equals(:symbol) becomes <thing> == :symbol
IsEqualsSymbol(code, i) ==
  /\ i > 1 /\ i + 4 <= Len(code)
  /\ code[i].op = "spush" /\ code[i].arg = EqualsSym
  /\ code[i + 1].op = "getv"
  /\ code[i - 1].op \in {"dup", "lgetv"}
  /\ code[i + 2].op = code[i - 1].op
  /\ code[i + 2].arg = code[i - 1].arg + (IF code[i - 1].op = "dup" THEN 1 ELSE 0)
  /\ code[i + 3].op = "spush"
  /\ code[i + 4].op = "invokem" /\ code[i + 4].arg = 2
EqualSymbolToEq(code, i) ==
  SubSeq(code, 1, i - 1) \o <<code[i + 3], Argless(code[i + 4], "eq")>> \o SubSeq(code, i + 5, Len(code))

IsShift(code, i) == i > 1 /\ code[i].op = "shlv" /\ code[i - 1].op \in {"ipush", "lpush"}
Shift(f, o, code, i) ==
  LET by == code[i - 1].arg % 64
      isInt == code[i - 1].op = "ipush"
  IN  IF by = 0 /\ isInt THEN SetCode(f, o, SubSeq(code, 1, i - 2) \o SubSeq(code, i + 1, Len(code)))
      ELSE IF by = 1 /\ isInt
      THEN [f EXCEPT !.blocks[o].code = [@ EXCEPT ![i - 1] = Argless(@, "dup"), ![i] = Argless(@, "addv")]]
      ELSE IF by < (IF isInt THEN 31 ELSE 64)
      THEN SetCode(f, o, [code EXCEPT ![i - 1].arg = 2 ^ by, ![i] = Argless(@, "mulv")])
      ELSE f

IsEmptyFinally(f, o) ==
  /\ LastOp(f.blocks[o].code) = "jsr"
  /\ f.blocks[f.blocks[o].taken].code # <<>> /\ f.blocks[f.blocks[o].taken].code[1].op = "ret"
SkipFinally(f, o) ==
  Changing([f EXCEPT !.blocks[o].code = Front(@), !.blocks[f.blocks[o].taken].preds = @ \ {o}, !.blocks[o].taken = None])

\* A branch goes where control needs a jump to get anyhow
IsWorthTurning(f, b) == Cardinality(f.blocks[b.taken].preds) = 1
IsBetterTurned(f, b) == Cardinality(f.blocks[b.next].preds) > 1 /\ Cardinality(f.blocks[b.taken].preds) = 1
Turn(f, o) ==
  Changing([f EXCEPT !.blocks[o].next = f.blocks[o].taken, !.blocks[o].taken = f.blocks[o].next,
                     !.blocks[o].code = [@ EXCEPT ![Len(@)].op = IF @ = "bt" THEN "bf" ELSE "bt",
                                                  ![Len(@)].arg = f.blocks[o].next]])

\* `x && y` is computed as `x ? x & y : false`; where it is branched on and x or y is a Boolean, the first branch
\* may go where the second one would.  (The mirror image of this never matches: that branch has been turned)
BoolBefore(code, i) == i >= 1 /\ code[i].op \in BoolOps
IsAndThen(f, o, i) ==
  LET b == f.blocks[o]
      next == f.blocks[b.next]
      taken == f.blocks[b.taken]
  IN  /\ i > 1 /\ b.code[i - 1].op = "dup" /\ b.code[i - 1].arg = 0
      /\ next.next = b.taken /\ next.taken = None
      /\ Len(taken.code) = 1 /\ LastOp(taken.code) \in CondBranches
      /\ Len(next.code) > 1
      /\ LastOp(next.code) = IF b.code[i].op = "bf" THEN "andv" ELSE "orv"
      /\ BoolBefore(b.code, i - 2) \/ (Len(next.code) > 2 /\ BoolBefore(next.code, Len(next.code) - 1))
      /\ Cardinality(next.preds) = 1 /\ Cardinality(taken.preds) = 2
AndThen(f, o, i) ==
  LET b == f.blocks[o]
      taken == f.blocks[b.taken]
      goal == IF taken.code[1].op = b.code[i].op THEN taken.taken ELSE taken.next
      redirected == Redirect([f EXCEPT !.blocks[o].code = RemoveAt(@, i - 1)], o, b.taken, goal)
  IN  Changing([redirected EXCEPT !.blocks[b.next].code = Front(@)])
Branch(f, o, i) ==
  IF IsBetterTurned(f, f.blocks[o]) THEN Turn(f, o)
  ELSE IF IsAndThen(f, o, i) THEN AndThen(f, o, i)
  ELSE f

SimpleOpt(f, o, i) ==
  LET code == f.blocks[o].code
  IN  IF i > Len(code) THEN f
      ELSE IF IsUseless(code[i]) THEN SetCode(f, o, RemoveAt(code, i))
      ELSE IF code[i].op = "argcincsp" /\ RemoveArgc /\ AllowForbiddenOpts
      THEN SetCode(f, o, [code EXCEPT ![i].op = "incsp", ![i].arg = code[i].arg2, ![i].arg2 = 0])
      ELSE IF IsEqualsSymbol(code, i) THEN SetCode(f, o, EqualSymbolToEq(code, i))
      ELSE IF IsShift(code, i) THEN Shift(f, o, code, i)
      ELSE IF code[i].op = "jsr" THEN IF IsEmptyFinally(f, o) THEN SkipFinally(f, o) ELSE f
      ELSE IF code[i].op \in CondBranches THEN Branch(f, o, i)
      ELSE f
SimpleOpts(f) ==
  EachBlock(f, LAMBDA g, o :
                 FoldDown(LAMBDA i, h : SimpleOpt(h, o, i), [i \in 1..Len(g.blocks[o].code) |-> i], g))

-----------------------------------------------------------------------------
(***************************************************************************)
(* `localDCE`: instructions whose result nobody uses are taken out.        *)
(*                                                                         *)
(* Each block is walked backwards, so an instruction takes what it         *)
(* produces off a stack of uses and puts there a use for each of its       *)
(* operands.  A use is dead when it is a `popv`, or a store to a dead      *)
(* local; it lists the instructions that go once the producer goes.        *)
(* An operator with a dead result turns into a `popv` itself.              *)
(***************************************************************************)

LiveUse == [dead |-> FALSE, deps |-> {}]
DeadUse(deps) == [dead |-> TRUE, deps |-> deps]

\* nothing but a value comes from these
Values == Constants \cup {"getlocalv", "getself", "getselfv", "lgetv", "frpush"}
Binary == Arithmetic \cup Comparisons \cup {"agetv", "getv"}
Unary == {"newc", "isnull", "isnotnull", "invv", "getm", "newa", "newba", "newd"}

\* uses: the stack, its top last, empty where the block's successors go on
TopUse(uses) == IF uses = <<>> THEN LiveUse ELSE uses[Len(uses)]
RestOf(uses) == IF uses = <<>> THEN <<>> ELSE Front(uses)
RECURSIVE Popped(_, _)
Popped(uses, n) == IF n = 0 THEN uses ELSE Popped(RestOf(uses), n - 1)
Using(uses, n) == uses \o [i \in 1..n |-> LiveUse]

Kill(code, is) == Tuple([i \in DOMAIN code |-> IF i \in is THEN Argless(code[i], "nop") ELSE code[i]])
Reading(w, bc) == IF ReadsLocal(bc) = None THEN w ELSE [w EXCEPT !.live = @ \cup {ReadsLocal(bc)}]

\* w: the block's code, the uses, the locals that are live, whether anything is changed.  One instruction, at i
StoreUse(w, i, local) ==
  IF local \notin w.live /\ (local # 0 \/ AllowForbiddenOpts)
  THEN [w EXCEPT !.code[i] = Argless(@, "popv"), !.uses = Append(@, DeadUse({i})), !.changed = TRUE]
  ELSE [w EXCEPT !.uses = Append(@, LiveUse), !.live = @ \ {local}]
ValueUse(w, i, bc) ==
  IF TopUse(w.uses).dead
  THEN [w EXCEPT !.code = Kill(@, TopUse(w.uses).deps \cup {i}), !.uses = RestOf(@), !.changed = TRUE]
  ELSE Reading([w EXCEPT !.uses = RestOf(@)], bc)
DupUse(w, i, n) ==
  IF TopUse(w.uses).dead THEN ValueUse(w, i, w.code[i])
  ELSE [w EXCEPT !.uses = LET rest == RestOf(@)
                          IN  IF Len(rest) > n THEN [rest EXCEPT ![Len(rest) - n].dead = FALSE] ELSE rest]
BinaryUse(w, i, bc) ==
  IF TopUse(w.uses).dead
  THEN [w EXCEPT !.code[i] = Argless(@, "popv"), !.changed = TRUE,
                 !.uses = RestOf(@) \o <<DeadUse(TopUse(@).deps), DeadUse({i})>>]
  ELSE Reading([w EXCEPT !.uses = Using(RestOf(@), 2)], bc)
UnaryUse(w, i) ==
  IF TopUse(w.uses).dead
  THEN [w EXCEPT !.code = Kill([@ EXCEPT ![i] = Argless(@, "popv")], TopUse(w.uses).deps), !.changed = TRUE,
                 !.uses = Append(RestOf(@), DeadUse({i}))]
  ELSE [w EXCEPT !.uses = Using(RestOf(@), 1)]
OtherUse(w, bc) == Reading([w EXCEPT !.uses = Using(Popped(@, Push(bc)), Pop(bc))], bc)

Use(w, i, bc) ==
  CASE bc.op = "lputv" -> StoreUse(w, i, bc.arg)
    [] bc.op = "popv" -> [w EXCEPT !.uses = Append(@, DeadUse({i}))]
    [] bc.op = "dup" -> DupUse(w, i, bc.arg)
    [] bc.op \in Values -> ValueUse(w, i, bc)
    [] bc.op \in Binary -> BinaryUse(w, i, bc)
    [] bc.op \in Unary -> UnaryUse(w, i)
    [] OTHER -> OtherUse(w, bc)

\* what is live in the handler is live wherever the block may throw
ThrowingNothing(w, bc, handler) == w
Throwing(w, bc, handler) == IF MayThrow(bc.op) THEN [w EXCEPT !.live = @ \cup handler] ELSE w

Walk(b, liveOut, handler) ==
  FoldDown(LAMBDA i, w : Use(Throwing(w, b.code[i], handler), i, b.code[i]), [i \in DOMAIN b.code |-> i],
            [code |-> b.code, uses |-> <<>>, live |-> liveOut, changed |-> FALSE])

LocalsAt(facts, o) == {p[1] : p \in LiveAt(facts, o)}
DCEBlock(f, o, w) == IF w.changed THEN SetCode(f, o, WithoutNops(w.code)) ELSE f
DCEAll(f, live) ==
  EachBlock(f, LAMBDA g, o : DCEBlock(g, o, Walk(g.blocks[o], LocalsAt(live.outs, o),
                                                LocalsAt(live.ins, g.blocks[o].exsucc))))
LocalDCE(f) == DCEAll(f, PostOrderPropagate("live", f, <<>>))
=============================================================================
