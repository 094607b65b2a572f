---------------------------- MODULE BytecodeEmit ----------------------------
(***************************************************************************)
(* `emitFunc`: the blocks of a function are put in an order, and written   *)
(* out, with the exception table and the debugger's table of locals.       *)
(***************************************************************************)
EXTENDS BytecodeLocals

CONSTANT ShiftHack       \* is a nop needed after a shift, as it was before version 5?

\* The blocks of a `try` are to be adjacent.  A node e is an exception entry, None stands for the function; its items
\* are blocks, <<None, o>>, and the nodes of the `try`s just inside, <<e, None>>
TryStack(f, o) == IF f.blocks[o].try = None THEN <<>> ELSE f.stacks[f.blocks[o].try]
IsUnder(f, e, o) == e = None \/ e \in ToSet(TryStack(f, o))
InnerOf(stack, e) ==
  IF e = None THEN stack ELSE SubSeq(stack, (CHOOSE i \in DOMAIN stack : stack[i] = e) + 1, Len(stack))
Item(o, inner) == IF inner = <<>> THEN <<None, o>> ELSE <<inner[1], None>>
Items(f, e) ==
  FoldUp(LAMBDA items, o : IF IsUnder(f, e, o) /\ Item(o, InnerOf(TryStack(f, o), e)) \notin ToSet(items)
                             THEN Append(items, Item(o, InnerOf(TryStack(f, o), e))) ELSE items, <<>>, f.order)

\* depth first, items after their successors.  `succs` of an item are items
RECURSIVE ItemsFrom(_, _, _, _)
ItemsFrom(succs, todo, seen, out) ==
  IF todo = <<>> THEN out
  ELSE ItemsFrom(succs,
                 IF todo[1].done \/ todo[1].item \in seen THEN Tail(todo)
                 ELSE [i \in DOMAIN succs[todo[1].item] |-> [item |-> succs[todo[1].item][i], done |-> FALSE]]
                        \o <<[item |-> todo[1].item, done |-> TRUE]>> \o Tail(todo),
                 seen \cup {todo[1].item},
                 IF todo[1].done THEN Append(out, todo[1].item) ELSE out)

\* `own`: the blocks of each item, in order.  A node's handler first, then where its blocks lead
Leading(f, own, item) ==
  IF item[1] = None THEN <<f.blocks[item[2]].taken, f.blocks[item[2]].next>>
  ELSE <<f.entries[item[1]].handler>>
         \o FlattenSeq([i \in DOMAIN own[item] |-> << f.blocks[own[item][i]].next, f.blocks[own[item][i]].taken >>])
ItemOf(own, o) == {item \in DOMAIN own : o \in ToSet(own[item])}
ItemSuccs(f, own, item) ==
  LET tos == SelectSeq(Leading(f, own, item), LAMBDA o : ItemOf(own, o) \notin {{}, {item}})
  IN  [i \in DOMAIN tos |-> CHOOSE to \in ItemOf(own, tos[i]) : TRUE]
Ordered(f, items, own) ==
  FlattenSeq([i \in DOMAIN items |-> own[items[i]]])
InOrder(f, first, own) ==
  Ordered(f, ItemsFrom([item \in DOMAIN own |-> ItemSuccs(f, own, item)], <<[item |-> first, done |-> FALSE]>>, {}, <<>>),
          own)
RECURSIVE SortHelper(_, _, _)
SortHelper(f, e, items) ==
  InOrder(f, items[1],
          [item \in ToSet(items) |-> IF item[1] = None THEN <<item[2]>> ELSE SortHelper(f, item[1], Items(f, item[1]))])
GroupBlocks(f) == Reverse(SortHelper(f, None, Items(f, None)))

-----------------------------------------------------------------------------
\* e: the code so far and its size, where the blocks are, the `try`s that are open and the exception table, the last
\* range of each slot that has one open and the table of ranges
NewEmit == [code |-> <<>>, size |-> 0, map |-> <<>>, open |-> <<>>, exns |-> <<>>, live |-> <<>>, ranges |-> <<>>]

\* The open `try`s are compared by their handlers.  `open` are positions in the table
Extended(e) == [e EXCEPT !.exns =
    Tuple([i \in DOMAIN @ |-> IF i \in ToSet(e.open) THEN [@[i] EXCEPT !.end = e.size] ELSE @[i]])]
OpenTry(e, i, handler) ==
  IF i <= Len(e.open) /\ e.exns[e.open[i]].handler = handler THEN e
  ELSE [e EXCEPT !.exns = Append(@, [start |-> e.size, end |-> e.size, handler |-> handler]),
                 !.open = SubSeq(@, 1, i - 1) \o <<Len(e.exns) + 1>>]
OpenTries(f, e, stack) ==
  [FoldUp(LAMBDA g, i : OpenTry(g, i, f.entries[stack[i]].handler), e, [i \in DOMAIN stack |-> i])
     EXCEPT !.open = SubSeq(@, 1, Len(stack))]

EndRange(e, slot) ==
  IF slot \in DOMAIN e.live
  THEN [e EXCEPT !.ranges[e.live[slot]].end = e.size - 1, !.live = Without(@, slot)] ELSE e
BeginRange(e, slot, var) ==
  IF var = NoVar THEN e
  ELSE [e EXCEPT !.ranges = Append(@, [slot |-> slot, var |-> var, start |-> e.size, end |-> e.size]),
                 !.live = (slot :> Len(e.ranges) + 1) @@ @]
StartLocalRange(e, slot, var) ==
  IF slot \in DOMAIN e.live /\ e.ranges[e.live[slot]].var.id = var.id THEN e ELSE BeginRange(EndRange(e, slot), slot, var)

EmitInst(e, bc) ==
  LET ranged == IF bc.op = "lputv" THEN StartLocalRange(e, bc.arg, bc.var) ELSE e
      nop == IF ShiftHack /\ bc.op \in {"shlv", "shrv"} THEN <<[Argless(bc, "nop") EXCEPT !.at = e.size + 1]>> ELSE <<>>
  IN  [ranged EXCEPT !.code = @ \o <<[bc EXCEPT !.at = e.size]>> \o nop, !.size = @ + Size(bc.op) + Len(nop)]

\* a branch to the block behind it is turned
TurnTo(b, following) ==
  IF b.taken # None /\ b.taken = following /\ LastOp(b.code) \in CondBranches
  THEN [b EXCEPT !.next = b.taken, !.taken = b.next,
                 !.code = [@ EXCEPT ![Len(@)].arg = b.next, ![Len(@)].op = IF @ = "bt" THEN "bf" ELSE "bt"]]
  ELSE b
Goto(to) == [op |-> "goto", arg |-> to, arg2 |-> 0, at |-> 0, var |-> NoVar]
EmitCode(e, b, following) ==
  FoldUp(EmitInst, e, b.code \o IF b.next \in {None, following} THEN <<>> ELSE <<Goto(b.next)>>)
NoLiveRanges(e, live) == e
LiveRanges(e, live) == FoldUp(LAMBDA g, p : StartLocalRange(g, p[1], p[2]), e, Listed(live))
EmitBlock(f, names, e, o, following) ==
  EmitCode(LiveRanges(OpenTries(f, [Extended(e) EXCEPT !.map = (o :> e.size) @@ @], TryStack(f, o)),
                      LiveAt(names.ins, o)),
           TurnTo(f.blocks[o], following), following)

Following(order, i) == IF i < Len(order) THEN order[i + 1] ELSE None
EmitBlocks(f, order, names) ==
  FoldUp(LAMBDA e, i : EmitBlock(f, names, e, order[i], Following(order, i)), NewEmit, [i \in DOMAIN order |-> i])

IsJump(bc) == bc.op \in CondBranches \cup {"goto", "jsr"}
Resolved(e) ==
  [ code |-> [i \in DOMAIN e.code |-> IF IsJump(e.code[i]) THEN [e.code[i] EXCEPT !.arg = e.map[@]] ELSE e.code[i]],
    exns |-> [i \in DOMAIN e.exns |-> [e.exns[i] EXCEPT !.handler = e.map[@]]],
    ranges |-> [i \in DOMAIN e.ranges |->
                  IF \E slot \in DOMAIN e.live : e.live[slot] = i THEN [e.ranges[i] EXCEPT !.end = e.size - 1] ELSE e.ranges[i]],
    size |-> e.size,
    broken |-> {} ]
Targets(e) ==
  {e.code[i].arg : i \in {j \in DOMAIN e.code : IsJump(e.code[j])}} \cup {e.exns[i].handler : i \in DOMAIN e.exns}
FixedUp(e) ==
  IF e.open # <<>> \/ ~(Targets(e) \subseteq DOMAIN e.map)
  THEN [code |-> <<>>, exns |-> <<>>, ranges |-> <<>>, size |-> 0, broken |-> {"emitFunc"}]
  ELSE Resolved(e)

\* The section of the exceptions says how many places there are where some start
FixupExceptions(out) ==
  [out EXCEPT !.exns = SubSeq(@, 1, Cardinality({e.start : e \in ToSet(@)}))]

EmitFunc(f) ==
  FixupExceptions(FixedUp(EmitBlocks(f, GroupBlocks(f), PostOrderPropagate("names", f, <<>>))))
=============================================================================
