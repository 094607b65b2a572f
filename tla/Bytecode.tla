------------------------------ MODULE Bytecode ------------------------------
(***************************************************************************)
(* Instructions, blocks and functions of the post-optimizer, which works   *)
(* on the code that Garmin's compiler has produced, and the edits its      *)
(* passes make of a function's graph of blocks.                            *)
(*                                                                         *)
(* An instruction is a record of its opcode, its argument (and a second    *)
(* one), the debugger's name of the local it is about, and the offset it   *)
(* was read at, which is also what tells one instruction from another.     *)
(* A block ends where control may go elsewhere.  Blocks share the objects  *)
(* that say in which `try` they are: `stacks` are the arrays, `entries`    *)
(* the exception entries in them, as a change made through one block is    *)
(* seen by the others.                                                     *)
(***************************************************************************)
EXTENDS StrictFolds

None == -1      \* undefined

\* `if (offset)`: neither undefined nor 0
Truthy(o) == o > 0

-----------------------------------------------------------------------------
Arithmetic == {"addv", "subv", "mulv", "divv", "andv", "orv", "modv", "xorv", "shlv", "shrv"}
Comparisons == {"eq", "ne", "lt", "lte", "gt", "gte", "canhazplz", "isa"}
Constants == {"npush", "bpush", "btpush", "bfpush", "apush", "bapush", "hpush", "news", "ipush", "ipushz",
              "ipush1", "ipush2", "ipush3", "fpush", "fpushz", "spush", "cpush", "lpush", "lpushz",
              "dpush", "dpushz"}
CondBranches == {"bt", "bf"}
BoolOps == Comparisons \cup {"isnull"}

Size(op) ==
  CASE op \in {"incsp", "invokem", "lgetv", "lputv", "bpush", "dup", "argc", "ipush1"} -> 2
    [] op \in CondBranches \cup {"goto", "jsr", "ipush2", "argcincsp"} -> 3
    [] op = "ipush3" -> 4
    [] op \in {"apush", "bapush", "hpush", "news", "ipush", "spush", "cpush", "fpush", "getsv", "getselfv"} -> 5
    [] op = "getlocalv" -> 6
    [] op \in {"lpush", "dpush", "getmv"} -> 9
    [] OTHER -> 1

MayThrow(op) ==
  op \in (Arithmetic \ {"eq", "ne"}) \cup {"lt", "lte", "gt", "gte", "agetv", "aputv", "aputvdup", "argc",
          "argcincsp", "getlocalv", "getmv", "getselfv", "getsv", "getv", "putv", "invokem", "invokemz",
          "invv", "throw"}

\* what an instruction takes off the stack and puts there
Pop(bc) ==
  CASE bc.op \in {"popv", "return", "throw", "lputv", "newc", "isnull", "isnotnull", "invv", "getm", "newa",
                  "newba", "newd", "getsv", "invokemz"} \cup CondBranches -> 1
    [] bc.op \in Arithmetic \cup Comparisons \cup {"getv", "agetv"} -> 2
    [] bc.op \in {"putv", "aputv", "aputvdup"} -> 3
    [] bc.op = "invokem" -> bc.arg + 1
    [] OTHER -> 0
Push(bc) ==
  IF bc.op \in {"nop", "ret", "incsp", "argc", "argcincsp", "goto", "jsr", "popv", "return", "throw", "lputv",
                "putv", "aputv"} \cup CondBranches
  THEN 0 ELSE 1

HasEffects(op) == op \in {"lputv", "putv", "aputv", "aputvdup", "newc", "invokem", "invokemz"}

\* the local an instruction reads; local 0 is `self`
ReadsLocal(bc) ==
  CASE bc.op \in {"getselfv", "getself", "frpush", "getv", "putv"} -> 0
    [] bc.op \in {"lgetv", "getlocalv"} -> bc.arg
    [] OTHER -> None

After(bc) == bc.at + Size(bc.op)
LastOp(code) == IF code = <<>> THEN "nop" ELSE code[Len(code)].op
AnyThrows(code) == \E i \in DOMAIN code : MayThrow(code[i].op)
SizeOf(code) == FoldUp(LAMBDA n, bc : n + Size(bc.op), 0, code)
WithoutNops(code) == SelectSeq(code, LAMBDA bc : bc.op # "nop")
Argless(bc, op) == [bc EXCEPT !.op = op, !.arg = 0, !.arg2 = 0]

\* s itself.  TLC loses updates of a sequence that it knows as a function only
Tuple(s) == s \o <<>>

-----------------------------------------------------------------------------
\* Where a block starts: at either end of a `try`, at handlers, at targets, and after what leaves
BlockStarts(code, exns) ==
  UNION { {e.start, e.end, e.handler} : e \in ToSet(exns) }
    \cup { code[i].arg : i \in {j \in DOMAIN code : code[j].op \in CondBranches \cup {"goto", "jsr"}} }
    \cup { After(code[i]) : i \in {j \in DOMAIN code : code[j].op \in CondBranches
                                                        \cup {"goto", "jsr", "return", "ret", "throw"}} }

\* Exception entries are kept by where they start, the outer ones first (`parseExceptions`)
Starting(exns, pc) ==
  SortSeq(Listed({i \in DOMAIN exns : exns[i].start = pc /\ exns[i].end > pc}),
          LAMBDA i, j : exns[i].end > exns[j].end \/ (exns[i].end = exns[j].end /\ i < j))

MakeBlock(code, tries, stack, exns) ==
  [ code |-> IF code[Len(code)].op = "goto" THEN Front(code) ELSE code,
    next |-> CASE code[Len(code)].op \in {"throw", "return", "ret"} -> None
               [] code[Len(code)].op = "goto" -> code[Len(code)].arg
               [] OTHER -> After(code[Len(code)]),
    taken |-> IF code[Len(code)].op \in CondBranches \cup {"jsr"} THEN code[Len(code)].arg ELSE None,
    try |-> IF stack = <<>> THEN None ELSE tries,
    exsucc |-> IF stack # <<>> /\ AnyThrows(code) THEN exns[stack[Len(stack)]].handler ELSE None,
    preds |-> {} ]

\* One instruction: when a block starts after it, the current one is complete, and the stack of `try`s loses the
\* one that ends here (one at most) and gains those that start.  `stacks` are the arrays made so far
ScanOne(acc, bc, starts, exns) ==
  IF After(bc) \notin starts
  THEN [acc EXCEPT !.code = Append(@, bc)]
  ELSE LET old == acc.stacks[Len(acc.stacks)]
           left == IF old # <<>> /\ exns[old[Len(old)]].end = After(bc) THEN Front(old) ELSE old
       IN  [ code |-> <<>>,
             stacks |-> IF left = old /\ Starting(exns, After(bc)) = <<>> THEN acc.stacks
                        ELSE Append(acc.stacks, left \o Starting(exns, After(bc))),
             blocks |-> acc.blocks @@
                        (Append(acc.code, bc)[1].at
                           :> MakeBlock(Append(acc.code, bc), Len(acc.stacks), old, exns)) ]

Scan(code, exns, starts) ==
  FoldUp(LAMBDA acc, bc : ScanOne(acc, bc, starts, exns), [code |-> <<>>, stacks |-> <<<<>>>>, blocks |-> <<>>],
           code)

Successors(b) == {b.next, b.taken, b.exsucc} \ {None}

\* what can be reached from `todo`, in the blocks `bs`
RECURSIVE Reach(_, _, _)
Reach(bs, todo, seen) ==
  IF todo \subseteq seen THEN seen
  ELSE Reach(bs, UNION {Successors(bs[o]) : o \in todo \ seen}, seen \cup todo)

Linked(bs) == [o \in DOMAIN bs |-> [bs[o] EXCEPT !.preds = {p \in DOMAIN bs : o \in Successors(bs[p])}]]

ArgCount(code) ==
  IF code # <<>> /\ code[1].op \in {"argc", "argcincsp"} THEN code[1].arg ELSE None

\* `findFunctions`, of code that holds one function.  What its first block does not reach belongs to no function
\* with a name and is dropped
Keep(bs, os) == [o \in os |-> bs[o]]
FindFunction(code, exns) ==
  LET scan == Scan(code, exns, BlockStarts(code, exns))
      own == Reach(scan.blocks, {code[1].at}, {})
  IN  [ at |-> code[1].at,
        argc |-> ArgCount(scan.blocks[code[1].at].code),
        blocks |-> Linked(Keep(scan.blocks, own)),
        order |-> SortSeq(Listed(own), <),
        stacks |-> scan.stacks,
        entries |-> exns,
        fresh |-> After(code[Len(code)]),
        changed |-> FALSE,
        broken |-> {} ]

-----------------------------------------------------------------------------
Changing(f) == [f EXCEPT !.changed = TRUE]

\* An `assert` of the code: a function with a broken one is no longer optimized, the optimizer stops
Asserting(f, holds, name) == IF holds THEN f ELSE [f EXCEPT !.broken = @ \cup {name}]

RemovePred(f, target, pred) ==
  [Asserting(f, pred \in f.blocks[target].preds, "removePred") EXCEPT !.blocks[target].preds = @ \ {pred}]
AddPred(f, target, pred) == [f EXCEPT !.blocks[target].preds = @ \cup {pred}]

Drop(f, o) == [f EXCEPT !.blocks = [p \in DOMAIN @ \ {o} |-> @[p]], !.order = SelectSeq(@, LAMBDA p : p # o)]

\* the edges out of block b, in the order the code treats them; an edge to offset 0 is not seen
Edges(b) == SelectSeq(<<b.next, b.taken, b.exsucc>>, Truthy)
Unlink(f, o) == FoldUp(LAMBDA g, to : RemovePred(g, to, o), f, Edges(f.blocks[o]))
RemoveBlock(f, o) == Drop(Unlink(Asserting(f, f.blocks[o].preds = {}, "removeBlock"), o), o)

\* the exception entry a block's exceptions go to
Innermost(f, b) == f.stacks[b.try][Len(f.stacks[b.try])]
RetargetBranch(code, to) == [code EXCEPT ![Len(code)].arg = to]

\* `redirect` expects a branch to end a block with two ways on, and the handler to stay one, of a `try` around it
CanRedirect(b, from, to) ==
  /\ b.taken = from /\ Truthy(to) => LastOp(b.code) \in CondBranches \cup {"jsr"}
  /\ b.exsucc = from => Truthy(to) /\ b.try # None

\* Every edge of block o to `from` becomes one to `to`, or is removed if that is None or 0
Redirect(f, o, from, to) ==
  LET b == f.blocks[o]
      goal == IF Truthy(to) THEN to ELSE None
      moved == [f EXCEPT
                  !.blocks[o].next = IF b.next = from THEN goal ELSE @,
                  !.blocks[o].taken = IF b.taken = from THEN goal ELSE @,
                  !.blocks[o].code = IF b.taken = from /\ goal # None THEN RetargetBranch(@, to) ELSE @,
                  !.blocks[o].exsucc = IF b.exsucc = from THEN goal ELSE @,
                  !.entries = IF b.exsucc = from /\ goal # None THEN [@ EXCEPT ![Innermost(f, b)].handler = to] ELSE @]
  IN  IF from \notin Successors(b) THEN f
      ELSE IF ~CanRedirect(b, from, to) THEN Asserting(f, FALSE, "redirect")
      ELSE IF goal = None THEN RemovePred(moved, from, o)
      ELSE AddPred(RemovePred(moved, from, o), to, o)

\* Block o keeps its first n instructions, the rest becomes a block of its own.  The handler stays a successor of
\* the parts that may throw
SplitEdgeTwice(f, to, o, tail) == IF to = None THEN f ELSE AddPred(f, to, tail)
SplitEdge(f, to, o, tail) == IF to = None THEN f ELSE AddPred([f EXCEPT !.blocks[to].preds = @ \ {o}], to, tail)
SplitBlock(f, o, n) ==
  LET b == f.blocks[o]
      tail == b.code[n + 1].at
      split == [f EXCEPT
        !.order = Append(@, tail),
        !.blocks = (tail :> [b EXCEPT !.code = SubSeq(@, n + 1, Len(@)), !.preds = {o},
                                      !.exsucc = IF Truthy(@) /\ ~AnyThrows(SubSeq(b.code, n + 1, Len(b.code)))
                                                 THEN None ELSE @])
                   @@ [@ EXCEPT ![o].code = SubSeq(@, 1, n), ![o].next = tail, ![o].taken = None,
                                ![o].exsucc = IF Truthy(@) /\ ~AnyThrows(SubSeq(b.code, 1, n)) THEN None ELSE @]]
      handled == IF ~Truthy(b.exsucc) THEN split
                 ELSE [split EXCEPT !.blocks[b.exsucc].preds =
                         {p \in @ : p = o => AnyThrows(SubSeq(b.code, 1, n))}
                           \cup {p \in {tail} : AnyThrows(SubSeq(b.code, n + 1, Len(b.code)))}]
  IN  SplitEdge(SplitEdge(handled, b.next, o, tail), b.taken, o, tail)

\* How many predecessors need a fall through to get to block o: not those that end in a conditional branch that can
\* be turned, as its other successor has no other predecessor
OtherIsOwn(f, p, o) ==
  \A s \in {f.blocks[p].taken, f.blocks[p].next} : s = o \/ Cardinality(f.blocks[s].preds) = 1
CountFallthroughPreds(f, o) ==
  Cardinality({p \in f.blocks[o].preds : ~(LastOp(f.blocks[p].code) \in CondBranches /\ OtherIsOwn(f, p, o))})
=============================================================================
