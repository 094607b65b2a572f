--------------------------- MODULE BytecodeLocals ---------------------------
(***************************************************************************)
(* Two passes that deal out locals.                                        *)
(*                                                                         *)
(* `minimizeLocals`: a live range is a local's stores and the instructions *)
(* that read what they store.  Ranges that are not live at the same time   *)
(* get the same slot, so fewer are needed.  What the caller passes, and    *)
(* `self`, stays where it is.                                              *)
(*                                                                         *)
(* `sizeBasedPRE`: a literal that is pushed at three places or more is     *)
(* pushed once, where all of these are bound to come by, and kept in a new *)
(* local.                                                                  *)
(***************************************************************************)
EXTENDS BytecodeSharing

\* The ranges: the local they are of, their instructions, the readers of what is live where they store, and whether
\* they come from the caller
Range1(n, bcs, conflicts, isParam) == [local |-> n, bcs |-> bcs, conflicts |-> conflicts, param |-> isParam]
Stores(f) == UNION {{bc \in ToSet(f.blocks[o].code) : bc.op = "lputv"} : o \in Blocks(f)}
SplitRanges(f, p) ==
  {Range1(bc.arg, p.stores[bc.at].live \cup {bc.at}, p.stores[bc.at].conflicts, FALSE)
     : bc \in {s \in Stores(f) : s.at \in DOMAIN p.stores}}
  \cup {Range1(n, {q[2] : q \in {l \in LiveAt(p.ins, f.at) : l[1] = n}}, {}, TRUE)
          : n \in {l[1] : l \in LiveAt(p.ins, f.at)}}

\* stores with a reader in common are one range
Unite(ranges, r) ==
  LET touching == {q \in ranges : q.local = r.local /\ q.bcs \cap r.bcs # {}} \cup {r}
  IN  (ranges \ touching)
        \cup {Range1(r.local, UNION {q.bcs : q \in touching}, UNION {q.conflicts : q \in touching},
                     \E q \in touching : q.param)}
MergeSplitRanges(split) == FoldSet(LAMBDA r, ranges : Unite(ranges, r), {}, split)

ConflictWith(q, r) == q.conflicts \cap r.bcs # {} \/ r.conflicts \cap q.bcs # {}

-----------------------------------------------------------------------------
\* `colors`: the slots given so far; `merge`: the ranges in each slot
IsPinned(r) == r.param \/ r.local = 0
Pinned(ranges, argc) ==
  LET fixed == {r \in ranges : IsPinned(r) /\ (argc = None \/ r.local < argc)}
  IN  [colors |-> [r \in {q \in ranges : IsPinned(q)} |-> r.local],
       merge |-> [n \in {r.local : r \in fixed} |-> {r \in fixed : r.local = n}]]

FirstSlot == IF AllowForbiddenOpts THEN 0 ELSE 1
Lowest(colors, r) ==
  IF r.local = 0 /\ ~AllowForbiddenOpts THEN 0
  ELSE CHOOSE n \in FirstSlot..(Cardinality(DOMAIN colors) + 1) :
         /\ \A q \in DOMAIN colors : ConflictWith(q, r) => colors[q] # n
         /\ \A k \in FirstSlot..(n - 1) : \E q \in DOMAIN colors : ConflictWith(q, r) /\ colors[q] = k
Color(c, r, n) ==
  [colors |-> (r :> n) @@ c.colors,
   merge |-> (n :> ({r} \cup IF n \in DOMAIN c.merge THEN c.merge[n] ELSE {})) @@ c.merge]
\* in any order: the code has found no good one
Colored(ranges, argc) ==
  FoldUp(LAMBDA c, r : Color(c, r, Lowest(c.colors, r)), Pinned(ranges, argc),
           Listed({r \in ranges : ~r.param}))
Slots(c) == IF DOMAIN c.merge = {} THEN 0 ELSE MaxOf(DOMAIN c.merge) + 1
NumLocals(ranges) == IF ranges = {} THEN 0 ELSE MaxOf({r.local : r \in ranges}) + 1

\* what has a slot to itself goes back to where it was, if nobody there was there before.  That somebody is there is
\* taken for granted, here as in the code: slots are given from the lowest up
GoesBack(c, argc, i) ==
  {j \in {r.local : r \in c.merge[i]} :
     /\ j < i /\ (argc = None \/ j >= argc)
     /\ \A r \in c.merge[i] : r.local = j
     /\ \A r \in c.merge[j] : r.local # j}
Swap(c, i, j) ==
  [ colors |-> [r \in DOMAIN c.colors |-> IF r \in c.merge[i] THEN j ELSE IF r \in c.merge[j] THEN i ELSE c.colors[r]],
    merge |-> [c.merge EXCEPT ![i] = c.merge[j], ![j] = c.merge[i]] ]
RECURSIVE SwapBack(_, _, _)
SwapBack(c, argc, i) ==
  IF i < 0 \/ (argc # None /\ i <= argc) THEN c
  ELSE IF i \notin DOMAIN c.merge \/ GoesBack(c, argc, i) = {} THEN SwapBack(c, argc, i - 1)
  ELSE SwapBack(Swap(c, i, CHOOSE j \in GoesBack(c, argc, i) : TRUE), argc, i)

-----------------------------------------------------------------------------
\* The debugger's name of a range is made of those of its instructions
Instructions(f) == UNION {ToSet(f.blocks[o].code) : o \in Blocks(f)}
Named(f, r, id) ==
  LET names == UNION {bc.var.names : bc \in {i \in Instructions(f) : i.at \in r.bcs}}
  IN  IF names = {} THEN NoVar ELSE [names |-> names, id |-> id, param |-> r.param]

\* m: for each instruction, its slot and name; the number of slots; how many there were
NewIncSp(f, m, bc) == IF f.argc # None THEN m.slots - f.argc ELSE bc.arg + m.slots - m.numLocals
FixInst(f, m, bc) ==
  CASE bc.op = "argcincsp" ->
         IF m.slots > bc.arg THEN [bc EXCEPT !.arg2 = m.slots - bc.arg]
         ELSE [bc EXCEPT !.op = "argc", !.arg2 = 0]
    [] bc.op = "incsp" ->
         IF NewIncSp(f, m, bc) > 0 THEN [bc EXCEPT !.arg = NewIncSp(f, m, bc)] ELSE Argless(bc, "nop")
    [] bc.op \in {"lgetv", "getlocalv", "lputv"} -> [bc EXCEPT !.arg = m.color[bc.at], !.var = m.var[bc.at]]
    [] OTHER -> bc
FixBlock(f, m, b) ==
  LET fixed == Tuple([i \in DOMAIN b.code |-> FixInst(f, m, b.code[i])])
  IN  [b EXCEPT !.code = IF \E i \in DOMAIN fixed : fixed[i].op # b.code[i].op THEN WithoutNops(fixed) ELSE fixed]

Recolored(f, c, slots, numLocals) ==
  LET order == Listed(DOMAIN c.colors)
      of == [at \in UNION {r.bcs : r \in DOMAIN c.colors} |-> CHOOSE i \in DOMAIN order : at \in order[i].bcs]
      m == [color |-> [at \in DOMAIN of |-> c.colors[order[of[at]]]],
            var |-> [at \in DOMAIN of |-> Named(f, order[of[at]], f.fresh + of[at])],
            slots |-> slots, numLocals |-> numLocals]
      used == {bc \in Instructions(f) : bc.op = "lputv" \/ ReadsLocal(bc) # None}
      implicit == {bc \in used : bc.op \notin {"lputv", "lgetv", "getlocalv"}}
  IN  IF ~(\A bc \in used \ implicit : bc.at \in DOMAIN of) THEN Asserting(f, FALSE, "minimizeLocals: unknown")
      ELSE IF \E bc \in implicit : bc.at \in DOMAIN of /\ m.color[bc.at] # 0
      THEN Asserting(f, FALSE, "minimizeLocals: self")
      ELSE Changing([f EXCEPT !.blocks = [o \in DOMAIN @ |-> FixBlock(f, m, @[o])], !.fresh = @ + Len(order)])

MinimizeColored(f, ranges, c) ==
  IF Slots(c) >= NumLocals(ranges) THEN f
  ELSE Recolored(f, SwapBack(c, f.argc, Slots(c) - 1), Slots(c), NumLocals(ranges))
MinimizeRanges(f, ranges) ==
  IF UNION {r.conflicts : r \in ranges} \subseteq UNION {r.bcs : r \in ranges}
  THEN MinimizeColored(f, ranges, Colored(ranges, f.argc))
  ELSE Asserting(f, FALSE, "minimizeLocals: conflict")
\* `equivSets` are what `interpFunc` has found to be the same after a store
MinimizeLocals(f, equivSets) ==
  MinimizeRanges(f, MergeSplitRanges(SplitRanges(f, PostOrderPropagate("ranges", f, equivSets))))

-----------------------------------------------------------------------------
\* `sizeBasedPRE`.  What is pushed: nothing if it is not worth a local.  Literals of one value are the same whatever
\* their instructions
IdAt(code, i) ==
  CASE code[i].op \in {"ipush", "ipush2", "ipush3"} -> {<<"ipush", code[i].arg>>}
    [] code[i].op = "spush" -> IF IsOp(code, i + 1, "getm") THEN {} ELSE {<<"spush", code[i].arg>>}
    [] code[i].op \in {"dpush", "fpush", "lpush", "cpush", "news"} -> {<<code[i].op, code[i].arg>>}
    [] code[i].op = "getm" -> IF IsOp(code, i - 1, "spush") THEN {<<"getm", code[i - 1].arg>>} ELSE {}
    [] OTHER -> {}
Instances(f, id) ==
  {<<o, i>> \in UNION {{o} \X DOMAIN f.blocks[o].code : o \in Blocks(f)} : id \in IdAt(f.blocks[o].code, i)}
Ids(f) == UNION {UNION {IdAt(f.blocks[o].code, i) : i \in DOMAIN f.blocks[o].code} : o \in Blocks(f)}
UsedTwice(f) == {id \in Ids(f) : Cardinality(Instances(f, id)) >= 2}
WorthALocal(f) == {id \in Ids(f) : Cardinality(Instances(f, id)) >= 3}

\* the latest block that all the instances come after
InsertionBlock(position, dominators, instances) ==
  LET common == {o \in DOMAIN position : \A q \in instances : o \in dominators[q[1]]}
  IN  CHOOSE o \in common : \A p \in common : position[o] <= position[p]

\* Before the first instance, or what may leave the block; at its end if there is neither, but before its branch
IsStop(f, o, ats, bc) == bc.at \in ats \/ (Truthy(f.blocks[o].exsucc) /\ MayThrow(bc.op))
InsertAtIndex(f, o, ats, isGetm) ==
  LET code == f.blocks[o].code
      stops == {i \in DOMAIN code : IsStop(f, o, ats, code[i])}
  IN  IF stops = {} THEN IF code = <<>> \/ (Truthy(f.blocks[o].next) /\ f.blocks[o].taken = None) THEN Len(code) + 1
                         ELSE Len(code)
      ELSE IF isGetm /\ code[MinOf(stops)].at \in ats THEN MinOf(stops) - 1
      ELSE MinOf(stops)
Insert(code, i, list) == SubSeq(code, 1, i - 1) \o list \o SubSeq(code, i, Len(code))

\* a `getm` goes with the symbol before it
FromSlot(code, ats, isGetm, slot) ==
  Tuple([i \in DOMAIN code |->
     IF ~isGetm THEN IF code[i].at \in ats THEN As(code[i], "lgetv", slot) ELSE code[i]
     ELSE IF code[i].at \in ats THEN Argless(code[i], "nop")
     ELSE IF i < Len(code) /\ code[i + 1].at \in ats THEN As(code[i], "lgetv", slot)
     ELSE code[i]])
PushOf(f, id, ats, at, slot) ==
  LET op == (CHOOSE bc \in Instructions(f) : bc.at \in ats).op
  IN  IF op = "getm" THEN New(at, << <<"spush", id[2]>>, <<"getm", 0>>, <<"lputv", slot>> >>)
      ELSE New(at, << <<op, id[2]>>, <<"lputv", slot>> >>)
KeepInLocal(f, id, o, ats, slot) ==
  LET at == InsertAtIndex(f, o, ats, id[1] = "getm")
      replaced == [p \in Blocks(f) |->
                     [f.blocks[p] EXCEPT !.code = FromSlot(@, ats, id[1] = "getm", slot)]]
  IN  [f EXCEPT !.blocks = [replaced EXCEPT ![o].code = Insert(@, at, PushOf(f, id, ats, f.fresh, slot))], !.fresh = @ + 3]

\* the frame gets larger: by the last instruction found that makes it, or by a new one
FrameOps(f) ==
  FlattenSeq([k \in DOMAIN PostOrder(f) |->
     SelectSeq(f.blocks[PostOrder(f)[k]].code, LAMBDA bc : bc.op \in {"incsp", "argcincsp"})])
FrameOf(bc) == IF bc.op = "incsp" THEN bc.arg ELSE bc.arg2
Enlarged(bc, n) ==
  IF bc.op = "incsp" THEN [bc EXCEPT !.arg = @ + n] ELSE [bc EXCEPT !.arg2 = @ + n]
EnlargeFrame(f, frame, n) ==
  IF frame # <<>>
  THEN [f EXCEPT !.blocks = [o \in DOMAIN @ |->
          [@[o] EXCEPT !.code = Tuple([i \in DOMAIN @ |-> IF @[i].at = Last(frame).at THEN Enlarged(@[i], n) ELSE @[i]])]]]
  ELSE [f EXCEPT !.blocks[f.at].code = Insert(@, IF IsOp(@, 1, "argc") THEN 2 ELSE 1, New(f.fresh, << <<"incsp", n>> >>)),
                 !.fresh = @ + 1]

InsertOne(f, acc, id, slot) ==
  KeepInLocal(acc, id,
              InsertionBlock(Position(PostOrder(f)), Dominators(f), Instances(f, id)),
              {f.blocks[q[1]].code[q[2]].at : q \in Instances(f, id)}, slot)
\* `done` of the ids have their slot
InsertAll(f, ids, slot) ==
  FoldUp(LAMBDA acc, k : InsertOne(f, acc, ids[k], slot + k - 1), f, [k \in DOMAIN ids |-> k])
SizeBasedPRE(f) ==
  LET ids == Listed(WorthALocal(f))
      frame == FrameOps(f)
      size == IF frame = <<>> THEN 0 ELSE FrameOf(Last(frame))
  IN  IF f.argc = None \/ ids = <<>> THEN f
      ELSE Changing(EnlargeFrame(InsertAll(f, ids, f.argc + size), frame, Len(ids)))
=============================================================================
