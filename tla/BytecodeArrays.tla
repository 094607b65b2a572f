--------------------------- MODULE BytecodeArrays ---------------------------
(***************************************************************************)
(* `optimizeArrayInit`.  Garmin's compiler initializes the elements of an  *)
(* array one by one:                                                       *)
(*                                                                         *)
(*     ipush n; newa;  dup 0; ipush 0; <value>; aputv;                     *)
(*                     dup 0; ipush 1; <value>; aputv; ...                 *)
(*                                                                         *)
(* When all values are the same, a loop does it.  Otherwise a loop pushes  *)
(* the array and all the indices, and only the values and the `aputv`s     *)
(* are left.  When the array ends up in a local, it is stored there first. *)
(***************************************************************************)
EXTENDS BytecodeInterp

CONSTANT StackLimit      \* what locals and stack may take together: 100

IsOp(code, i, op) == i \in DOMAIN code /\ code[i].op = op

-----------------------------------------------------------------------------
\* s: the position reached, what is known, where the elements start; the `dup`s that reach below the array, with their
\* element; the locals the values read; and, of values of one instruction: whether all are the same local, or the same
\* literal, which, and the shortest instruction for it
NewScan(state, at) ==
  [at |-> at, state |-> state, starts |-> <<>>, dups |-> <<>>, used |-> {},
   sameLocal |-> TRUE, local |-> {}, sameType |-> TRUE, type |-> {}, inst |-> {}]
Run(s, bc) == [s EXCEPT !.state = InterpBytecode(bc, @)]

\* v: the scan, the end of the value, the local and the literal that were last left alone above the index
IsOneValue(t) == HasValue(t) /\ t.tags \subseteq SingletonTags \cup NumberTags \cup {"Symbol"}
ReadBy(s, bc, k, delta) ==
  [s EXCEPT !.used = IF bc.op = "lgetv" THEN @ \cup {bc.arg} ELSE @,
            !.dups = IF bc.op = "dup" /\ bc.arg >= delta - 1 THEN (k :> Len(s.starts)) @@ @ ELSE @]
ValueStep(v, depth, bc, k) ==
  LET ran == Run(v.scan, bc)
      delta == Len(ran.state.stack) - depth
      top == TypeAt(ran.state, Len(ran.state.stack))
  IN  IF v.done THEN v
      ELSE IF bc.op = "aputv" /\ delta = 0 THEN [v EXCEPT !.scan = ran, !.end = k, !.done = TRUE]
      ELSE IF delta < 0 THEN [v EXCEPT !.scan = ReadBy(ran, bc, k, 2 * StackLimit), !.done = TRUE]
      ELSE [v EXCEPT !.scan = ReadBy(ran, bc, k, delta),
                     !.local = IF delta = 3 THEN {n \in {bc.arg} : bc.op = "lgetv"} ELSE @,
                     !.type = IF delta = 3 THEN {t \in {top} : IsOneValue(t)} ELSE @]
ScanValue(code, s, depth) ==
  FoldUp(LAMBDA v, k : ValueStep(v, depth, code[k], k),
           [scan |-> s, end |-> None, local |-> {}, type |-> {}, done |-> FALSE],
           [i \in 1..(Len(code) - s.at - 1) |-> s.at + 1 + i])

\* the element that starts at `at` is initialized; v: how
SameLocal(s, v) ==
  v.local # {} /\ (s.local \subseteq v.local \/ \E c \in v.scan.state.equivs : s.local \cup v.local \subseteq c)
Shorter(inst, bc) ==
  IF bc.op # "dup" /\ Push(bc) = 1 /\ Pop(bc) = 0 /\ \A i \in inst : Size(i.op) > Size(bc.op) THEN {bc} ELSE inst
Initialized(code, s, v) ==
  LET single == v.end - s.at = 3
      sameType == single /\ s.sameType /\ v.type # {} /\ s.type \subseteq v.type
  IN  [v.scan EXCEPT !.at = v.end + 1,
                     !.starts = Append(@, s.at),
                     !.sameLocal = single /\ @ /\ SameLocal(s, v),
                     !.local = IF @ = {} THEN v.local ELSE @,
                     !.sameType = sameType,
                     !.type = v.type,
                     !.inst = IF sameType THEN Shorter(@, code[v.end - 1]) ELSE @]

IndexPushed(s, depth) ==
  Len(s.state.stack) = depth + 2 /\ s.state.stack[depth + 2] = Literal("Number", Len(s.starts))
RECURSIVE ScanElements(_, _, _)
ScanElements(code, depth, s) ==
  IF ~(s.at < Len(code) /\ code[s.at].op = "dup" /\ code[s.at].arg = 0) THEN s
  ELSE LET pushed == Run(Run(s, code[s.at]), code[s.at + 1])
           v == ScanValue(code, pushed, depth)
       IN  IF ~IndexPushed(pushed, depth) THEN pushed
           ELSE IF v.end = None THEN v.scan
           ELSE ScanElements(code, depth, Initialized(code, s, v))

-----------------------------------------------------------------------------
\* the edits. j is where the `newa` is, new instructions are given by <<op, arg>>
New(at, list) ==
  Tuple([i \in DOMAIN list |-> [op |-> list[i][1], arg |-> list[i][2], arg2 |-> 0, at |-> at + i - 1, var |-> NoVar]])
As(bc, op, arg) == [bc EXCEPT !.op = op, !.arg = arg]
Until(code, i) == SubSeq(code, 1, i - 1)
From(code, i) == SubSeq(code, i, Len(code))

\* setup, a loop on a block of its own, and the rest
LoopOver(f, o, setup, loop, rest) ==
  LET one == SplitBlock(SetCode(f, o, setup \o loop \o rest), o, Len(setup) + Len(loop))
      two == SplitBlock([one EXCEPT !.fresh = @ + 20], o, Len(setup))
      at == loop[1].at
  IN  AddPred([two EXCEPT !.blocks[at].taken = at], at, at)

\* the elements have their default value anyhow
DefaultInit(f, o, code, j, s) == SetCode(f, o, Until(code, j + 1) \o From(code, s.at))

\* nobody uses the array, but the values may have effects
Elements(code, s, starts, Value(_)) ==
  LET ends == Append(Tail(starts), s.at)
  IN  FlattenSeq([e \in DOMAIN starts |-> Value(SubSeq(code, starts[e] + 2, ends[e] - 1))])
Lowered(code, dups, by(_)) ==
  Tuple([k \in DOMAIN code |-> IF k \in DOMAIN dups THEN [code[k] EXCEPT !.arg = @ + by(dups[k])] ELSE code[k]])
ReachBelow(code, ks) == \A k \in ks : code[k].op = "dup" /\ code[k].arg >= 2
UnusedInit(f, o, code, j, s) ==
  LET values == Elements(Lowered(code, s.dups, LAMBDA e : -2), s, s.starts,
                         LAMBDA value : Append(Front(value), Argless(value[Len(value)], "popv")))
  IN  IF s.starts = <<>> \/ ~ReachBelow(code, DOMAIN s.dups) THEN Asserting(f, FALSE, "optimizeArrayInit: unused")
      ELSE SetCode(f, o, Until(code, j + 1) \o values \o From(code, s.at))

\* the array goes to a local that no value reads
ToLocal(code, s, n) == IsOp(code, s.at, "lputv") /\ code[s.at].arg \notin s.used /\ n >= 3
\* `newa` in place, the array stored if it goes to a local; the length is left on the stack if so
LengthIsPushed(code, j, n) == IsOp(code, j - 1, "ipush") /\ code[j - 1].arg = n
LocalSetup(code, j, s, n, at, length) ==
  IF LengthIsPushed(code, j, n) THEN Until(code, j) \o New(at, <<<<"dup", 0>>>>) \o <<code[j], code[s.at]>>
  ELSE Until(code, j) \o <<code[j], code[s.at], length>>

InstForType(t) ==
  CASE t.tags = {"Null"} -> <<"npush", 0>>
    [] t.tags \subseteq BooleanTags -> <<"bpush", IF t.tags = {"True"} THEN 1 ELSE 0>>
    [] t.tags = {"Number"} -> <<"ipush", t.val[2]>>
    [] t.tags = {"Long"} -> <<"lpush", t.val[2]>>
    [] OTHER -> <<"spush", t.val[2]>>
TypedInst(s, at) ==
  IF ~s.sameType \/ s.type = {} THEN {}
  ELSE IF s.inst # {} THEN s.inst
  ELSE {New(at, <<InstForType(CHOOSE t \in s.type : TRUE)>>)[1]}
\* the one instruction for all values, if there is
InitInst(code, j, s) ==
  LET typed == TypedInst(s, IF j + 3 \in DOMAIN code THEN code[j + 3].at ELSE 0)
  IN  IF s.sameLocal /\ s.local # {} /\ \A i \in typed : Size(i.op) > 2 THEN {code[s.starts[1] + 2]} ELSE typed

SameInit(f, o, code, j, s, inst) ==
  LET n == Len(s.starts)
      local == ToLocal(code, s, n)
      length == As(code[j + 2], "ipush", n)
      setup == IF local THEN LocalSetup(code, j, s, n, f.fresh, length) ELSE Until(code, j + 1) \o <<length>>
      at == f.fresh + 1
      loop == New(at, << <<"ipush", 1>>, <<"subv", 0>>, IF local THEN <<"lgetv", code[s.at].arg>> ELSE <<"dup", 1>>,
                         <<"dup", 1>> >>)
              \o <<inst, code[s.starts[1] + 3]>> \o New(at + 4, << <<"dup", 0>>, <<"bt", at>> >>)
      rest == New(at + 6, << <<"popv", 0>> >>) \o From(code, IF local THEN s.at + 1 ELSE s.at)
  IN  IF n < 3 THEN f ELSE LoopOver(f, o, setup, loop, rest)

\* As many elements as the stack has room for.  The indices of the `dup`s that reach below it all are those before
\* the store was moved to the front
LocalCount(s) == IF DOMAIN s.state.locals = {} THEN 0 ELSE MaxOf(DOMAIN s.state.locals) + 1
Room(s) == (StackLimit - Len(s.state.stack) - LocalCount(s)) \div 2
PushIndices(at, array) ==
  New(at, << array, <<"dup", 1>>, <<"ipush", 1>>, <<"subv", 0>>, <<"dup", 0>>, <<"bt", at>> >>)
LocalInit(f, o, code, j, s, n, values) ==
  LoopOver(f, o, LocalSetup(code, j, s, n, f.fresh, New(f.fresh, << <<"ipush", n>> >>)[1]),
           PushIndices(f.fresh + 1, <<"lgetv", code[s.at].arg>>),
           values \o New(f.fresh + 7, << <<"popv", 0>> >>) \o From(code, s.at + 1))
StackInit(f, o, code, j, s, n, values) ==
  LoopOver(f, o, Until(code, j + 2) \o <<As(code[j + 2], "ipush", n - 1)>>,
           PushIndices(f.fresh, <<"dup", 1>>), values \o From(code, s.at))
OtherInit(f, o, code, j, s, n) ==
  LET local == ToLocal(code, s, n)
      deep == {k \in DOMAIN s.dups : s.dups[k] < n}
      moved == [k \in {IF local THEN d - 1 ELSE d : d \in deep} |-> s.dups[IF local THEN k + 1 ELSE k]]
      values == Elements(Lowered(code, moved, LAMBDA e : (n - e - 1) * 2), s, SubSeq(s.starts, 1, n), LAMBDA v : v)
  IN  IF n < (IF local THEN 3 ELSE 4) THEN f
      ELSE IF ~ReachBelow(code, DOMAIN moved) THEN Asserting(f, FALSE, "optimizeArrayInit: dups")
      ELSE IF local THEN LocalInit(f, o, code, j, s, n, values)
      ELSE StackInit(f, o, code, j, s, n, values)

IsDefault(code, j, s) ==
  s.sameType /\ s.type = {IF code[j].op = "newa" THEN Plain({"Null"}) ELSE Literal("Number", 0)}
OptimizeScanned(f, o, code, j, s) ==
  IF IsDefault(code, j, s) THEN DefaultInit(f, o, code, j, s)
  ELSE IF IsOp(code, s.at, "popv") THEN UnusedInit(f, o, code, j, s)
  ELSE IF InitInst(code, j, s) # {} THEN SameInit(f, o, code, j, s, CHOOSE i \in InitInst(code, j, s) : TRUE)
  ELSE OtherInit(f, o, code, j, s, MinOf({Len(s.starts), Room(s)}))
OptimizeArrayInit(f, o, j, state) ==
  OptimizeScanned(f, o, f.blocks[o].code, j,
                  ScanElements(f.blocks[o].code, Len(state.stack), NewScan(state, j + 1)))

-----------------------------------------------------------------------------
\* `doArrayInits`: the last array of a block first; what is known is what `interpFunc` has found
KnownAfter(code, s, j) == FoldUp(LAMBDA t, bc : InterpBytecode(bc, t), CloneState(s), SubSeq(code, 1, j))
Arrays(code) == SelectSeq([i \in DOMAIN code |-> i], LAMBDA i : code[i].op \in {"newa", "newba"})
ArraysOf(f, ins, o) ==
  LET code == f.blocks[o].code
      s == IF o \in DOMAIN ins THEN ins[o] ELSE NoState
  IN  FoldDown(LAMBDA j, g : OptimizeArrayInit(g, o, j, KnownAfter(code, s, j)), Arrays(code), f)
DoArrayInits(f, ins) == FoldUp(LAMBDA g, o : ArraysOf(g, ins, o), f, f.order)

\* `interpFunc` and what is done with what it finds
FoldAndInit(f, safe, r) == DoArrayInits(ApplyFacts(f, safe, r), r.ins)
=============================================================================
