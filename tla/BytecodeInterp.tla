--------------------------- MODULE BytecodeInterp ---------------------------
(***************************************************************************)
(* What is known at compile time of the stack and of the locals: the type  *)
(* of each slot, its value if there is but one, and which slots hold the   *)
(* same value (`InterpState` and `interpBytecode`).                        *)
(*                                                                         *)
(* Slots are numbers: local n is n, the nth element of the stack, counted  *)
(* from the bottom, is -n.  `equivs` is a set of sets of slots.  A local   *)
(* that is not in `locals` has not been mentioned yet.                     *)
(*                                                                         *)
(* Types are cut down to what the programs' values are: "Other" stands for *)
(* all tags that are not named.                                            *)
(***************************************************************************)
EXTENDS BytecodeClean, Functions

LOCAL INSTANCE Bitwise

SingletonTags == {"Null", "False", "True"}
BooleanTags == {"False", "True"}
NumberTags == {"Number", "Long"}
NoVal == <<>>
Plain(tags) == [tags |-> tags, val |-> NoVal]
Literal(tag, v) == [tags |-> {tag}, val |-> <<tag, v>>]
AnyType == Plain({"Null", "False", "True", "Number", "Long", "Symbol", "Other"})

HasValue(t) == Cardinality(t.tags) = 1 /\ (t.tags \subseteq SingletonTags \/ t.val # NoVal)
IsNumberLiteral(t) == HasValue(t) /\ t.tags \subseteq NumberTags
MustBeTrue(t) == t.tags = {"True"} \/ (IsNumberLiteral(t) /\ t.val[2] # 0)
MustBeFalse(t) == t.tags \in {{"Null"}, {"False"}} \/ (IsNumberLiteral(t) /\ t.val[2] = 0)

\* `unionInto`.  The literal 0 is lost when `if (value)` is asked of it
Join(to, from) ==
  LET tags == to.tags \cup from.tags
  IN  [ tags |-> tags,
        val |-> CASE from.tags \subseteq SingletonTags -> to.val
                  [] to.tags \subseteq SingletonTags -> from.val
                  [] to.val = from.val /\ (tags = to.tags \/ to.val = NoVal \/ to.val[2] # 0) -> to.val
                  [] OTHER -> NoVal ]

-----------------------------------------------------------------------------
\* `evaluateBinaryTypes`: arithmetic is for numbers, with `bools` for Booleans too
NumberResult(l, r) ==
  {t \in {"Number"} : t \in l /\ t \in r}
    \cup {t \in {"Long"} : t \in l \cup r /\ l \cap NumberTags # {} /\ r \cap NumberTags # {}}
BooleanResult(l, r) ==
  IF (l \cap BooleanTags # {} /\ r # {}) \/ (l # {} /\ r \cap BooleanTags # {}) THEN BooleanTags ELSE {}
CommonTypes(l, r, allowed) ==
  IF "Other" \in l \cup r THEN {"Other"}
  ELSE NumberResult(l \cap allowed, r \cap allowed) \cup BooleanResult(l \cap allowed, r \cap allowed)
Allowed(op) == IF op \in {"andv", "orv", "xorv"} THEN NumberTags \cup BooleanTags ELSE NumberTags

Div(x, y) == IF (x >= 0) = (y > 0) THEN (IF x >= 0 THEN x ELSE -x) \div (IF y > 0 THEN y ELSE -y)
             ELSE -((IF x >= 0 THEN x ELSE -x) \div (IF y > 0 THEN y ELSE -y))
Calculate(op, x, y) ==
  CASE op = "addv" -> x + y
    [] op = "subv" -> x - y
    [] op = "mulv" -> x * y
    [] op = "divv" -> Div(x, y)
    [] op = "modv" -> x - y * Div(x, y)
    [] op = "andv" -> x & y
    [] op = "orv" -> x | y
    [] op = "xorv" -> x ^^ y
    [] op = "shlv" -> x * 2 ^ y
    [] op = "shrv" -> x \div 2 ^ y
Combine(op, x, y) ==
  CASE op = "andv" -> x /\ y
    [] op = "orv" -> x \/ y
    [] op = "xorv" -> x # y
Compare(op, x, y) ==
  CASE op = "lt" -> x < y
    [] op = "lte" -> x <= y
    [] op = "gt" -> x > y
    [] op = "gte" -> x >= y
Truth(b) == Plain({IF b THEN "True" ELSE "False"})

Arith(op, l, r) ==
  LET tags == CommonTypes(l.tags, r.tags, Allowed(op))
  IN  IF ~HasValue(l) \/ ~HasValue(r) \/ ~(l.tags \cup r.tags \subseteq Allowed(op)) THEN Plain(tags)
      ELSE IF l.tags \subseteq BooleanTags THEN Truth(Combine(op, l.tags = {"True"}, r.tags = {"True"}))
      ELSE IF r.tags \subseteq BooleanTags THEN Plain(tags)
      ELSE IF op \in {"divv", "modv"} /\ r.val[2] = 0 THEN Plain(l.tags)
      ELSE Literal(CHOOSE t \in tags : TRUE, Calculate(op, l.val[2], r.val[2]))

Comparison(op, l, r) ==
  IF IsNumberLiteral(l) /\ IsNumberLiteral(r) THEN Truth(Compare(op, l.val[2], r.val[2]))
  ELSE Plain(IF CommonTypes(l.tags, r.tags, NumberTags) = {} THEN {} ELSE BooleanTags)

\* "same", "different", or it depends.  Booleans have no `value`: as numbers they are all 0
EqualsCheck(l, r) ==
  CASE ~HasValue(l) \/ ~HasValue(r) -> "unknown"
    [] l.tags \cup r.tags \subseteq NumberTags \cup {"Symbol"} /\ (l.tags = r.tags \/ l.tags \cup r.tags \subseteq NumberTags) ->
         IF l.val[2] = r.val[2] THEN "same" ELSE "different"
    [] "Number" \in l.tags /\ r.tags \subseteq BooleanTags -> IF l.val[2] = 0 THEN "same" ELSE "different"
    [] "Number" \in r.tags /\ l.tags \subseteq BooleanTags -> IF r.val[2] = 0 THEN "same" ELSE "different"
    [] l.tags = r.tags -> "same"
    [] "Null" \in l.tags \cup r.tags -> "different"
    [] OTHER -> "unknown"
Equality(op, l, r) ==
  IF EqualsCheck(l, r) = "unknown" THEN Plain(BooleanTags) ELSE Truth((EqualsCheck(l, r) = "same") = (op = "eq"))

Evaluated == Arithmetic \cup {"eq", "ne", "lt", "lte", "gt", "gte"}
Evaluate(op, l, r) ==
  IF op \in Arithmetic THEN Arith(op, l, r)
  ELSE IF op \in {"eq", "ne"} THEN Equality(op, l, r)
  ELSE Comparison(op, l, r)

\* `evaluateUnaryTypes("~", ..)`
Complemented(t) ==
  CASE IsNumberLiteral(t) -> Literal(CHOOSE tag \in t.tags : TRUE, -1 - t.val[2])
    [] t.tags = {"Null"} -> Plain({})
    [] t.tags \subseteq BooleanTags /\ t.tags # {} -> Plain({IF tag = "True" THEN "False" ELSE "True" : tag \in t.tags})
    [] OTHER -> Plain((t.tags \cap NumberTags) \cup {IF tag = "True" THEN "False" ELSE "True" : tag \in t.tags \cap BooleanTags})

-----------------------------------------------------------------------------
NoState == [stack |-> <<>>, locals |-> <<>>, equivs |-> {}, loop |-> FALSE]
Top(s) == -Len(s.stack)
ClassOf(s, slot) == UNION {c \in s.equivs : slot \in c}
TypeAt(s, p) == IF p \in DOMAIN s.stack THEN s.stack[p] ELSE AnyType

AddEquiv(s, a, b) ==
  [s EXCEPT !.equivs = {c \in @ : a \notin c /\ b \notin c} \cup {ClassOf(s, a) \cup ClassOf(s, b) \cup {a, b}}]
RemoveEquiv(s, a) == [s EXCEPT !.equivs = {c \in {d \ {a} : d \in @} : Cardinality(c) > 1}]

\* A copy knows no more of elements of the stack that only equal each other
HasLocal(c) == \E slot \in c : slot >= 0
CloneState(s) == [s EXCEPT !.equivs = {c \in @ : HasLocal(c)}]

PushType(s, t) == [s EXCEPT !.stack = Append(@, t)]
PopType(s) == [RemoveEquiv(s, Top(s)) EXCEPT !.stack = IF @ = <<>> THEN @ ELSE Front(@)]
RECURSIVE PopTypes(_, _)
PopTypes(s, n) == IF n = 0 THEN s ELSE PopTypes(PopType(s), n - 1)

Mention(s, local) == IF local \in DOMAIN s.locals THEN s ELSE [s EXCEPT !.locals = (local :> AnyType) @@ @]
GetLocal(s, local) == AddEquiv(PushType(s, s.locals[local]), Top(s) - 1, local)
Dup(s, n) ==
  IF n < Len(s.stack) THEN AddEquiv(PushType(s, s.stack[Len(s.stack) - n]), Top(s) - 1, n - Len(s.stack))
  ELSE PushType(s, AnyType)

IsSelfStore(s, local) == \E c \in s.equivs : {local, Top(s)} \subseteq c
StoreEquiv(s, local) ==
  IF ClassOf(s, Top(s)) = {} THEN RemoveEquiv(s, local) ELSE AddEquiv(RemoveEquiv(s, local), local, Top(s))
PutLocal(s, local) ==
  IF IsSelfStore(s, local) THEN PopType(s)
  ELSE [PopType(StoreEquiv(s, local)) EXCEPT !.locals[local] = TypeAt(s, Len(s.stack))]

Constant(bc) ==
  CASE bc.op \in {"ipush", "ipush1", "ipush2", "ipush3"} -> Literal("Number", bc.arg)
    [] bc.op = "ipushz" -> Literal("Number", 0)
    [] bc.op = "lpush" -> Literal("Long", bc.arg)
    [] bc.op = "lpushz" -> Literal("Long", 0)
    [] bc.op = "bpush" -> Truth(bc.arg # 0)
    [] bc.op = "btpush" -> Truth(TRUE)
    [] bc.op = "bfpush" -> Truth(FALSE)
    [] bc.op = "npush" -> Plain({"Null"})
    [] bc.op = "spush" -> Literal("Symbol", bc.arg)
Literals == {"ipush", "ipush1", "ipush2", "ipush3", "ipushz", "lpush", "lpushz", "bpush", "btpush", "bfpush", "npush",
             "spush"}

InterpBytecode(bc, s) ==
  CASE bc.op \in {"lgetv", "getself"} -> GetLocal(Mention(s, ReadsLocal(bc)), ReadsLocal(bc))
    [] bc.op = "dup" -> Dup(s, bc.arg)
    [] bc.op = "lputv" -> PutLocal(Mention(s, bc.arg), bc.arg)
    [] bc.op \in Literals -> PushType(s, Constant(bc))
    [] bc.op \in Evaluated ->
         PushType(PopTypes(s, 2), IF Len(s.stack) < 2 THEN AnyType
                                  ELSE Evaluate(bc.op, s.stack[Len(s.stack) - 1], s.stack[Len(s.stack)]))
    [] bc.op = "invv" -> PushType(PopType(s), Complemented(TypeAt(s, Len(s.stack))))
    [] OTHER -> IF Push(bc) = 1 THEN PushType(PopTypes(s, Pop(bc)), AnyType) ELSE PopTypes(s, Pop(bc))

-----------------------------------------------------------------------------
\* `mergeInto`: stacks are aligned at their tops; a local stays if both mention it; slots stay equal if they are in
\* both, and equal some local
Shifted(c, delta) == {IF slot < 0 THEN slot - delta ELSE slot : slot \in c}
Deepen(s, delta) ==
  [s EXCEPT !.stack = [i \in 1..delta |-> AnyType] \o @, !.equivs = {Shifted(c, delta) : c \in @}]
Common(as, bs) == {c \in {a \cap b : a \in as, b \in bs} : Cardinality(c) > 1 /\ HasLocal(c)}
MergeSame(from, to, delta) ==
  [ to EXCEPT
      !.stack = Tuple([p \in DOMAIN @ |-> Join(@[p], IF p > delta THEN from.stack[p - delta] ELSE AnyType)]),
      !.locals = [n \in DOMAIN @ \cap DOMAIN from.locals |-> Join(@[n], from.locals[n])],
      !.equivs = Common(@, {Shifted(c, delta) : c \in from.equivs}) ]
MergeInto(from, to) ==
  IF Len(from.stack) > Len(to.stack) THEN MergeSame(from, Deepen(to, Len(from.stack) - Len(to.stack)), 0)
  ELSE MergeSame(from, to, Len(to.stack) - Len(from.stack))

-----------------------------------------------------------------------------
\* `findEquivalent`: where a literal is found: on the stack below its top, else in a local, else its complement
\* in either.  The topmost literal, but the bottommost complement
StackHas(s, t) == {p \in 1..(Len(s.stack) - 1) : s.stack[p] = t}
LocalHas(s, t) == {n \in DOMAIN s.locals : s.locals[n] = t}
Complement(t) == IF IsNumberLiteral(t) THEN Complemented(t) ELSE Plain({})
MaxOf(S) == CHOOSE x \in S : \A y \in S : y <= x
MinOf(S) == CHOOSE x \in S : \A y \in S : y >= x

FromStack(s, p, invert) == [op |-> "dup", arg |-> Len(s.stack) - 1 - p, invert |-> invert]
FromLocal(n, invert) == [op |-> "lgetv", arg |-> n, invert |-> invert]
\* nothing, or the instruction to use
FindEquivalent(s, t) ==
  CASE StackHas(s, t) # {} -> {FromStack(s, MaxOf(StackHas(s, t)), FALSE)}
    [] LocalHas(s, t) # {} -> {FromLocal(MaxOf(LocalHas(s, t)), FALSE)}
    [] StackHas(s, Complement(t)) # {} -> {FromStack(s, MinOf(StackHas(s, Complement(t))), TRUE)}
    [] LocalHas(s, Complement(t)) # {} -> {FromLocal(MinOf(LocalHas(s, Complement(t))), TRUE)}
    [] OTHER -> {}

-----------------------------------------------------------------------------
(***************************************************************************)
(* `interpFunc`: runs a function over what is known of its slots, in       *)
(* reverse post-order until nothing changes, and uses what it learns:      *)
(*   - a store of a value that its local has is dropped;                   *)
(*   - a literal that is somewhere around is copied from there;            *)
(*   - a branch that always goes the same way becomes none;                *)
(*   - a block that jumps to a branch, and goes the same way there         *)
(*     whenever it comes from here, goes there at once.                    *)
(***************************************************************************)

\* Blocks with several predecessors that end in a branch, have no effect, and pop at most one element that they have
\* not pushed: how many they pop
DepthAfter(d, bc) == [depth |-> d.depth - Pop(bc) + Push(bc),
                      min |-> IF d.depth - Pop(bc) < d.min THEN d.depth - Pop(bc) ELSE d.min]
Depth(code) == FoldUp(DepthAfter, [depth |-> 1, min |-> 1], code)
IsSafeBranch(b) ==
  /\ b.taken # None /\ b.next # None
  /\ Cardinality(b.preds) > 1
  /\ \A i \in DOMAIN b.code : ~HasEffects(b.code[i].op)
  /\ Depth(b.code).min >= 0 /\ Depth(b.code).depth = Depth(b.code).min
SafeBranches(f) ==
  [o \in {p \in Blocks(f) : IsSafeBranch(f.blocks[p])} |-> 1 - Depth(f.blocks[o].code).depth]

-----------------------------------------------------------------------------
\* r: what is known on entry to the blocks, the blocks to look at, what there is to do: `resolved` branches, `same`
\* locals after a store, stores to drop (`selfs`), literals to replace (`reps`), `redirects`.
\* w: r, what is known here, the edges not to follow
NewRun(at) == [ins |-> <<>>, queue |-> {at}, resolved |-> <<>>, same |-> <<>>, selfs |-> {}, reps |-> <<>>,
               redirects |-> <<>>, broken |-> {}]
Without(fn, x) == Restrict(fn, DOMAIN fn \ {x})
Checking(r, holds, name) == IF holds THEN r ELSE [r EXCEPT !.broken = @ \cup {name}]

Enter(r, o, s) ==
  IF o \notin DOMAIN r.ins THEN [r EXCEPT !.ins = (o :> CloneState(s)) @@ @, !.queue = @ \cup {o}]
  ELSE IF MergeInto(s, r.ins[o]) = r.ins[o] THEN r
  ELSE [r EXCEPT !.ins[o] = MergeInto(s, @), !.queue = @ \cup {o}]

\* The handler finds the stack as it was on entry to the `try`, as far as that is known, and the exception
EntryDepth(r, at) == IF at \in DOMAIN r.ins THEN Len(r.ins[at].stack) ELSE 0
Unwound(s, depth) == PushType(PopTypes(s, IF Len(s.stack) > depth THEN Len(s.stack) - depth ELSE 0), AnyType)
EnterHandler(f, r, b, s) ==
  Enter(r, b.exsucc, Unwound(CloneState(s), EntryDepth(r, f.entries[Innermost(f, b)].start)))

-----------------------------------------------------------------------------
\* one instruction, before it is run
LocalsIn(c) == {slot \in c : slot >= 0}
StoreFact(r, bc, before, after) ==
  LET forgot == [r EXCEPT !.selfs = @ \ {bc.at}, !.same = Without(@, bc.at)]
  IN  IF before.loop THEN forgot
      ELSE IF IsSelfStore(before, bc.arg) THEN [forgot EXCEPT !.selfs = @ \cup {bc.at}]
      ELSE IF ClassOf(after, bc.arg) = {} THEN forgot
      ELSE [forgot EXCEPT !.same = (bc.at :> LocalsIn(ClassOf(after, bc.arg))) @@ @]

LiteralFact(r, bc, after) ==
  LET known == IF after.loop THEN {} ELSE FindEquivalent(after, after.stack[Len(after.stack)])
  IN  [r EXCEPT !.reps = IF known = {} THEN Without(@, bc.at) ELSE (bc.at :> CHOOSE k \in known : TRUE) @@ @]

\* A loop on one block that leaves more on the stack at every turn fills an array: it is run to its end
IsArrayLoop(r, o, b, s) == b.taken = o /\ Len(r.ins[o].stack) # Len(s.stack) - 1
Condition(s) == TypeAt(s, Len(s.stack))
IsTaken(bc, s) == MustBeTrue(Condition(s)) = (bc.op = "bt")
IsDecided(s) == s.stack # <<>> /\ (MustBeTrue(Condition(s)) \/ MustBeFalse(Condition(s)))

ArrayTurn(w, o, bc) ==
  LET run == Checking(w.run, IsDecided(w.state), "interpFunc: array loop")
  IN  IF IsDecided(w.state) /\ IsTaken(bc, w.state)
      THEN [run |-> [run EXCEPT !.ins[o].loop = TRUE], state |-> [InterpBytecode(bc, w.state) EXCEPT !.loop = TRUE],
            skip |-> {}, i |-> 1]
      ELSE [run |-> run, state |-> InterpBytecode(bc, w.state), skip |-> {"taken"}, i |-> w.i + 1]
BranchFact(w, o, bc) ==
  [ run |-> [w.run EXCEPT !.resolved = IF IsDecided(w.state) THEN (o :> IsTaken(bc, w.state)) @@ @ ELSE Without(@, o)],
    state |-> InterpBytecode(bc, w.state),
    skip |-> IF ~IsDecided(w.state) THEN {} ELSE IF IsTaken(bc, w.state) THEN {"next"} ELSE {"taken"},
    i |-> w.i + 1 ]
Plainly(w, bc, run) == [w EXCEPT !.run = run, !.state = InterpBytecode(bc, @), !.i = @ + 1]

Replaceable == {"ipush", "ipush2", "ipush3", "lpush", "spush"}
InterpOne(f, o, b, w, bc) ==
  IF bc.op = "lputv" THEN Plainly(w, bc, StoreFact(w.run, bc, w.state, InterpBytecode(bc, w.state)))
  ELSE IF bc.op \in Replaceable THEN Plainly(w, bc, LiteralFact(w.run, bc, InterpBytecode(bc, w.state)))
  ELSE IF bc.op \in CondBranches
  THEN IF IsArrayLoop(w.run, o, b, w.state) THEN ArrayTurn(w, o, bc) ELSE BranchFact(w, o, bc)
  ELSE Plainly(w, bc, w.run)

\* with the handler entered from where the instruction may throw
Throws(f, b, w, bc) ==
  IF Truthy(b.exsucc) /\ MayThrow(bc.op) THEN [w EXCEPT !.run = EnterHandler(f, @, b, w.state)] ELSE w
RECURSIVE InterpBlock(_, _, _, _)
InterpBlock(f, o, b, w) ==
  IF w.i > Len(b.code) THEN w
  ELSE InterpBlock(f, o, b, Throws(f, b, InterpOne(f, o, b, w, b.code[w.i]), b.code[w.i]))

-----------------------------------------------------------------------------
\* Which way the branch at the end of block `to` goes from here: nothing if it depends
AtBranch(s, code) == FoldUp(LAMBDA t, bc : InterpBytecode(bc, t), CloneState(s), Front(code))
Goes(f, at, s) ==
  IF ~IsDecided(s) THEN {}
  ELSE {[from |-> at, to |-> IF IsTaken(f.blocks[at].code[Len(f.blocks[at].code)], s)
                             THEN f.blocks[at].taken ELSE f.blocks[at].next]}
MayRedirect(safe, r, o, b, at) ==
  at \in DOMAIN safe /\ o \notin DOMAIN r.resolved /\ (b.taken = None \/ safe[at] = 0)
Redirects(f, safe, r, o, b, s, at) ==
  IF MayRedirect(safe, r, o, b, at) /\ LastOp(f.blocks[at].code) \in CondBranches
  THEN Goes(f, at, AtBranch(s, f.blocks[at].code)) ELSE {}
\* a call of a `finally` that follows counts as a redirect, of which nothing comes
RedirectsOf(f, safe, r, o, b, s) ==
  IF s.loop THEN {}
  ELSE IF MayRedirect(safe, r, o, b, b.next)
            /\ (LastOp(f.blocks[b.next].code) = "jsr" \/ Redirects(f, safe, r, o, b, s, b.next) # {})
  THEN Redirects(f, safe, r, o, b, s, b.next)
  ELSE Redirects(f, safe, r, o, b, s, b.taken)
FindRedirect(f, safe, r, o, b, s) ==
  LET found == RedirectsOf(f, safe, r, o, b, s)
  IN  [r EXCEPT !.redirects = IF found = {} THEN Without(@, o) ELSE (o :> CHOOSE g \in found : TRUE) @@ @]

Follow(r, to, s, skipped) == IF to = None \/ skipped THEN r ELSE Enter(r, to, s)
Leave(f, safe, rets, o, b, w) ==
  LET redirected == FindRedirect(f, safe, w.run, o, b, w.state)
      after == Follow(Follow(redirected, b.next, w.state, "next" \in w.skip),
                      IF Truthy(b.taken) THEN b.taken ELSE None, w.state, "taken" \in w.skip)
  IN  FoldUp(LAMBDA r, to : Enter(r, to, w.state), after, Listed(rets))

InStateOf(r, o) == IF o \in DOMAIN r.ins THEN CloneState(r.ins[o]) ELSE NoState
Visit(f, safe, jsrs, r, o) ==
  Leave(f, safe, RetSuccs(f, jsrs, o), o, f.blocks[o],
        InterpBlock(f, o, f.blocks[o], [run |-> r, state |-> InStateOf(r, o), skip |-> {}, i |-> 1]))

\* The entry's state is only made by a jump back to it
RECURSIVE RpoPropagate(_, _, _, _, _)
RpoPropagate(f, safe, position, jsrs, r) ==
  IF r.queue = {} THEN r
  ELSE RpoPropagate(f, safe, position, jsrs,
         Visit(f, safe, jsrs, [r EXCEPT !.queue = @ \ {Latest(r.queue, position)}], Latest(r.queue, position)))

Learn(f) == RpoPropagate(f, SafeBranches(f), Position(PostOrder(f)), JsrMap(f), NewRun(f.at))

-----------------------------------------------------------------------------
\* what is learned is applied
Inverted(bc, at) == [Argless(bc, "invv") EXCEPT !.at = at]
Replaced(bc, rep) == [bc EXCEPT !.op = rep.op, !.arg = rep.arg]
ReplaceWith(f, o, i, rep) ==
  IF rep.invert
  THEN [f EXCEPT !.blocks[o].code = InsertAt([@ EXCEPT ![i] = Replaced(@, rep)], i + 1, Inverted(@[i], f.fresh)),
                 !.fresh = @ + 1]
  ELSE [f EXCEPT !.blocks[o].code[i] = Replaced(@, rep)]
DropSelfStores(f, selfs) ==
  [f EXCEPT !.blocks = [o \in DOMAIN @ |-> [@[o] EXCEPT !.code =
      Tuple([i \in DOMAIN @ |-> IF @[i].at \in selfs THEN Argless(@[i], "popv") ELSE @[i]])]]]
ReplaceIn(f, reps, o, i) ==
  IF f.blocks[o].code[i].at \in DOMAIN reps THEN ReplaceWith(f, o, i, reps[f.blocks[o].code[i].at]) ELSE f
ReplaceLiterals(f, reps) ==
  EachBlock(f, LAMBDA g, o :
    FoldDown(LAMBDA i, h : ReplaceIn(h, reps, o, i), [i \in 1..Len(g.blocks[o].code) |-> i], g))

ResolveBranch(f, o, isTaken) ==
  LET b == f.blocks[o]
      redirected == IF isTaken THEN Redirect(f, o, b.next, b.taken) ELSE Redirect(f, o, b.taken, b.next)
  IN  [redirected EXCEPT !.blocks[o].taken = None, !.blocks[o].code = [@ EXCEPT ![Len(@)] = Argless(@, "popv")]]
ResolveBranches(f, resolved) ==
  EachBlock(f, LAMBDA g, o : IF o \in DOMAIN resolved THEN ResolveBranch(g, o, resolved[o]) ELSE g)

PopAfter(f, o) ==
  [Asserting(f, f.blocks[o].next # None /\ ~Truthy(f.blocks[o].taken), "interpFunc: redirect")
     EXCEPT !.blocks[o].code = Append(@, [op |-> "popv", arg |-> 0, arg2 |-> 0, at |-> f.fresh, var |-> NoVar]), !.fresh = @ + 1]
RedirectBranch(f, safe, o, way) ==
  IF safe[way.from] = 0 THEN Redirect(f, o, way.from, way.to) ELSE PopAfter(Redirect(f, o, way.from, way.to), o)
RedirectBranches(f, safe, redirects) ==
  EachBlock(f, LAMBDA g, o : IF o \in DOMAIN redirects THEN RedirectBranch(g, safe, o, redirects[o]) ELSE g)

FoundAny(r) == r.selfs # {} \/ r.reps # <<>> \/ r.resolved # <<>> \/ r.redirects # <<>>
Applied(f, safe, r) ==
  RedirectBranches(ResolveBranches(ReplaceLiterals(DropSelfStores(f, r.selfs), r.reps), r.resolved), safe, r.redirects)
ApplyFacts(f, safe, r) ==
  [Applied(f, safe, r) EXCEPT !.changed = @ \/ FoundAny(r), !.broken = @ \cup r.broken]
=============================================================================
