----------------------------- MODULE BytecodeVM -----------------------------
(***************************************************************************)
(* The device's interpreter, as far as the post-optimizer relies on it     *)
(* (it is not part of the repository).                                     *)
(*                                                                         *)
(* A machine runs by itself up to what others can see: a call, a store to  *)
(* a member, the return, an exception that leaves the function.  Values    *)
(* are pairs of a tag and a payload; arrays are on a heap.  A machine that *)
(* does what no well formed code does gets stuck.                          *)
(***************************************************************************)
EXTENDS BytecodeEmit

CONSTANT Fuel        \* what a machine may do between two events

Null == <<"Null", 0>>
Bool(b) == IF b THEN <<"True", 0>> ELSE <<"False", 0>>
Num(n) == <<"Number", n>>
Obj(n) == <<"Object", n>>
IsTrue(v) == v[1] \notin {"Null", "False"} /\ v \notin {Num(0), <<"Long", 0>>}
IsNum(v) == v[1] \in NumberTags
IsBool(v) == v[1] \in BooleanTags

\* what can be seen of a value
RECURSIVE Deep(_, _)
Deep(heap, v) == IF v[1] # "Array" THEN v ELSE <<"Array", [i \in DOMAIN heap[v[2]] |-> Deep(heap, heap[v[2]][i])]>>

\* p: code, exceptions, and the place of each offset
Loaded(code, exns) == [code |-> code, exns |-> exns, place |-> [at \in {bc.at : bc \in ToSet(code)} |->
                                                                  CHOOSE i \in DOMAIN code : code[i].at = at]]
\* m: where it is, the stack, the locals, the heap, the return addresses of subroutines; the `try`s it is in, with the
\* depths of both stacks on entry; the event
Machine(args) ==
  [at |-> None, stack |-> <<>>, locals |-> args, heap |-> <<>>, rets |-> <<>>, tries |-> <<>>, event |-> <<>>]
Start(p, args) == [Machine(args) EXCEPT !.at = p.code[1].at]

Entered(p, m) ==
  [i \in {j \in DOMAIN p.exns : p.exns[j].start <= m.at /\ m.at < p.exns[j].end} |->
     IF i \in DOMAIN m.tries THEN m.tries[i] ELSE [stack |-> Len(m.stack), rets |-> Len(m.rets)]]
InnermostOf(p, tries) ==
  CHOOSE i \in DOMAIN tries : \A j \in DOMAIN tries :
    \/ p.exns[j].end - p.exns[j].start > p.exns[i].end - p.exns[i].start
    \/ p.exns[j].end - p.exns[j].start = p.exns[i].end - p.exns[i].start /\ j <= i
Raise(p, m, v) ==
  IF DOMAIN m.tries = {} THEN [m EXCEPT !.event = <<"escapes", Deep(m.heap, v)>>]
  ELSE LET i == InnermostOf(p, m.tries)
       IN  [m EXCEPT !.at = p.exns[i].handler, !.stack = Append(SubSeq(@, 1, m.tries[i].stack), v),
                     !.rets = SubSeq(@, 1, m.tries[i].rets)]
Stuck(m) == [m EXCEPT !.event = <<"stuck", m.at>>]

-----------------------------------------------------------------------------
Peek(m, n) == m.stack[Len(m.stack) - n]
Going(m, bc, n, vs) == [m EXCEPT !.at = After(bc), !.stack = SubSeq(@, 1, Len(@) - n) \o vs]
TypeError == Obj(1)
RangeError == Obj(2)

\* a Boolean makes the other one a Boolean
IsLogic(op, x, y) == op \in {"andv", "orv", "xorv"} /\ (IsBool(x) \/ IsBool(y))
ArithValue(op, x, y) ==
  IF IsLogic(op, x, y) THEN Bool(Combine(op, IsTrue(x), IsTrue(y)))
  ELSE <<IF "Long" \in {x[1], y[1]} THEN "Long" ELSE "Number", Calculate(op, x[2], y[2])>>
ArithFails(op, x, y) ==
  \/ ~(IsNum(x) /\ IsNum(y)) /\ ~IsLogic(op, x, y)
  \/ op \in {"divv", "modv"} /\ y[2] = 0
Same(x, y) == IF IsNum(x) /\ IsNum(y) THEN x[2] = y[2] ELSE x = y
Literally(bc) == LET t == Constant(bc) IN IF t.val = NoVal THEN <<CHOOSE tag \in t.tags : TRUE, 0>> ELSE t.val

NewArray(m, bc, fill) ==
  IF ~IsNum(Peek(m, 0)) THEN Stuck(m)
  ELSE [Going(m, bc, 1, <<<<"Array", Len(m.heap) + 1>>>>)
          EXCEPT !.heap = Append(@, Tuple([i \in 1..Peek(m, 0)[2] |-> fill]))]
IsIndex(m, array, i) == array[1] = "Array" /\ IsNum(i) /\ i[2] + 1 \in DOMAIN m.heap[array[2]]
PutElement(p, m, bc) ==
  IF ~IsIndex(m, Peek(m, 2), Peek(m, 1)) THEN Raise(p, m, RangeError)
  ELSE [Going(m, bc, 3, <<>>) EXCEPT !.heap[Peek(m, 2)[2]][Peek(m, 1)[2] + 1] = Peek(m, 0)]
GetElement(p, m, bc) ==
  IF ~IsIndex(m, Peek(m, 1), Peek(m, 0)) THEN Raise(p, m, RangeError)
  ELSE Going(m, bc, 2, <<m.heap[Peek(m, 1)[2]][Peek(m, 0)[2] + 1]>>)

Seen(m, what, n) == [m EXCEPT !.event = <<what, [i \in 1..n |-> Deep(m.heap, Peek(m, n - i))]>>]
Jump(m, n, at) == [m EXCEPT !.at = at, !.stack = SubSeq(@, 1, Len(@) - n)]
Grown(m, n) == [m EXCEPT !.locals = @ \o [i \in 1..n |-> Null]]
HasSlot(m, n) == n + 1 \in DOMAIN m.locals

\* the instructions that compute
Compute(p, m, bc) ==
  CASE bc.op \in Literals -> Going(m, bc, 0, <<Literally(bc)>>)
    [] bc.op \in {"cpush", "news", "fpush"} -> Going(m, bc, 0, <<Obj(bc.arg)>>)
    [] bc.op = "dup" -> IF Len(m.stack) <= bc.arg THEN Stuck(m) ELSE Going(m, bc, 0, <<Peek(m, bc.arg)>>)
    [] bc.op \in Arithmetic ->
         IF ArithFails(bc.op, Peek(m, 1), Peek(m, 0)) THEN Raise(p, m, TypeError)
         ELSE Going(m, bc, 2, <<ArithValue(bc.op, Peek(m, 1), Peek(m, 0))>>)
    [] bc.op \in {"eq", "ne"} -> Going(m, bc, 2, <<Bool(Same(Peek(m, 1), Peek(m, 0)) = (bc.op = "eq"))>>)
    [] bc.op \in {"lt", "lte", "gt", "gte"} ->
         IF ~(IsNum(Peek(m, 1)) /\ IsNum(Peek(m, 0))) THEN Raise(p, m, TypeError)
         ELSE Going(m, bc, 2, <<Bool(Compare(bc.op, Peek(m, 1)[2], Peek(m, 0)[2]))>>)
    [] bc.op = "isnull" -> Going(m, bc, 1, <<Bool(Peek(m, 0) = Null)>>)
    [] bc.op = "isnotnull" -> Going(m, bc, 1, <<Bool(Peek(m, 0) # Null)>>)
    [] bc.op = "invv" ->
         IF IsNum(Peek(m, 0)) THEN Going(m, bc, 1, <<<<Peek(m, 0)[1], -1 - Peek(m, 0)[2]>>>>)
         ELSE IF IsBool(Peek(m, 0)) THEN Going(m, bc, 1, <<Bool(Peek(m, 0)[1] = "False")>>)
         ELSE Raise(p, m, TypeError)
    [] bc.op = "newa" -> NewArray(m, bc, Null)
    [] bc.op = "newba" -> NewArray(m, bc, Num(0))
    [] bc.op = "aputv" -> PutElement(p, m, bc)
    [] bc.op = "agetv" -> GetElement(p, m, bc)
    [] bc.op = "getm" -> Going(m, bc, 1, <<Obj(Peek(m, 0)[2])>>)
    [] bc.op = "getv" -> Going(m, bc, 2, <<Obj(Peek(m, 0)[2])>>)
    [] bc.op = "getselfv" -> Going(m, bc, 0, <<Obj(bc.arg)>>)
    [] OTHER -> Stuck(m)

\* those that move values, or control
Control(p, m, bc) ==
  CASE bc.op \in {"argc", "nop"} -> Going(m, bc, 0, <<>>)
    [] bc.op = "argcincsp" -> Grown(Going(m, bc, 0, <<>>), bc.arg2)
    [] bc.op = "incsp" -> Grown(Going(m, bc, 0, <<>>), bc.arg)
    [] bc.op \in {"lgetv", "getself"} ->
         IF HasSlot(m, ReadsLocal(bc)) THEN Going(m, bc, 0, <<m.locals[ReadsLocal(bc) + 1]>>) ELSE Stuck(m)
    [] bc.op = "lputv" ->
         IF HasSlot(m, bc.arg) THEN [Going(m, bc, 1, <<>>) EXCEPT !.locals[bc.arg + 1] = Peek(m, 0)] ELSE Stuck(m)
    [] bc.op = "popv" -> Going(m, bc, 1, <<>>)
    [] bc.op \in CondBranches ->
         Jump(m, 1, IF IsTrue(Peek(m, 0)) = (bc.op = "bt") THEN bc.arg ELSE After(bc))
    [] bc.op = "goto" -> Jump(m, 0, bc.arg)
    [] bc.op = "jsr" -> [Jump(m, 0, bc.arg) EXCEPT !.rets = Append(@, After(bc))]
    [] bc.op = "ret" -> IF m.rets = <<>> THEN Stuck(m) ELSE [Jump(m, 0, Last(m.rets)) EXCEPT !.rets = Front(@)]
    [] bc.op = "throw" -> Raise(p, m, Peek(m, 0))
    [] bc.op = "return" -> Seen(m, "returns", 1)
    [] bc.op = "invokem" -> Seen(m, "calls", bc.arg + 1)
    [] bc.op = "putv" -> Seen(m, "puts", 3)
    [] OTHER -> Compute(p, m, bc)

Execute(p, m, bc) == IF Pop(bc) > Len(m.stack) THEN Stuck(m) ELSE Control(p, m, bc)
StepVM(p, m) ==
  IF m.at \notin DOMAIN p.place THEN Stuck(m)
  ELSE Execute(p, [m EXCEPT !.tries = Entered(p, m)], p.code[p.place[m.at]])
RECURSIVE RunVM(_, _, _)
RunVM(p, m, fuel) ==
  IF m.event # <<>> THEN m
  ELSE IF fuel = 0 THEN [m EXCEPT !.event = <<"spins", 0>>]
  ELSE RunVM(p, StepVM(p, m), fuel - 1)

\* a call comes back with a value, or an exception; a store to a member just with success
Resume(p, m, outcome) ==
  LET bc == p.code[p.place[m.at]]
      back == [m EXCEPT !.event = <<>>]
  IN  IF outcome[1] = "throws" THEN Raise(p, back, outcome[2])
      ELSE Going(back, bc, Pop(bc), IF Push(bc) = 1 THEN <<outcome[2]>> ELSE <<>>)
=============================================================================
