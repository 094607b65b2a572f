-------------------------- MODULE MCPostOptimizer --------------------------
\* Functions for the post-optimizer, put together from what Garmin's compiler makes of statements
EXTENDS PostOptimizer

\* A line is an instruction, with a label for its target; or a label
I(op, arg) == <<[op |-> op, arg |-> arg, arg2 |-> 0, var |-> NoVar]>>
O(op) == I(op, 0)
At1(label) == I("label", label)
V(name) == [names |-> {name}, id |-> 1, param |-> FALSE]

Sizes(lines) ==
  FoldLeft(LAMBDA acc, l : Append(acc, acc[Len(acc)] + IF l.op = "label" THEN 0 ELSE Size(l.op)), <<10>>, lines)
Labels(lines) ==
  LET sizes == Sizes(lines)
  IN  [label \in {l.arg : l \in {k \in ToSet(lines) : k.op = "label"}} |->
         sizes[CHOOSE i \in DOMAIN lines : lines[i].op = "label" /\ lines[i].arg = label]]
Assembled(lines, sizes, labels) ==
  LET is == SelectSeq([i \in DOMAIN lines |-> i], LAMBDA i : lines[i].op # "label")
  IN  [k \in DOMAIN is |-> [op |-> lines[is[k]].op, arg2 |-> lines[is[k]].arg2, at |-> sizes[is[k]],
                            arg |-> IF IsJump(lines[is[k]]) THEN labels[lines[is[k]].arg] ELSE lines[is[k]].arg,
                            var |-> lines[is[k]].var]]
\* tries: triples of labels
Program(lines, tries) ==
  [code |-> Assembled(lines, Sizes(lines), Labels(lines)),
   exns |-> [i \in DOMAIN tries |-> [start |-> Labels(lines)[tries[i][1]], end |-> Labels(lines)[tries[i][2]],
                                     handler |-> Labels(lines)[tries[i][3]]]]]

\* f(self, a) has locals 2..4, x, y and z
self == 0
a == 1
x == 2
y == 3
z == 4
Function(body) == I("argc", 2) \o I("incsp", 3) \o body \o O("npush") \o O("return")
Name(n) == CASE n = a -> "a" [] n = x -> "x" [] n = y -> "y" [] n = z -> "z" [] n = self -> "self"
Get(n) == <<[op |-> "lgetv", arg |-> n, arg2 |-> 0, var |-> V(Name(n))]>>
Put(n) == <<[op |-> "lputv", arg |-> n, arg2 |-> 0, var |-> V(Name(n))]>>
K(n) == IF n = 0 THEN O("ipushz") ELSE I("ipush", n)
Set1(n, e) == e \o Put(n)
\* an expression: a call of method m with one argument; a statement
Call(m, e) == I("getselfv", m) \o Get(self) \o e \o I("invokem", 2)
Do1(m, e) == Call(m, e) \o O("popv")
Return(e) == e \o O("return")
Binop(op, l, r) == l \o r \o O(op)
If(c, t, e, n) == c \o I("bf", n) \o t \o I("goto", n + 1) \o At1(n) \o e \o At1(n + 1)
When(c, t, n) == c \o I("bf", n) \o t \o At1(n)
While(c, b, n) == At1(n) \o c \o I("bf", n + 1) \o b \o I("goto", n) \o At1(n + 1)
And(l, r, n) == l \o I("dup", 0) \o I("bf", n) \o r \o O("andv") \o At1(n)
Or(l, r, n) == l \o I("dup", 0) \o I("bt", n) \o r \o O("orv") \o At1(n)
Break(n) == I("goto", n + 1)
Continue(n) == I("goto", n)
\* labels n: start, n + 1: end, n + 2: handler, n + 3: what follows
Try(b, h, n) ==
  At1(n) \o b \o At1(n + 1) \o I("goto", n + 3) \o At1(n + 2) \o Put(z) \o h \o At1(n + 3)
TryOf(n) == <<n, n + 1, n + 2>>
\* a finally is called; what is thrown is thrown again
Finally(b, h, n) ==
  At1(n) \o b \o At1(n + 1) \o I("jsr", n + 4) \o I("goto", n + 3)
    \o At1(n + 2) \o I("jsr", n + 4) \o O("throw") \o At1(n + 4) \o h \o O("ret") \o At1(n + 3)
Array(n, values, new) ==
  I("ipush", n) \o O(new)
    \o FlattenSeq([i \in DOMAIN values |-> I("dup", 0) \o K(i - 1) \o values[i] \o O("aputv")])
Case(e, k, b, n) == I("dup", 0) \o k \o O("eq") \o I("bf", n) \o O("popv") \o b \o I("goto", 99) \o At1(n)
Switch(e, k1, b1, k2, b2, d) ==
  e \o Case(e, k1, b1, 90) \o Case(e, k2, b2, 91) \o O("popv") \o d \o At1(99)

-----------------------------------------------------------------------------
Conds == {Get(a), Call(5, Get(a)), Binop("eq", Get(x), K(1)), And(Binop("gt", Get(x), K(0)), Call(6, Get(x)), 70)}
Stmts == {Set1(x, K(1)), Set1(x, Get(a)), Set1(y, Get(x)), Do1(7, Get(y)), Do1(7, K(1)), Return(Get(x))}
Starts == {Set1(x, K(1)) \o Set1(y, K(2)), Set1(x, Call(5, K(0))) \o Set1(y, Get(x))}

Branching ==
  {Program(Function(s \o If(c, t, e, 10) \o Do1(8, Binop("addv", Get(x), Get(y)))), <<>>)
     : s \in Starts, c \in Conds, t \in Stmts, e \in Stmts}

Bodies(op) == {Do1(7, Get(x)) \o Set1(x, Binop(op, Get(x), K(1))),
           Set1(y, Get(x)) \o Set1(x, Binop(op, Get(y), K(1))),
           When(Call(5, Get(x)), Break(10), 20) \o Set1(x, Binop(op, Get(x), K(1))),
           When(Binop("eq", Get(x), K(1)), Set1(x, K(2)) \o Continue(10), 20) \o Set1(x, Call(5, Get(x))),
           When(Get(a), Set1(z, K(3)) \o Return(Get(z)), 20) \o Set1(x, K(4))}
Loops ==
  {Program(Function(Set1(x, K(n)) \o Set1(y, K(0)) \o While(c, b, 10) \o Do1(8, Binop("addv", Get(x), Get(y)))), <<>>)
     : n \in {0, 1}, c \in {Binop("lt", Get(x), K(2))}, b \in Bodies("addv")}
  \cup
  {Program(Function(Set1(x, K(n)) \o Set1(y, K(0)) \o While(Call(6, Get(x)), b, 10) \o Do1(8, Binop("addv", Get(x), Get(y)))), <<>>)
     : n \in {0, 1}, b \in Bodies("xorv")}

\* the second statement of a `try` may throw, or leave; a handler
Tried == {Do1(5, Get(x)), Do1(5, Get(a)) \o Set1(x, K(1)), Set1(x, Call(5, Get(a))), Set1(x, Binop("addv", Get(a), K(1))),
          When(Call(5, Get(x)), Return(Get(x)), 20), Set1(x, K(1))}
Handlers == {<<>>, Set1(x, K(2)), Do1(6, Get(z)), Get(z) \o O("throw"), Return(Get(x))}
Tries ==
  {Program(Function(Set1(x, K(0)) \o Set1(y, Get(x)) \o Try(Set1(x, K(3)) \o t, h, 10) \o Do1(8, Binop("addv", Get(x), Get(y)))),
           <<TryOf(10)>>)
     : t \in Tried, h \in Handlers}
Finallies ==
  {Program(Function(Set1(x, K(0)) \o Finally(t, h, 10) \o Do1(8, Get(x))), <<TryOf(10)>>)
     : t \in Tried, h \in {<<>>, Set1(y, Get(x)), Do1(6, Get(x)), Set1(x, K(7))}}

Filled ==
  {Program(Function(Array(Len(vs), vs, new) \o use), <<>>)
     : new \in {"newa", "newba"},
       vs \in {<<K(0)>>, <<K(5), K(5), K(5)>>, [i \in 1..9 |-> K(i)], [i \in 1..5 |-> K(7)], [i \in 1..8 |-> K(0)],
               [i \in 1..7 |-> Get(a)], [i \in 1..4 |-> Call(5, Get(a))]},
       use \in {O("popv"), Put(x) \o Do1(6, Get(x)), O("return")}}

Kept ==
  {Program(Function(Do1(5, k) \o If(Get(a), s \o Do1(6, k), Do1(6, k), 10) \o Do1(7, k)), <<>>)
     : k \in {K(70000), O("ipushz"), I("news", 3), I("spush", 400) \o O("getm"), I("cpush", 6), I("ipush", 300)},
       s \in {<<>>, Return(K(9))}}

Tails ==
  {Program(Function(Set1(x, K(1)) \o Set1(y, K(2)) \o If(Call(5, Get(a)), s \o e, t \o e, 10) \o Do1(8, Get(x))), <<>>)
     : s \in Stmts, t \in Stmts, e \in {Do1(6, Binop("addv", Get(x), Get(a))), Do1(6, Get(a)) \o Return(Get(x))}}

Computed ==
  {Program(Function(Do1(5, e) \o Return(e)), <<>>)
     : e \in {Binop("shlv", Get(a), K(n)) : n \in {0, 1, 3, 20}}
         \cup {Binop(op, K(l), K(r)) : op \in {"addv", "divv", "modv", "lt", "eq", "ne", "xorv"}, l \in {0, 5}, r \in {0, 3}}
         \cup {K(5) \o O("invv"), Binop("andv", O("btpush"), O("bfpush"))}}

Switches ==
  {Program(Function(Set1(x, K(0)) \o Switch(e, K(0), b, k, Do1(6, K(0)), d) \o Do1(8, Get(x))), <<>>)
     : e \in {Get(a), Call(5, Get(a))}, k \in {K(1), O("npush")},
       b \in {Set1(x, K(1)), Return(K(2)), Do1(6, K(0))}, d \in {<<>>, Do1(6, K(0))}}

MCPrograms == Branching \cup Loops \cup Tries \cup Finallies \cup Filled \cup Kept \cup Tails \cup Computed \cup Switches
MCArguments == {<<Obj(0), Num(1)>>, <<Obj(0), Null>>}
MCOutcomes == {<<"returns", Num(0)>>, <<"returns", Num(1)>>, <<"throws", Obj(9)>>}
=============================================================================
