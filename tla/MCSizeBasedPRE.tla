--------------------------- MODULE MCSizeBasedPRE ---------------------------
(* Functions: every statement around every other, and what leaves them; and functions to rewrite. *)
EXTENDS SizeBasedPRE

\* f sets x, g what f sets, h nothing, s and n y, c what f sets, e x, u anything, api what is exposed; s is two functions;
\* nothing is known of z, which w calls
Helpers == {"f", "g", "h", "s", "n", "c", "e", "u", "z", "w", "api"}
MCNamed == [name \in Helpers |-> IF name = "s" THEN <<"h", "s">> ELSE <<name>>]
MCEffects ==
  [f |-> <<Assigns({"x"}, "x")>>, g |-> <<Calls({}, "f"), Calls({"g"}, "g")>>, h |-> <<>>, s |-> <<Assigns({"y"}, "y")>>,
   n |-> <<Assigns({}, "y")>>, c |-> <<Creates({"f"}, "C")>>, e |-> <<Assigns({"x"}, "x")>>, u |-> <<Assigns({}, AnyCall)>>,
   w |-> <<Calls({"z"}, "z")>>]

Block(statements) == Node("block", "", statements)
Expr(e) == Node("expr", "", <<e>>)
CallOf(f) == Node("call", f, <<>>)
Call == CallOf("f")
Ref == Node("ref", "x", <<>>)
Both(k, l, r) == Node(k, "", <<l, r>>)
Cond(c, a, b) == Node("cond", "", <<c, a, b>>)
Set(e) == Node("set", "x", <<e>>)
Throw == Node("throw", "", <<Ref>>)
Return == Node("return", "", <<>>)
Break == Node("break", "", <<>>)
Continue == Node("continue", "", <<>>)

If(test, yes) == Node("if", "", <<test, yes>>)
IfElse(test, yes, no) == Node("if", "", <<test, yes, no>>)
While(test, body) == Node("while", "", <<test, body>>)
DoWhile(body, test) == Node("do", "", <<body, test>>)
For(init, test, update, body) == Node("for", "", <<init, test, update, body>>)
Switch(cases) == Node("switch", "", <<Ref>> \o cases)
Case(test, body) == Node("case", "", <<test>> \o body)
Try(body, finalizer, clauses) == Node("try", "", <<body, finalizer>> \o clauses)
Clause(param, body) == Node("clause", "", <<param, body>>)
IsInstance == Node("bin", "instanceof", <<Ref, Ref>>)
Equals == Node("bin", "==", <<Ref, Call>>)
IsNot == Node("bin", "!", <<Equals>>)

\* conditions, in tests and as values
Conditions ==
  LET simple == {Ref, Call, Equals}
      pairs == {Both(k, l, r) : k \in {"and", "or"}, l \in simple, r \in simple}
      deep == {Both(k, l, r) : k \in {"and", "or"}, l \in {Both("and", Ref, Call), Both("or", Ref, Call), Cond(Ref, Call, Ref)}, r \in {Call}}
      choices == {Cond(c, a, b) : c \in {Ref, Both("and", Ref, Call)}, a \in {Call, Both("or", Ref, Call)}, b \in {Ref}}
  IN  simple \cup {IsNot} \cup pairs \cup deep \cup choices
Plain == {Expr(Call), Expr(Set(Ref))}
Leaves == {Return, Throw}
\* statements that look for a way out of what is around them: of a loop, of a switch, of a try
Exits(ways) == {If(Ref, w) : w \in ways} \cup ways \cup Plain
Bodies2(ways) == {Block(<<s, Expr(Call)>>) : s \in Exits(ways)} \cup {Block(<<Expr(Call), s>>) : s \in Exits(ways)}

Ifs(inner) == {If(Ref, s) : s \in inner} \cup {IfElse(Call, s, Expr(Call)) : s \in inner} \cup {IfElse(Call, Expr(Call), s) : s \in inner}
Loops(inner) ==
  {While(Ref, s) : s \in inner} \cup {DoWhile(s, Call) : s \in inner}
  \cup {For(init, test, update, s) : s \in inner, init \in {Nothing, Set(Call)}, test \in {Nothing, Ref}, update \in {Nothing, Call}}
Switches(inner) ==
  {Switch(<<Case(Ref, <<s>>), Case(Call, <<Expr(Call)>>)>>) : s \in inner}
  \cup {Switch(<<Case(Ref, <<s, Expr(Call)>>), Case(Nothing, <<s>>)>>) : s \in inner}
  \cup {Switch(<<Case(Nothing, <<s>>), Case(Ref, <<>>), Case(Ref, <<Expr(Set(Ref)), Break>>)>>) : s \in inner}
Catches(inner, handler) ==
  {Try(s, Nothing, <<Clause(Nothing, h)>>) : s \in inner, h \in handler}
  \cup {Try(s, Nothing, <<Clause(IsInstance, h)>>) : s \in inner, h \in handler}
  \cup {Try(s, Nothing, <<Clause(IsInstance, Expr(Call)), Clause(Nothing, h)>>) : s \in inner, h \in handler}
Function(statements) == Numbered(Block(statements), 1)
\* with a finalizer, handlers may not call, and go on only where the body does: see FinallyFunctions
Goes(s) == \A i \in DOMAIN s.kids : s.kids[i].k \notin {"return", "throw"}
Finals(inner) ==
  {Try(s, f, <<Clause(Nothing, h)>>) : s \in inner, f \in {Expr(Call), If(Ref, Return)}, h \in {Throw, Return}}
  \cup {Try(s, Expr(Call), <<Clause(Nothing, Expr(Set(Ref)))>>) : s \in {t \in inner : Goes(t)}}
  \cup {Try(s, Expr(Call), <<Clause(IsInstance, h)>>) : s \in {t \in inner : Goes(t)}, h \in {Expr(Set(Ref)), Return}}

Around(nodes) == {Function(<<n, Expr(Set(Ref))>>) : n \in nodes}

Tests == {s : s \in UNION {{If(c, Expr(Call)), IfElse(c, Expr(Call), Expr(Ref)), While(c, Expr(Call)), DoWhile(Expr(Call), c),
                            For(Nothing, c, Call, Block(<<>>)), Expr(Set(c)), IfElse(Ref, If(c, Expr(Call)), Expr(Ref))} : c \in Conditions}}
Inner == {If(Ref, Break), Block(<<If(Ref, Continue), Expr(Call)>>), Block(<<Expr(Call), Return>>), If(Ref, Throw)}
LoopBodies == Bodies2({Break, Continue, Return, Throw})
SwitchBodies == Exits({Break, Return, Throw})
TryBodies == Bodies2({Return, Throw})
Simple == Around(Tests) \cup Around(Ifs(Bodies2(Leaves))) \cup Around(Loops(LoopBodies)) \cup Around(Switches(SwitchBodies))
          \cup Around(Catches(TryBodies, Plain \cup Leaves))
\* one in the other
LoopIn == {DoWhile(s, Ref) : s \in Exits({Break, Continue})} \cup {For(Nothing, Ref, Call, s) : s \in Exits({Break})}
SwitchIn == {Switch(<<Case(Ref, <<s>>), Case(Nothing, <<Expr(Call)>>)>>) : s \in {Break, Expr(Call), Return}}
TryIn(ways) == {Try(s, Nothing, <<Clause(p, h)>>) : s \in {Expr(Call)} \cup ways, p \in {Nothing, IsInstance}, h \in {Expr(Call), If(Ref, Throw)} \cup ways}
Nested ==
  Around(Loops({Block(<<s, Expr(Call)>>) : s \in LoopIn \cup SwitchIn \cup TryIn({Break, Continue})
                                          \cup {Switch(<<Case(Ref, <<If(Ref, Continue)>>), Case(Ref, <<Break>>)>>)}}))
  \cup Around(Catches(LoopIn \cup SwitchIn \cup TryIn({Return, Throw}), {Expr(Call)}))
  \cup Around(Catches({Expr(Call)}, LoopIn \cup SwitchIn \cup TryIn({Return, Throw})))
  \cup Around(Switches(LoopIn \cup SwitchIn \cup TryIn({Break, Return})))

\* what is on its way through a finalizer
Finally ==
  Around(Finals(TryBodies))
  \cup Around(Loops({Block(<<s, Expr(Call)>>) : s \in Finals({Block(<<If(Ref, w), Expr(Call)>>) : w \in {Break, Continue, Return, Throw}})}))
  \cup Around(Finals(LoopIn \cup SwitchIn \cup TryIn({Return, Throw})))
\* expressions that throw where it is not known yet what becomes of them
Throwing ==
  Around(Catches({If(c, Expr(Call)) : c \in Conditions} \cup {Expr(Set(c)) : c \in Conditions} \cup {While(c, Expr(Call)) : c \in Conditions}
                 \cup {Expr(Both("bin", c, Call)) : c \in Conditions}, {Expr(Call)}))

AllFunctions == Simple \cup Nested \cup Finally \cup Throwing

\* the handler goes on, the body does not: `try { throw x; } catch (ex) { x = x; } finally { call(); } x = x;`
FinallyFunctions == Around({Try(s, Expr(Call), <<Clause(Nothing, Expr(Set(Ref)))>>) : s \in TryBodies})

-----------------------------------------------------------------------------
(* Functions to rewrite: a statement, two in a structure, and a use of x behind them. *)
A == Node("ref", "a", <<>>)                 \* a local
Y == Node("ref", "y", <<>>)
Five == Node("lit", "5", <<>>)
Plus(l, r) == Node("bin", "+", <<l, r>>)
SetTo(x, e) == Expr(Node("set", x, <<e>>))
Use == SetTo("a", Plus(Ref, Ref))
Fives == SetTo("a", Plus(Five, Plus(Five, Plus(Five, Node("ref", "k", <<>>)))))

Items ==
  {Use, Fives, SetTo("x", A), SetTo("x", Plus(Ref, A)), SetTo("y", Plus(Y, Y)), Expr(Node("upd", "x", <<>>))}
  \cup {Expr(CallOf(f)) : f \in Helpers}
IsQuiet(s) == "call" \notin Kinds(s)         \* it cannot change what the handler of a `try` reads
Structures(p, q) ==
  {If(A, Block(<<p, q>>)), IfElse(Ref, Block(<<p, Return>>), q), If(Both("and", Ref, A), Block(<<p, q>>)),
   While(A, Block(<<p, q>>)), While(Ref, Block(<<If(Ref, Break), p, If(A, Continue), q>>)),
   DoWhile(Block(<<p, q>>), Plus(Five, Five)), DoWhile(Block(<<p, While(A, q)>>), A),
   For(Node("set", "a", <<Ref>>), A, Node("set", "x", <<A>>), Block(<<p, q>>)),
   Node("switch", "", <<A, Case(Five, <<p>>), Case(Ref, <<q, Break>>)>>),
   Node("switch", "", <<A, Case(Five, <<p, Break>>), Case(Nothing, <<q, Break>>)>>),
   Block(<<p, If(Call, q)>>), Try(Use, Nothing, <<Clause(Nothing, Block(<<p, q>>))>>)}
  \cup (IF IsQuiet(q) THEN {Block(<<p, Try(Block(<<q, Expr(CallOf("h"))>>), Nothing, <<Clause(Nothing, Use)>>)>>)} ELSE {})
Firsts == {Use, SetTo("x", A), Expr(Call), Expr(CallOf("api"))}
Seconds == Firsts \cup {Fives, SetTo("y", Plus(Y, Y))}
Rewritable == {Function(<<i, s, Use>>) : i \in Firsts, s \in UNION {Structures(p, q) : p \in Items, q \in Seconds}}

NoPrograms == {}
=============================================================================
