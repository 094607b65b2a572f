----------------------------- MODULE Statements -----------------------------
(***************************************************************************)
(* What statements and expressions of Monkey C do: a machine that runs     *)
(* them, independent of the graphs the optimizer makes of them.            *)
(*                                                                         *)
(* A node of the syntax tree has a kind, a name (of a variable, an         *)
(* operator), the nodes under it and an identity.  What is left to do is   *)
(* a sequence of frames.  A step does a bit of the first frame, and is     *)
(* labelled with what can be seen of it: an operation is performed or      *)
(* throws, a test goes one way or the other.  Values are not known here:   *)
(* every test may go either way.                                           *)
(***************************************************************************)
EXTENDS StrictFolds

Node(k, x, kids) == [k |-> k, x |-> x, id |-> 0, kids |-> kids]
Nothing == Node("none", "", <<>>)       \* an optional part that is not there
IsThere(n) == n.k # "none"

RECURSIVE Extent(_), Numbered(_, _), AllNodes(_)
\* how many nodes a tree has, and the tree with its nodes told apart
Extent(n) == FoldUp(LAMBDA sum, kid : sum + Extent(kid), 1, n.kids)
Numbered(n, first) ==
  [n EXCEPT !.id = first,
            !.kids = FoldUp(LAMBDA ks, kid : Append(ks, Numbered(kid, first + 1 + FoldUp(LAMBDA sum, k : sum + Extent(k), 0, ks))),
                            <<>>, n.kids)]
AllNodes(n) == {n} \cup UNION {AllNodes(n.kids[i]) : i \in DOMAIN n.kids}
Kinds(n) == {m.k : m \in AllNodes(n)}

-----------------------------------------------------------------------------
(***************************************************************************)
(* Expressions: none, lit x, ref x, call x (arguments), bin x (operands),  *)
(* set x (value), upd x (value), seq (expressions), and, or (left,         *)
(* right), cond (test, yes, no).                                           *)
(* Statements: expr (e), block (statements), if (test, yes[, no]),         *)
(* while (test, body), do (body, test), for (init, test, update, body),    *)
(* switch (discriminant, cases), case (test, statements), try (body,       *)
(* finalizer, clauses), clause (parameter, body), throw (e), return (e),   *)
(* break, continue.                                                        *)
(***************************************************************************)
Operations == {"lit", "ref", "call", "bin", "set", "upd"}
StatementKinds == {"expr", "block", "if", "while", "do", "for", "switch", "try", "throw", "return", "break", "continue"}
CanThrow(n) == n.k \in {"call", "bin", "upd", "throw"}

Frame(f, n) == [f |-> f, n |-> n, at |-> 0, yes |-> <<>>, no |-> <<>>]
Do(n) == Frame("do", n)
Eval(n) == Frame("eval", n)
Test(n, yes, no) == [Frame("test", n) EXCEPT !.yes = yes, !.no = no]
Mark(what, n) == Frame(what, n)                             \* where a break, a continue, an exception ends up
At(f, n, i) == [Frame(f, n) EXCEPT !.at = i]
Doing(nodes) == FoldUp(LAMBDA fs, n : Append(fs, Do(n)), <<>>, nodes)
Evaluating(nodes) == FoldUp(LAMBDA fs, n : Append(fs, Eval(n)), <<>>, nodes)

Value(n) ==
  CASE n.k = "none" -> <<>>
    [] n.k \in Operations -> Evaluating(n.kids) \o <<Frame("op", n)>>
    [] n.k = "seq" -> Evaluating(n.kids)
    [] n.k = "and" -> <<Test(n.kids[1], <<Eval(n.kids[2])>>, <<>>)>>
    [] n.k = "or" -> <<Test(n.kids[1], <<>>, <<Eval(n.kids[2])>>)>>
    [] n.k = "cond" -> <<Test(n.kids[1], <<Eval(n.kids[2])>>, <<Eval(n.kids[3])>>)>>

Outcome(n, yes, no) ==
  CASE n.k = "none" -> yes
    [] n.k = "and" -> <<Test(n.kids[1], <<Test(n.kids[2], yes, no)>>, no)>>
    [] n.k = "or" -> <<Test(n.kids[1], yes, <<Test(n.kids[2], yes, no)>>)>>
    [] n.k = "cond" -> <<Test(n.kids[1], <<Test(n.kids[2], yes, no)>>, <<Test(n.kids[3], yes, no)>>)>>
    [] OTHER -> <<Eval(n), [Frame("flow", n) EXCEPT !.yes = yes, !.no = no]>>

Execute(n) ==
  CASE n.k = "expr" -> <<Eval(n.kids[1])>>
    [] n.k = "block" -> Doing(n.kids)
    [] n.k = "if" -> <<Test(n.kids[1], <<Do(n.kids[2])>>, Doing(SubSeq(n.kids, 3, Len(n.kids))))>>
    [] n.k \in {"while", "do"} -> <<Frame("again", n), Mark("break", n)>>
    [] n.k = "for" -> <<Eval(n.kids[1]), Frame("again", n), Mark("break", n)>>
    [] n.k = "switch" -> <<Eval(n.kids[1]), At("pick", n, 2), Mark("break", n)>>
    [] n.k = "try" -> <<Do(n.kids[1]), Mark("throw", n)>> \o (IF IsThere(n.kids[2]) THEN <<Mark("finally", n)>> ELSE <<>>)
    [] n.k \in {"throw", "return", "break", "continue"} -> Evaluating(n.kids) \o <<Frame("leave", n)>>
    [] n.k = "none" -> <<>>

\* once more round a loop
Round(n) ==
  CASE n.k = "while" -> <<Test(n.kids[1], <<Do(n.kids[2]), Mark("continue", n), Frame("again", n)>>, <<>>)>>
    [] n.k = "do" -> <<Do(n.kids[1]), Mark("continue", n), Test(n.kids[2], <<Frame("again", n)>>, <<>>)>>
    [] n.k = "for" ->
         <<Test(n.kids[2], <<Do(n.kids[4]), Mark("continue", n), Eval(n.kids[3]), Frame("again", n)>>, <<>>)>>

\* the statements of a switch from a case on
Bodies(n, i) ==
  FoldUp(LAMBDA fs, case : fs \o Doing(SubSeq(case.kids, 2, Len(case.kids))), <<>>, SubSeq(n.kids, i, Len(n.kids)))
Default(n) == {i \in 2..Len(n.kids) : ~IsThere(n.kids[i].kids[1])}

RECURSIVE Unwind(_, _)
Unwind(how, todo) ==
  IF todo = <<>> THEN <<>>
  ELSE LET top == Head(todo) rest == Tail(todo) IN
       CASE top.f = how /\ how # "throw" -> rest
         [] top.f = "throw" /\ how = "throw" -> <<At("catch", top.n, 3)>> \o rest
         [] top.f = "finally" -> <<Do(top.n.kids[2]), [Frame("resume", Nothing) EXCEPT !.n.x = how]>> \o rest
         [] OTHER -> Unwind(how, rest)

-----------------------------------------------------------------------------
Silent(todo) == [id |-> 0, k |-> "", how |-> "", todo |-> todo]
Seen(n, how, todo) == [id |-> n.id, k |-> n.k, how |-> how, todo |-> todo]

\* all that may happen next
Steps(todo) ==
  IF todo = <<>> THEN {}
  ELSE LET top == Head(todo) rest == Tail(todo) n == top.n IN
       CASE top.f = "do" -> {Silent(Execute(n) \o rest)}
         [] top.f = "eval" -> {Silent(Value(n) \o rest)}
         [] top.f = "test" -> {Silent(Outcome(n, top.yes, top.no) \o rest)}
         [] top.f = "again" -> {Silent(Round(n) \o rest)}
         [] top.f = "op" ->
              {Seen(n, "done", rest)} \cup (IF CanThrow(n) THEN {Seen(n, "throws", Unwind("throw", rest))} ELSE {})
         [] top.f = "flow" -> {Seen(n, "yes", top.yes \o rest), Seen(n, "no", top.no \o rest)}
         [] top.f = "leave" ->
              {IF n.k = "throw" THEN Seen(n, "throws", Unwind("throw", rest)) ELSE Silent(Unwind(n.k, rest))}
         [] top.f = "resume" -> {Silent(Unwind(n.x, rest))}
         [] top.f = "finally" -> {Silent(<<Do(n.kids[2])>> \o rest)}
         [] top.f \in {"break", "continue", "throw"} -> {Silent(rest)}
         [] top.f = "pick" ->                                \* look for the case that matches
              IF top.at > Len(n.kids)
              THEN IF Default(n) = {} THEN {Silent(rest)} ELSE {Silent(Bodies(n, i) \o rest) : i \in Default(n)}
              ELSE IF top.at \in Default(n) THEN {Silent(<<At("pick", n, top.at + 1)>> \o rest)}
              ELSE {Silent(<<Eval(n.kids[top.at].kids[1]), At("match", n, top.at)>> \o rest)}
         [] top.f = "match" ->
              {Seen(n.kids[top.at], "yes", Bodies(n, top.at) \o rest),
               Seen(n.kids[top.at], "no", <<At("pick", n, top.at + 1)>> \o rest)}
         [] top.f = "catch" ->                               \* and for the clause
              IF top.at > Len(n.kids) THEN {Silent(Unwind("throw", rest))}
              ELSE IF ~IsThere(n.kids[top.at].kids[1]) THEN {Silent(<<Do(n.kids[top.at].kids[2])>> \o rest)}
              ELSE {Silent(<<Eval(n.kids[top.at].kids[1]), At("caught", n, top.at)>> \o rest)}
         [] top.f = "caught" ->
              {Seen(n.kids[top.at], "yes", <<Do(n.kids[top.at].kids[2])>> \o rest),
               Seen(n.kids[top.at], "no", <<At("catch", n, top.at + 1)>> \o rest)}
=============================================================================
