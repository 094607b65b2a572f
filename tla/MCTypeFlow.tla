----------------------------- MODULE MCTypeFlow -----------------------------
(***************************************************************************)
(* Small programs for TypeFlow.                                            *)
(***************************************************************************)
EXTENDS TypeFlow, TLC

Key == <<"Symbol", "k">>
Number(x) == Exact("Number", x)
Object(c) == Exact("Object", Exact("Class", {c}))
Enum(value) == Exact("Enum", [enums |-> {"e"}, value |-> value])
Array(t) == Exact("Array", {<<"array", t>>})
Tuple(t) == Exact("Array", {<<"tuple", <<t>>>>})
Literal(t) == Exact("Dictionary", <<"literal", [k \in {Key} |-> t]>>)
Generic(t) == Exact("Dictionary", <<"generic", Plain({"Symbol"}), t>>)
Method(arg, result) == Exact("Method", [args |-> <<arg>>, result |-> result])
OrNull(t) == UnionInto(t, Plain({"Null"}))

(* B extends A, and C is on its own. *)
MCSupers == [c \in {"A", "B", "C"} |-> IF c = "B" THEN {"A"} ELSE {}]

Simple == {Plain({"Null"}), Plain({"True"}), Plain(Boolean), Plain({"Number"}), Number(0), Number(2), Number(12),
           Exact("Long", 2), Exact("Long", 24), Plain({"Float"}), Exact("Float", 2), Exact("Float", 1), Exact("Char", 2),
           Exact("String", "s"), Enum(Number(2))}
Structured == {Object("A"), Object("B"), Object("C"), Array(Plain({"Number"})), Array(Plain({"String"})),
               Tuple(Number(2)), Plain({"Array"}), Literal(Plain({"Number"})), Literal(Plain({"String"})),
               Plain({"Dictionary"}), Exact("Class", {"A"}),
               Method(Plain({"Char"}), Plain({"Char"})), Method(OrNull(Plain({"Char"})), Plain({"Char"})),
               Method(Plain({"Char"}), OrNull(Plain({"Char"})))}
Types == Simple \cup Structured

(* Classes and types of the language, as tests of instanceof have them. *)
Tested == {Plain({"Number"}), Plain({"String"}), Plain({"Array"}), Plain(Boolean), Plain({"Object"}),
           Object("A"), Object("B")}

Let(v, t) == [kind |-> "let", var |-> v, type |-> t]
Copy(v, from) == [kind |-> "copy", var |-> v, from |-> from]
Test(kind, v, t) == [kind |-> kind, left |-> v, isVar |-> FALSE, right |-> t]
TestVar(kind, v, w) == [kind |-> kind, left |-> v, isVar |-> TRUE, right |-> w]
Truthy(v) == [kind |-> "truthy", left |-> v]
NoTest == [none |-> TRUE]

Block(stmts, succs) == [stmts |-> stmts, test |-> NoTest, succs |-> succs]
Branch(test, succs) == [stmts |-> <<>>, test |-> test, succs |-> succs]

(* start; while (test) { body } *)
While(start, test, body) ==
    <<Block(start, <<2>>), Branch(test, <<3, 4>>), Block(body, <<2>>), Block(<<>>, <<>>)>>

(* x is of one type, and of another one the next time round. *)
Tests == {Test("equal", "x", t) : t \in {Plain({"Null"}), Plain(Boolean), Number(0), Exact("Float", 1),
                                          Exact("Char", 2), Enum(Number(2)), Tuple(Number(2))}}
         \cup {Test("unequal", "x", t) : t \in {Plain({"True"}), Number(2)}} \cup {Truthy("x")}
         \cup {Test("instanceof", "x", t) : t \in Tested}
Loops == {[vars |-> <<"x">>, types |-> [v \in {"x"} |-> Plain({"Null"})],
           blocks |-> While(<<Let("x", a)>>, test, <<Let("x", b)>>)] :
          a \in Types, b \in Types, test \in Tests}

Few == {Plain({"Null"}), Plain(Boolean), Plain({"Number"}), Number(2), Exact("Float", 1), Exact("Char", 2)}

(* Two parameters, each of one type or another, are compared. *)
Unions(types) == {UnionInto(a, b) : a \in types, b \in types}
Comparisons ==
    {[vars |-> <<"x", "y">>, types |-> [v \in {"x", "y"} |-> IF v = "x" THEN a ELSE b],
      blocks |-> <<Branch(TestVar("equal", "x", "y"), <<2, 3>>), Block(<<>>, <<>>), Block(<<>>, <<>>)>>] :
     a \in Unions(Simple), b \in Simple \cup Unions(Few)}
    \cup
    {[vars |-> <<"x", "y">>, types |-> [v \in {"x", "y"} |-> IF v = "x" THEN a ELSE b],
      blocks |-> <<Branch(TestVar("equal", "x", "y"), <<2, 3>>), Block(<<>>, <<>>), Block(<<>>, <<>>)>>] :
     a \in Structured, b \in Unions(Structured)}

(* Optional parameters are copied before a test, in each of its branches,  *)
(* and tested again where these meet.                                      *)
Optional == Plain({"Null", "True"})
Parameters == <<"x", "y", "z">>
Copies == {<<Copy(v, w)>> : v \in Range(Parameters), w \in Range(Parameters)}
Branches ==
    {[vars |-> Parameters, types |-> [v \in Range(Parameters) |-> Optional],
      blocks |-> <<Block(a, <<2>>), Branch(Truthy("x"), <<3, 4>>), Block(b, <<5>>), Block(c, <<5>>),
                   Branch(Truthy(u), <<6, 7>>), Block(<<>>, <<>>), Block(<<>>, <<>>)>>] :
     a \in Copies, b \in Copies, c \in {<<>>, <<Let("x", Plain({"True"}))>>, <<Copy("x", "z")>>},
     u \in Range(Parameters)}

(* Two parameters are copied in a loop. *)
Moves == {<<>>, <<Copy("x", "y")>>, <<Copy("y", "x")>>, <<Let("x", Optional)>>, <<Let("y", Plain({"Null"}))>>}
CopyLoops ==
    {[vars |-> <<"x", "y">>, types |-> [v \in {"x", "y"} |-> Optional],
      blocks |-> <<Block(a, <<2>>), Branch(test, <<3, 4>>), Block(b, <<5>>), Block(c, <<5>>),
                   Block(<<>>, <<2, 6>>), Block(<<>>, <<>>)>>] :
     a \in Moves, b \in Moves, c \in Moves,
     test \in {Truthy("x"), Truthy("y"), TestVar("equal", "x", "y"), Test("unequal", "x", Plain({"Null"}))}}

(* x is put into something new, time and again; no dictionary has keys     *)
(* that are known in one place, and keys that are not in another.          *)
Wrap(kind) == CASE kind = "array" -> [kind |-> kind, var |-> "x", from |-> "x"]
                [] kind = "literal" -> [kind |-> kind, var |-> "x", from |-> "x", key |-> Key]
                [] kind = "generic" -> [kind |-> kind, var |-> "x", from |-> "x", type |-> Plain({"Symbol"})]
Nests == {[vars |-> <<"x">>, types |-> [v \in {"x"} |-> t],
           blocks |-> <<Block(<<>>, <<2>>), Branch(test, <<3, 4>>), Block(<<Wrap(kinds[1])>>, <<2, 5>>),
                        Block(<<Wrap(kinds[2])>>, <<2>>), Block(<<>>, <<>>)>>] :
          t \in {Plain({"Null"}), Number(2), Array(Plain({"Number"}))},
          test \in {Truthy("x"), Test("instanceof", "x", Plain({"Array"}))},
          kinds \in ({"array", "literal"} \X {"array", "literal"}) \cup ({"array", "generic"} \X {"array", "generic"})}

MCPrograms == Loops \cup Comparisons \cup Branches \cup CopyLoops \cup Nests

MCArguments == {<<"Null">>, <<"Char", 2>>}

(* An empty array is of every array type, which the code takes for        *)
(* disjoint ones: none is among the values.                                *)
MCValues ==
    {<<"Null">>, <<"True">>, <<"False">>, <<"Number", 0>>, <<"Number", 2>>, <<"Number", 4>>, <<"Number", 12>>,
     <<"Long", 2>>, <<"Long", 12>>, <<"Long", 24>>, <<"Double", 12>>,
     <<"Float", 2>>, <<"Float", 1>>, <<"Char", 2>>, <<"String", "s">>, <<"String", "">>,
     <<"Object", "A">>, <<"Object", "B">>, <<"Object", "C">>,
     <<"Array", <<<<"Number", 2>>>>>>, <<"Array", <<<<"Number", 4>>>>>>, <<"Array", <<<<"String", "s">>>>>>,
     <<"Dictionary", [k \in {Key} |-> <<"Number", 2>>]>>, <<"Dictionary", [k \in {Key} |-> <<"String", "s">>]>>,
     <<"Symbol", "k">>, <<"Class", "A">>, <<"Class", "B">>, <<"Class", "C">>}
    \cup {<<"Method", f>> : f \in UNION {[args -> MCArguments] : args \in SUBSET MCArguments}}
=============================================================================
