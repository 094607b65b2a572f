---------------------------- MODULE MCDeadStore -----------------------------
(* Control flow graphs for TLC: the shapes buildReducedGraph makes of the  *)
(* statements of the language, with any events of a menu in their blocks.  *)
EXTENDS OptimizedRun

CONSTANTS x, y, g

Ev(type, v, form, throws) ==
    [type |-> type, decl |-> v, form |-> form, rhs |-> None, copies |-> {}, mayThrow |-> throws]
R(v) == <<Ev("ref", v, "", FALSE)>>
S(v) == <<Ev("def", v, "assign", FALSE)>>
U(v) == <<Ev("def", v, "update", FALSE)>>
C(v) == R(v) \o <<Ev("def", v, "compound", FALSE)>>
Copy(v, w, same) ==
    R(w) \o <<[Ev("def", v, "assign", FALSE) EXCEPT !.rhs = w, !.copies = {w} \cup same]>>
Kill(v) == <<Ev("kil", v, "", FALSE)>>
Call == <<Ev("mod", None, "", FALSE)>>
\* In a try, a call may throw, and so may `x++` and what computes the value of
\* a store.
TryCall == <<Ev("mod", None, "", TRUE)>>
TryStore(v) == <<Ev("exn", None, "", TRUE), Ev("def", v, "assign", FALSE)>>
TryUpdate(v) == <<Ev("def", v, "update", TRUE)>>

Graph(n, succs, exsucc, bogo, events) ==
    [entry |-> n, succs |-> succs, exsucc |-> exsucc, bogo |-> bogo, events |-> events,
     candidates |-> TRUE]
Plain(graphs) == {[f EXCEPT !.candidates = FALSE] : f \in graphs}
Nowhere(n) == [b \in 1 .. n |-> None]

\* a; if (..) { b } else { c } d
IfElse(a, b, c, d) ==
    Graph(4, <<{}, {1}, {1}, {2, 3}>>, Nowhere(4), Nowhere(4), <<d, b, c, a>>)
\* a; while (b) { c } d
While(a, b, c, d) ==
    Graph(4, <<{3}, {}, {1, 2}, {3}>>, Nowhere(4), Nowhere(4), <<c, d, b, a>>)
\* a; try { b } catch (e) { c } d.  (The edge from 4 to 2 is the one
\* control-flow.ts:284 says should not exist.)
Try(a, b, c, d) ==
    Graph(4, <<{}, {1}, {1}, {2, 3}>>, <<None, None, 2, None>>, Nowhere(4), <<d, c, b, a>>)
\* a; switch (b) { case ..: c; break; default: d } f(x);  (What follows is
\* bogusly a successor of the tests.)
Switch(a, b, c, d) ==
    Graph(4, <<{}, {1}, {1}, {2, 3}>>, Nowhere(4), <<4, None, None, None>>, <<R(x), c, d, a \o b>>)
\* a; do { b; if (..) { d; break; } c } while (..); e
DoBreak(a, b, c, d, e) ==
    Graph(5, <<{}, {1}, {1, 4}, {2, 3}, {4}>>, Nowhere(5), Nowhere(5), <<e, d, c, b, a>>)
Menu == {<<>>, R(x), S(x), U(x), C(x), R(x) \o S(x), S(g), R(g), Call}
TryMenu == {<<>>, R(x), TryStore(x), TryStore(x) \o TryStore(x), TryStore(x) \o TryCall, TryStore(g), TryCall,
            TryUpdate(x), TryStore(x) \o TryUpdate(x)}
Small == {R(x), S(x), C(x), S(x) \o R(x)}

MCStores ==
    {IfElse(a, b, c, d) : a \in Menu, b \in Menu, c \in {<<>>, R(x), S(x)}, d \in Menu}
    \cup {While(a, b, c, d) : a \in Menu, b \in {<<>>, R(x), U(x), S(x)}, c \in Menu, d \in Menu}
    \cup {Try(a, b, c, d) : a \in Menu, b \in TryMenu, c \in Menu, d \in {<<>>, R(x), R(g)}}
    \cup {Switch(a, b, c, d) : a \in Menu, b \in {<<>>, R(x), S(g)}, c \in Menu, d \in {<<>>, S(x), Call}}
    \cup {DoBreak(S(x), b, c, d, R(x)) : b \in Small, c \in Small, d \in Small}

\* Two parameters or a parameter and a local, with copies in both directions;
\* in a loop, a local of the scope of its body.
Copies == {<<>>, R(x), R(y), S(x), S(y), Copy(x, y, {}), Copy(y, x, {}), U(y)}
Equivalent == {<<>>, R(x), R(y), S(g), Copy(x, g, {y})}
Scoped == {<<>>, R(x), R(y), S(x), Copy(x, y, {}), Copy(y, x, {}), C(y)}
MCMerge == Plain(
    {IfElse(S(y) \o a, b, c, d) : a \in Copies, b \in Copies, c \in Copies, d \in Copies}
    \cup {While(a, b, S(y) \o c \o d \o Kill(y), R(x)) :
            a \in {<<>>, S(x)}, b \in {<<>>, R(x)}, c \in Scoped, d \in Scoped}
    \cup {DoBreak(S(y), b, c, d, R(x)) : b \in Copies, c \in Copies, d \in Copies}
    \cup {IfElse(Copy(y, g, {}) \o a, b, c, d) :
            a \in Equivalent, b \in Equivalent, c \in Equivalent, d \in Equivalent \cup {R(x) \o R(y)}})

MCAll == MCStores \cup MCMerge

\* do { f(x); x = h(); if (..) { f(x); break; } f(x); x = h(); } while (..); f(x);
MCLoops == {DoBreak(S(x), R(x) \o S(x), R(x) \o S(x), R(x), R(x))}

ASSUME ProperFunctions ==
    \A f \in MCAll \cup MCLoops :
        EveryBlockEnds(f) /\ EveryBlockReturns(f) /\ SetBeforeRead(f)
=============================================================================
