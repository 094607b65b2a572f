--------------------------- MODULE MinimizeLocals ---------------------------
(***************************************************************************)
(* minimizeLocals (src/type-flow/minimize-locals.ts): once the conflicts   *)
(* of the locals are known, they are colored, those with few conflicts     *)
(* first, each with the lowest color no local it conflicts with has.       *)
(* Locals of a color become one variable.                                  *)
(***************************************************************************)
EXTENDS DeadStore

VARIABLE colors

mvars == <<avars, colors>>

conflictsWith(x) == {y \in Decls : <<x, y>> \in localConflicts}

\* Any order of the locals that goes by the number of their conflicts, those
\* with globals counted.  (The order of those with as many depends on the order
\* of their stores.)  A global has no color.
Order == {s \in SetToSeqs(Locals) :
            \A i, j \in DOMAIN s :
                i < j => Cardinality(conflictsWith(s[i])) <= Cardinality(conflictsWith(s[j]))}

Lowest(inUse) == CHOOSE c \in 0 .. Cardinality(inUse) :
                    c \notin inUse /\ \A d \in 0 .. c - 1 : d \in inUse

InUse(given, x) == {given[y] : y \in DOMAIN given \cap conflictsWith(x)}

Color(given, x) == Put(given, x, Lowest(InUse(given, x)))

\* The colors given to the locals up to the k-th.
Colored(order) ==
    LET given[k \in 0 .. Len(order)] ==
            IF k = 0 THEN <<>> ELSE Color(given[k - 1], order[k])
    IN  given

MinimizeInit == Init /\ colors = <<>>

Minimize ==
    /\ Analyzed /\ colors = <<>>
    /\ \E order \in Order : colors' = Colored(order)[Len(order)]
    /\ UNCHANGED avars

MinimizeNext == \/ Visit /\ UNCHANGED colors
                \/ Minimize
=============================================================================
