---------------------------- MODULE StrictFolds ----------------------------
(***************************************************************************)
(* FoldLeft and FoldRight of the library, except that what is done so far  *)
(* is computed before the next step is begun: TLC would nest the steps of  *)
(* a long sequence too deeply.                                             *)
(***************************************************************************)
EXTENDS Integers, Sequences, SequencesExt, FiniteSets

FoldUp(op(_, _), base, s) ==
  LET done[i \in 0..Len(s)] == IF i = 0 THEN base ELSE CHOOSE r \in {op(acc, s[i]) : acc \in {done[i - 1]}} : TRUE
  IN  done[Len(s)]
FoldDown(op(_, _), s, base) ==
  LET done[i \in 1..(Len(s) + 1)] ==
        IF i > Len(s) THEN base ELSE CHOOSE r \in {op(s[i], acc) : acc \in {done[i + 1]}} : TRUE
  IN  done[1]

\* a set in some order, found without looking at all orders
Listed(S) == FoldSet(LAMBDA x, list : Append(list, x), <<>>, S)
=============================================================================
