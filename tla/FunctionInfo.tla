---------------------------- MODULE FunctionInfo ----------------------------
(***************************************************************************)
(* What the optimizer knows of what functions modify.  While a function is *)
(* optimized its assignments and calls are recorded; whoever asks later    *)
(* gets the answer for the function and all it may call (`resolved`, kept  *)
(* for the next one who asks).                                             *)
(***************************************************************************)
EXTENDS DataFlow

CONSTANTS EffectsOf,        \* the functions of the program: what each does to the rest, as a sequence of effects
          ApiFunctions,     \* those of the system, and of them
          Invokers,         \* those that call what they are given
          Exposed           \* names the system may call, or that are used as symbols

NewInfo == [names |-> {}, decls |-> {}, unknown |-> FALSE, calls |-> {}, exposed |-> FALSE, resolved |-> <<>>]
Pure == [NewInfo EXCEPT !.resolved = <<{}>>]        \* `false`: nothing at all was recorded

(***************************************************************************)
(* An effect is an assignment to what was found to be one of `found`       *)
(* (nothing may be found), a call of one of `found`, or a `new` that calls *)
(* one of `found`; `name` is what it is called in the code, AnyCall for an *)
(* element of an array or a class that is not known.                       *)
(***************************************************************************)
Assigns(found, name) == [k |-> "assign", found |-> found, name |-> name]
Calls(found, name) == [k |-> "call", found |-> found, name |-> name]
Creates(found, name) == [k |-> "new", found |-> found, name |-> name]

FunctionsOf(name) == IF name \in DOMAIN Named THEN Range(Named[name]) ELSE {}
Record(info, e) ==
  CASE e.k = "assign" ->
         IF e.found # {} THEN [info EXCEPT !.decls = @ \cup (e.found \cap Vars)]
         ELSE IF e.name # AnyCall THEN [info EXCEPT !.names = @ \cup {e.name}]
         ELSE [info EXCEPT !.unknown = TRUE]
    [] e.k = "call" ->
         IF e.found # {} THEN [info EXCEPT !.calls = @ \cup e.found]
         ELSE IF e.name # AnyCall THEN [info EXCEPT !.calls = @ \cup FunctionsOf(e.name)]
         ELSE [info EXCEPT !.unknown = TRUE]
    [] e.k = "new" ->
         IF e.name # AnyCall THEN [info EXCEPT !.calls = @ \cup e.found] ELSE [info EXCEPT !.unknown = TRUE]
Recorded(effects) ==
  LET info == FoldUp(Record, NewInfo, effects) IN IF info = NewInfo THEN Pure ELSE info
ApiInfo(f) == IF f \in Invokers THEN [NewInfo EXCEPT !.exposed = TRUE] ELSE Pure
Infos == [f \in DOMAIN EffectsOf \cup ApiFunctions |-> IF f \in ApiFunctions THEN ApiInfo(f) ELSE Recorded(EffectsOf[f])]

-----------------------------------------------------------------------------
AllExposed == UNION {FunctionsOf(name) : name \in Exposed}
RECURSIVE ResolveDecls(_, _, _)
\* s: what is resolved so far of what `asked` modifies, or that it cannot be
ResolveDecls(infos, s, f) ==
  IF ~s.ok \/ f \in s.visited THEN s
  ELSE IF f \notin DOMAIN infos THEN [s EXCEPT !.ok = FALSE]
  ELSE IF infos[f] = Pure THEN s
  ELSE IF infos[f].unknown THEN [s EXCEPT !.ok = FALSE, !.unknown = TRUE]
  ELSE FoldUp(LAMBDA t, g : ResolveDecls(infos, t, g),
              [s EXCEPT !.visited = @ \cup {f}, !.resolved = @ \cup infos[f].decls, !.names = @ \cup infos[f].names],
              Listed((IF infos[f].exposed THEN AllExposed ELSE {}) \cup infos[f].calls))

\* mutant: what the function does itself
FunctionMayModifyItself(infos, f, x) ==
  [yes |-> f \notin DOMAIN infos \/ infos[f].unknown \/ x \in infos[f].names \cup infos[f].decls, infos |-> infos]
\* the answer, and what is known from then on; of AnyCall, and of a function that was not looked at, nothing is
FunctionMayModify(infos, f, x) ==
  LET Answer(yes, info) == [yes |-> yes, infos |-> [infos EXCEPT ![f] = info]] IN
  IF f \notin DOMAIN infos THEN [yes |-> TRUE, infos |-> infos]
  ELSE LET info == infos[f] IN
       IF info = Pure THEN Answer(FALSE, info)
       ELSE IF info.unknown THEN Answer(TRUE, info)
       ELSE IF info.resolved # <<>> THEN Answer(x \in info.resolved[1], info)
       ELSE IF x \in info.names \cup info.decls THEN Answer(TRUE, info)
       ELSE LET all == ResolveDecls(infos, [ok |-> TRUE, unknown |-> FALSE, visited |-> {}, resolved |-> {}, names |-> {}], f)
                known == [info EXCEPT !.names = @ \cup all.names]
            IN  IF all.ok THEN Answer(x \in all.resolved, [known EXCEPT !.resolved = <<all.resolved>>])
                ELSE Answer(TRUE, [known EXCEPT !.unknown = TRUE])

RECURSIVE AnyMayModify(_, _, _)
\* some of the callees, the rest of which are not asked any more
AnyMayModify(infos, callees, x) ==
  IF callees = <<>> THEN [yes |-> FALSE, infos |-> infos]
  ELSE LET first == FunctionMayModify(infos, Head(callees), x)
       IN  IF first.yes THEN first ELSE AnyMayModify(first.infos, Tail(callees), x)

HasNoEffect(callees) == \A i \in DOMAIN callees : callees[i] \in DOMAIN Infos /\ Infos[callees[i]] = Pure
=============================================================================
