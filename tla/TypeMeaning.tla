---------------------------- MODULE TypeMeaning ----------------------------
(***************************************************************************)
(* What a type of TypeLattice says: the values it stands for, and when two *)
(* values are equal.  This is the reference the operators on types are     *)
(* checked against; nothing in it is computed by the code.                 *)
(*                                                                         *)
(* A value is <<"Null">>, <<"True">>, <<"Number", 2>>, <<"Array", seq>>,   *)
(* <<"Dictionary", f>> with a function on its keys, <<"Object", class>>,   *)
(* <<"Class", class>>, <<"Method", f>> with a function on the arguments it *)
(* takes, or <<tag, name>>.  The members of an enum are values of other    *)
(* tags.                                                                   *)
(***************************************************************************)
EXTENDS TypeLattice

CONSTANT Arguments \* the values a method may be called with

InClasses(class, classes) == ({class} \cup Supers[class]) \cap classes # {}

RECURSIVE Holds(_, _)

\* Is v, a value of the tag, one the data of a type describes?
HoldsData(v, tag, data) ==
    CASE tag \in ValueTags -> v[2] = data
      [] tag = "Array" ->
            \E x \in data :
                IF IsTuple(x)
                THEN Len(v[2]) = Len(x[2]) /\ \A i \in DOMAIN v[2] : Holds(v[2][i], x[2][i])
                ELSE \A i \in DOMAIN v[2] : Holds(v[2][i], x[2])
      [] tag = "Dictionary" ->
            \A key \in DOMAIN v[2] :
                IF IsLiteral(data)
                THEN key \in DOMAIN data[2] => Holds(v[2][key], data[2][key])
                ELSE Holds(key, data[2]) /\ Holds(v[2][key], data[3])
      [] tag = "Method" ->
            \A arg \in Arguments :
                Holds(arg, data.args[1]) => /\ arg \in DOMAIN v[2]
                                            /\ Holds(v[2][arg], data.result)
      [] tag \in {"Module", "Function"} -> v[2] \in data
      [] tag = "Class" -> InClasses(v[2], data)
      [] tag = "Object" -> Has(data, "Class") => InClasses(v[2], data.data["Class"])

\* Is v a value of the type t?
Holds(v, t) ==
    \/ v[1] \in t.tags /\ (Has(t, v[1]) => HoldsData(v, v[1], t.data[v[1]]))
    \/ AnyObject(t) /\ v[1] \in ObjectLikeTags
    \/ "Enum" \in t.tags /\ v[1] \in EnumTags \ {"Null"} /\ Holds(v, EnumValue(t))

(***************************************************************************)
(* The == of the language, as the comments of equalsCheck and of           *)
(* restrictByEquality have it: numbers of any kind, and characters, by     *)
(* what they amount to; 1 and 0 are true and false; anything else only     *)
(* when it is the same.                                                    *)
(***************************************************************************)
Amount(v) == CASE v = <<"False">> -> 0
               [] v = <<"True">> -> 2
               [] OTHER -> v[2]

Equals(v, w) ==
    \/ v = w
    \/ v[1] \in NumberLike /\ w[1] \in NumberLike /\ v[2] = w[2]
    \/ v[1] = "Number" /\ w[1] \in Boolean /\ v[2] = Amount(w)
    \/ w[1] = "Number" /\ v[1] \in Boolean /\ w[2] = Amount(v)

\* What an `if` takes for false.
IsFalsy(v) == v \in {<<"Null">>, <<"False">>, <<"Number", 0>>, <<"Long", 0>>}
=============================================================================
