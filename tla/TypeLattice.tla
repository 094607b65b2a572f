---------------------------- MODULE TypeLattice ----------------------------
(***************************************************************************)
(* The types of the type flow (src/type-flow/types.ts and its companions): *)
(* a set of tags and, for some of them, data that says more.               *)
(*                                                                         *)
(*   [tags |-> {"Null", "Array"}, data |-> [Array |-> ...]]                *)
(*                                                                         *)
(* is "null, or an array that ...".  A tag without data stands for all of  *)
(* its values.  The code keeps the data of a type with one tag in `value`, *)
(* of a type with several in a UnionData with a mask; here both are a      *)
(* function on the tags that have data, and `value == null` is data = <<>>.*)
(*                                                                         *)
(*   Number, Long, Float, Double  a literal, in halves: 2 stands for 1,    *)
(*                                1 for 0.5                                *)
(*   Char           the code, counted the same way                         *)
(*   String, Symbol the literal                                            *)
(*   Array          a set of alternatives: <<"tuple", types>> or           *)
(*                  <<"array", type>>                                      *)
(*   Dictionary     <<"generic", key type, value type>>, or                *)
(*                  <<"literal", f>> with a type for each of its keys      *)
(*   Method         [args |-> types, result |-> type]                      *)
(*   Module, Function, Class      a set of declarations                    *)
(*   Object         the type of its class, with tag Class                  *)
(*   Enum           [enums |-> declarations, value |-> type]               *)
(*                                                                         *)
(* Left out: typedefs, which only stand for other types unless they are    *)
(* recursive; the field types known of one object (ObjectType.obj); that a *)
(* Char has 16 bits.                                                       *)
(***************************************************************************)
EXTENDS Integers, FiniteSets, Sequences, FiniteSetsExt

CONSTANTS
    Supers,         \* the superclasses of each class (getSuperClasses)
    MaxWidenDepth,  \* how deep a widening union looks
    NumberMax,      \* Numbers are -NumberMax - 1 .. NumberMax
    FloatMax,       \* the integers up to here, and no other, fit a Float
    DoubleMax       \* and a Double

ASSUME LimitsAssumption ==
    /\ MaxWidenDepth \in Nat
    /\ {NumberMax, FloatMax, DoubleMax} \subseteq Nat

SingletonTags == {"Null", "False", "True"}
Boolean == {"False", "True"}
Numeric == {"Number", "Long", "Float", "Double"}
ValueTags == Numeric \cup {"Char", "String", "Symbol"}
UnionDataTags == {"Array", "Dictionary", "Method", "Module", "Function", "Class", "Object", "Enum"}
ObjectLikeTags == Boolean \cup ValueTags \cup {"Array", "Dictionary", "Method", "Enum"}
EnumTags == SingletonTags \cup (ValueTags \ {"Symbol"})

Type(tags, data) == [tags |-> tags, data |-> data]
NoData == [tag \in {} |-> tag]
Plain(tags) == Type(tags, NoData)
Never == Plain({})
Exact(tag, value) == Type({tag}, [x \in {tag} |-> value])
IsExact(t) == Cardinality(t.tags) = 1

\* getUnionComponent: the data of one tag, when there is any.
Has(t, tag) == tag \in DOMAIN t.data
Only(data, tags) == [tag \in DOMAIN data \cap tags |-> data[tag]]

\* The tags that may have data: those of UnionData, or a lone value tag.
DataTags(tags) ==
    IF tags \cap UnionDataTags # {} THEN tags \cap UnionDataTags
    ELSE IF Cardinality(tags \cap ValueTags) = 1 THEN tags \cap ValueTags ELSE {}

\* The literals that a test of `value`, rather than of `value == null`, misses.
Falsy(tag, value) ==
    \/ tag \in Numeric /\ value = 0
    \/ tag = "String" /\ value = ""

(***************************************************************************)
(* forEachUnionComponent: the tags of `bits` it calls back with.  When     *)
(* there are only value tags beside a UnionData tag of t, it calls back    *)
(* once, with no tag at all and no data.                                   *)
(***************************************************************************)
Components(t, bits) ==
    LET data == bits \ SingletonTags
    IN  IF data = {} THEN {}
        ELSE IF (t.tags \cup data) \cap UnionDataTags # {}
             THEN IF data \subseteq ValueTags THEN {"Never"} ELSE data \ ValueTags
             ELSE IF Cardinality(data) > 1 THEN {} ELSE data

\* Drops the data under `tags`, and adds those tags or takes them away.
ClearValuesUnder(t, tags, clearTag) ==
    LET newTags == IF clearTag THEN t.tags \ tags ELSE t.tags \cup tags
    IN  IF tags \subseteq SingletonTags \/ t.data = NoData
        THEN Type(newTags, t.data)
        ELSE Type(newTags, Only(t.data, UnionDataTags \ tags))

\* The type of a key of a literal dictionary; keys are <<tag, value>>.
TypeFromObjectLiteralKey(key) ==
    IF key[1] \in SingletonTags THEN Plain({key[1]}) ELSE Exact(key[1], key[2])

IsTuple(alternative) == alternative[1] = "tuple"
IsLiteral(dictionary) == dictionary[1] = "literal"

RECURSIVE UnionHelper(_, _, _), SubtypeOf(_, _), CouldBe(_, _), Intersection(_, _)

(***************************************************************************)
(* Subtypes.                                                               *)
(***************************************************************************)
AlternativeSubtypeOf(a, b) ==
    IF IsTuple(a)
    THEN IF IsTuple(b)
         THEN Len(a[2]) = Len(b[2]) /\ \A i \in DOMAIN b[2] : SubtypeOf(a[2][i], b[2][i])
         ELSE \A i \in DOMAIN a[2] : SubtypeOf(a[2][i], b[2])
    ELSE ~IsTuple(b) /\ SubtypeOf(a[2], b[2])

DictionarySubtypeOf(a, b) ==
    IF IsLiteral(a)
    THEN /\ IsLiteral(b)
         /\ \A key \in DOMAIN a[2] \cap DOMAIN b[2] : SubtypeOf(a[2][key], b[2][key])
    ELSE IF IsLiteral(b)
    THEN \A key \in DOMAIN b[2] :
            CouldBe(TypeFromObjectLiteralKey(key), a[2]) => SubtypeOf(a[3], b[2][key])
    ELSE SubtypeOf(a[2], b[2]) /\ SubtypeOf(a[3], b[3])

SubtypeOfValue(tag, a, b) ==
    CASE tag \in ValueTags -> a = b
      [] tag = "Array" -> \A x \in a : \E y \in b : AlternativeSubtypeOf(x, y)
      [] tag = "Dictionary" -> DictionarySubtypeOf(a, b)
      [] tag = "Method" -> /\ Len(a.args) = Len(b.args)
                           /\ SubtypeOf(a.result, b.result)
                           /\ \A i \in DOMAIN a.args : SubtypeOf(b.args[i], a.args[i])
      [] tag \in {"Module", "Function"} -> a \subseteq b
      [] tag = "Class" -> \A x \in a : ({x} \cup Supers[x]) \cap b # {}
      [] tag = "Object" -> SubtypeOf(a, b)
      [] tag = "Enum" -> SubtypeOf(a.value, b.value) /\ a.enums \subseteq b.enums

AnyObject(t) == "Object" \in t.tags /\ ~Has(t, "Object")

EnumValue(t) == IF Has(t, "Enum") THEN t.data["Enum"].value ELSE Plain(EnumTags)

SubtypeOf(a, b) ==
    IF "Enum" \in a.tags /\ "Enum" \notin b.tags /\ b.tags \cap EnumTags # {}
    THEN /\ SubtypeOf(EnumValue(a), b)
         /\ a.tags # {"Enum"} => SubtypeOf(ClearValuesUnder(a, {"Enum"}, TRUE), b)
    ELSE LET shared == a.tags \cap b.tags
             common == IF shared # a.tags /\ AnyObject(b)
                       THEN shared \cup (a.tags \cap ObjectLikeTags) ELSE shared
         IN  /\ common = a.tags
             /\ \A tag \in Components(b, common) :
                    Has(b, tag) => Has(a, tag) /\ SubtypeOfValue(tag, a.data[tag], b.data[tag])

(***************************************************************************)
(* Could a value of one type be a value of the other?                      *)
(***************************************************************************)
AlternativeCouldBe(a, b) ==
    IF IsTuple(a)
    THEN IF IsTuple(b)
         THEN Len(a[2]) = Len(b[2]) /\ \A i \in DOMAIN b[2] : CouldBe(a[2][i], b[2][i])
         ELSE \A i \in DOMAIN a[2] : CouldBe(a[2][i], b[2])
    ELSE IF IsTuple(b)
         THEN \A i \in DOMAIN b[2] : CouldBe(a[2], b[2][i])
         ELSE CouldBe(a[2], b[2])

\* Mutant of Related: looks at the superclasses of one of them only.
RelatedUp(x, y) == x = y \/ y \in Supers[x]

Related(x, y) == x = y \/ y \in Supers[x] \/ x \in Supers[y]

CouldBeValue(tag, a, b) ==
    CASE tag \in ValueTags -> a = b
      [] tag = "Array" -> \E x \in a, y \in b : AlternativeCouldBe(x, y)
      [] tag = "Dictionary" ->
            \/ IsLiteral(a) \/ IsLiteral(b)
            \/ CouldBe(a[2], b[2]) /\ CouldBe(a[3], b[3])
      [] tag = "Method" -> /\ Len(a.args) = Len(b.args)
                           /\ CouldBe(a.result, b.result)
                           /\ \A i \in DOMAIN a.args : CouldBe(a.args[i], b.args[i])
      [] tag \in {"Module", "Function"} -> a \cap b # {}
      [] tag = "Class" -> \E x \in a, y \in b : Related(x, y)
      [] tag = "Object" -> CouldBe(a, b)
      [] tag = "Enum" -> CouldBe(a.value, b.value) /\ a.enums \cap b.enums # {}

CouldBe(a, b) ==
    LET common == a.tags \cap b.tags
    IN  \/ /\ common # {}
           /\ \/ a.data = NoData \/ b.data = NoData \/ a.data = b.data
              \/ common \cap SingletonTags # {}
              \/ common \cap ValueTags # {} /\ common \cap UnionDataTags # {}
              \/ \E tag \in Components(a, common) :
                    Has(a, tag) /\ Has(b, tag) => CouldBeValue(tag, a.data[tag], b.data[tag])
        \/ "Enum" \in a.tags /\ b.tags \cap (EnumTags \cup {"Enum"}) # {}
        \/ "Enum" \in b.tags /\ a.tags \cap (EnumTags \cup {"Enum"}) # {}
        \/ AnyObject(a) /\ b.tags \cap ObjectLikeTags # {}
        \/ AnyObject(b) /\ a.tags \cap ObjectLikeTags # {}

(***************************************************************************)
(* Unions: the new type of `to` and whether it changed.  depth counts the  *)
(* levels of a widening union; NotWidening, the code's -Infinity, stays    *)
(* what it is.                                                             *)
(***************************************************************************)
NotWidening == -1
Deeper(depth) == IF depth = NotWidening THEN depth ELSE depth + 1

Result(type, changed) == [type |-> type, changed |-> changed]

\* What mergeSingle returns: no data, or some.
Dropped == [kept |-> FALSE, changed |-> TRUE]
Merged(value, changed) == [kept |-> TRUE, value |-> value, changed |-> changed]

\* The alternatives of b that no one of a is the same as.
NewAlternatives(a, b) ==
    LET alone(x) == Exact("Array", {x})
    IN  {y \in b : ~\E x \in a : /\ IsTuple(x) = IsTuple(y)
                                 /\ SubtypeOf(alone(x), alone(y))
                                 /\ SubtypeOf(alone(y), alone(x))}

MergeArrays(a, extra, depth) ==
    IF depth > MaxWidenDepth \/ (extra # {} /\ depth >= 0)
    THEN Dropped ELSE Merged(a \cup extra, extra # {})

MergeDictionaries(a, b, depth) ==
    LET Grow(to, from) == UnionHelper(to, from, Deeper(depth))
        literal == IF IsLiteral(a) THEN a[2] ELSE b[2]
        other == IF IsLiteral(a) THEN b ELSE a
        keys == IF IsLiteral(a) /\ IsLiteral(b) THEN DOMAIN a[2] \cap DOMAIN b[2]
                ELSE DOMAIN literal
        grown == [key \in keys |->
                    IF IsLiteral(other) THEN Grow(literal[key], other[2][key])
                    ELSE IF CouldBe(TypeFromObjectLiteralKey(key), other[2])
                         THEN Grow(literal[key], other[3])
                         ELSE Result(literal[key], FALSE)]
        key == Grow(a[2], b[2])
        value == Grow(a[3], b[3])
    IN  IF depth > MaxWidenDepth THEN Dropped
        ELSE IF IsLiteral(a) \/ IsLiteral(b)
        THEN Merged(<<"literal", [k \in keys |-> grown[k].type]>>,
                    keys # DOMAIN literal \/ \E k \in keys : grown[k].changed)
        ELSE Merged(<<"generic", key.type, value.type>>, key.changed \/ value.changed)

\* A method of the result of both, for the arguments both take.
MergeMethods(a, result, args) ==
    IF \E i \in DOMAIN args : args[i].tags = {} THEN Dropped
    ELSE IF result.changed \/ \E i \in DOMAIN args : ~SubtypeOf(a.args[i], args[i])
         THEN Merged([args |-> args, result |-> result.type], TRUE) ELSE Merged(a, FALSE)

MergeSingle(tag, a, b, depth) ==
    CASE tag \in ValueTags -> Dropped
      [] tag = "Array" -> MergeArrays(a, NewAlternatives(a, b), depth)
      [] tag = "Dictionary" -> MergeDictionaries(a, b, depth)
      [] tag = "Method" ->
            IF Len(a.args) # Len(b.args) THEN Dropped
            ELSE MergeMethods(a, UnionHelper(a.result, b.result, Deeper(depth)),
                              [i \in DOMAIN a.args |-> Intersection(a.args[i], b.args[i])])
      [] tag \in {"Module", "Function", "Class"} -> Merged(a \cup b, ~(b \subseteq a))
      [] tag = "Object" -> LET klass == UnionHelper(a, b, Deeper(depth))
                           IN  Merged(klass.type, klass.changed)
      [] tag = "Enum" ->
            LET value == UnionHelper(a.value, b.value, Deeper(depth))
            IN  Merged([enums |-> a.enums \cup b.enums, value |-> value.type],
                       value.changed \/ ~(b.enums \subseteq a.enums))

\* What becomes of the data of one tag.
MergeTag(to, from, tag, depth) ==
    IF Has(to, tag) /\ Has(from, tag)
    THEN IF to.data[tag] # from.data[tag] THEN MergeSingle(tag, to.data[tag], from.data[tag], depth)
         ELSE IF Falsy(tag, to.data[tag]) THEN [Dropped EXCEPT !.changed = FALSE]
         ELSE Merged(to.data[tag], FALSE)
    ELSE IF Has(to, tag)
    THEN IF tag \in from.tags THEN Dropped ELSE Merged(to.data[tag], FALSE)
    ELSE IF Has(from, tag) /\ tag \notin to.tags THEN Merged(from.data[tag], FALSE)
         ELSE [Dropped EXCEPT !.changed = FALSE]

\* The union of types that both have data; merged is that of each tag.
MergeMultiple(to, tags, merged) ==
    IF tags = to.tags /\ \A tag \in DOMAIN merged : ~merged[tag].changed THEN Result(to, FALSE)
    ELSE Result(Type(tags, [tag \in {x \in DOMAIN merged : merged[x].kept} |-> merged[tag].value]), TRUE)

(* The code compares `value`s by reference: equal data that was made twice *)
(* is merged as if it differed, which is data as equal, and no change,     *)
(* unless it is nested deeper than a widening union looks: there the code  *)
(* drops it.  Here equal data is the same.                                 *)
UnionHelper(to, from, depth) ==
    LET tags == to.tags \cup from.tags
    IN  IF from.tags = {} THEN Result(to, FALSE)
        ELSE IF to.tags = {} THEN Result(from, TRUE)
        ELSE IF from.tags \subseteq SingletonTags
        THEN Result(Type(tags, to.data), tags # to.tags)
        ELSE IF tags = to.tags /\ (to.data = from.data \/ to.data = NoData)
        THEN Result(to, FALSE)
        ELSE IF to.data # NoData /\ from.data # NoData
        THEN MergeMultiple(to, tags, [tag \in Components(to, tags) |-> MergeTag(to, from, tag, depth)])
        ELSE IF from.data = NoData
        THEN Result(ClearValuesUnder(to, from.tags, FALSE), TRUE)
        ELSE Result(ClearValuesUnder(from, to.tags, FALSE), TRUE)

UnionInto(to, from) == UnionHelper(to, from, NotWidening).type

(***************************************************************************)
(* Intersections.                                                          *)
(***************************************************************************)
IntersectAlternatives(x, y) ==
    LET elements(n, f(_)) == [i \in 1..n |-> f(i)]
        both == IF IsTuple(x) /\ IsTuple(y) /\ Len(x[2]) = Len(y[2])
                THEN {<<"tuple", elements(Len(x[2]), LAMBDA i : Intersection(x[2][i], y[2][i]))>>}
                ELSE IF IsTuple(x) /\ IsTuple(y) THEN {}
                ELSE IF IsTuple(x)
                THEN {<<"tuple", elements(Len(x[2]), LAMBDA i : Intersection(y[2], x[2][i]))>>}
                ELSE IF IsTuple(y)
                THEN {<<"tuple", elements(Len(y[2]), LAMBDA i : Intersection(x[2], y[2][i]))>>}
                ELSE {<<"array", Intersection(x[2], y[2])>>}
    IN  {z \in both : IF IsTuple(z) THEN \A i \in DOMAIN z[2] : z[2][i].tags # {}
                                    ELSE z[2].tags # {}}

\* A single enum of a stands for all of b's if it is one of them.
CommonEnums(a, b) ==
    IF Cardinality(a) # 1 THEN a \cap b ELSE IF a \subseteq b THEN b ELSE {}

\* The data both allow: no element when there is none, otherwise one.
IntersectionValue(tag, a, b) ==
    CASE tag \in ValueTags -> {a} \cap {b}
      [] tag = "Array" ->
            LET all == UNION {IntersectAlternatives(x, y) : x \in a, y \in b}
            IN  IF all = {} THEN {} ELSE {all}
      [] tag = "Dictionary" ->
            IF IsLiteral(a) /\ IsLiteral(b)
            THEN {<<"literal", [key \in DOMAIN a[2] \cup DOMAIN b[2] |->
                        IF key \notin DOMAIN b[2] THEN a[2][key]
                        ELSE IF key \notin DOMAIN a[2] THEN b[2][key]
                        ELSE Intersection(b[2][key], a[2][key])]>>}
            ELSE IF IsLiteral(a) THEN {b} ELSE IF IsLiteral(b) THEN {a}
            ELSE {d \in {<<"generic", Intersection(a[2], b[2]), Intersection(a[3], b[3])>>} :
                     d[2].tags # {} /\ d[3].tags # {}}
      [] tag = "Method" ->
            IF Len(a.args) # Len(b.args) THEN {}
            ELSE {m \in {[result |-> Intersection(a.result, b.result),
                          args |-> [i \in DOMAIN a.args |-> UnionInto(a.args[i], b.args[i])]]} :
                     m.result.tags # {} /\ \A i \in DOMAIN m.args : m.args[i].tags # {}}
      [] tag \in {"Module", "Function"} -> {a \cap b} \ {{}}
      [] tag = "Class" -> {{x \in a : \E y \in b : x = y \/ y \in Supers[x]}
                           \cup {y \in b : \E x \in a : x \in Supers[y]}} \ {{}}
      [] tag = "Object" -> {k \in {Intersection(a, b)} : Has(k, "Class")}
      [] tag = "Enum" ->
            {[enums |-> e, value |-> Intersection(a.value, b.value)] :
                e \in {CommonEnums(a.enums, b.enums)} \ {{}}}

\* An enum is a more specialized form of its values: what t leaves of e's.
IntersectEnum(t, e) ==
    LET values == Intersection(t, EnumValue(e))
        rest == Intersection(t, ClearValuesUnder(e, {"Enum"}, TRUE))
        enum == IF Has(e, "Enum")
                THEN Exact("Enum", [e.data["Enum"] EXCEPT !.value = values]) ELSE values
    IN  IF values.tags = {} THEN rest ELSE UnionInto(enum, rest)

\* The same of one tag, where it may be that neither has data.
IntersectTag(tag, a, b) ==
    IF Has(a, tag) /\ Has(b, tag) /\ a.data[tag] # b.data[tag]
    THEN IntersectionValue(tag, a.data[tag], b.data[tag])
    ELSE IF Has(a, tag) THEN {a.data[tag]}
    ELSE {v \in {b.data[x] : x \in DOMAIN b.data \cap {tag}} : ~Falsy(tag, v)}

\* The common tags, but for those whose data exclude each other.
IntersectTags(a, b, common, values) ==
    LET gone == {tag \in DOMAIN values : Has(a, tag) /\ Has(b, tag) /\ values[tag] = {}}
        kept == {tag \in DOMAIN values : values[tag] # {}}
    IN  Type(common \ gone, [tag \in kept |-> CHOOSE v \in values[tag] : TRUE])

\* The tags both have; any Object may be what the other one is.
CommonTags(a, b) ==
    (a.tags \cap b.tags)
    \cup (IF AnyObject(a) THEN b.tags \cap ObjectLikeTags ELSE {})
    \cup (IF AnyObject(b) THEN a.tags \cap ObjectLikeTags ELSE {})

IntersectCommon(a, b, common) ==
    IF common = {} THEN Never
    ELSE IF a.data = NoData /\ b.data = NoData THEN Plain(common)
    ELSE IF a.data = NoData THEN ClearValuesUnder(b, b.tags \ common, TRUE)
    ELSE IF b.data = NoData THEN ClearValuesUnder(a, a.tags \ common, TRUE)
    ELSE IntersectTags(a, b, common, [tag \in Components(a, common) |-> IntersectTag(tag, a, b)])

Intersection(a, b) ==
    LET enumOf(e, t) == "Enum" \in e.tags /\ "Enum" \notin t.tags /\ t.tags \cap EnumTags # {}
    IN  IF enumOf(a, b) THEN IntersectEnum(b, a)
        ELSE IF enumOf(b, a) THEN IntersectEnum(a, b)
        ELSE IntersectCommon(a, b, CommonTags(a, b))

(***************************************************************************)
(* Given that a = b: what that says about b.                               *)
(***************************************************************************)
NumberLike == Numeric \cup {"Char"}

IsInteger(x) == x % 2 = 0
Fits(tag, x) ==
    CASE tag \in {"Number", "Char"} -> x \in -2 * (NumberMax + 1) .. 2 * NumberMax
      [] tag = "Float" -> x \in -2 * FloatMax .. 2 * FloatMax
      [] tag = "Double" -> x \in -2 * DoubleMax .. 2 * DoubleMax

\* The tags whose values could equal the literal x of a tag, which the code
\* checks for some of them only.
CanEqual(tag, x) ==
    LET checked == [Number |-> {"Float"}, Long |-> {"Number", "Char", "Float", "Double"},
                    Float |-> {"Number", "Char"}, Double |-> {"Number", "Char"}, Char |-> {}]
    IN  {t \in NumberLike : /\ t \in checked[tag] => Fits(t, x)
                            /\ IsInteger(x) \/ t \in {"Float", "Double"}}

RECURSIVE RestrictByEquality(_, _)

RestrictNumber(a, b) ==
    LET tag == CHOOSE x \in a.tags : TRUE
        known == Has(a, tag)
        possible == IF AnyObject(b) THEN NumberLike ELSE b.tags \cap NumberLike
        valueTags == IF known THEN possible \cap CanEqual(tag, a.data[tag]) ELSE possible
        logical == {x \in Boolean : known => a.data[tag] = IF x = "True" THEN 2 ELSE 0}
        extra == IF tag \notin {"Number", "Char"} THEN {}
                 ELSE IF AnyObject(b) THEN logical ELSE logical \cap b.tags
        literal == Type(valueTags \cup extra, [x \in valueTags |-> a.data[tag]])
        tested == b.data # NoData /\ ~\E x \in DOMAIN b.data : Falsy(x, b.data[x])
        v == IF Cardinality(valueTags) # 1 THEN Plain(valueTags \cup extra)
             ELSE IF known THEN IF tested /\ ~CouldBe(literal, b) THEN Never ELSE literal
             ELSE IF b.data # NoData THEN Intersection(b, Plain(valueTags \cup extra))
             ELSE Plain(valueTags \cup extra)
        ofEnum == IF "Enum" \in b.tags THEN RestrictByEquality(a, EnumValue(b)) ELSE Never
    IN  \* fixupEnum
        IF ofEnum.tags = {} THEN v
        ELSE UnionInto(v, IF Has(b, "Enum")
                          THEN Exact("Enum", [b.data["Enum"] EXCEPT !.value = ofEnum])
                          ELSE ofEnum)

RestrictExactTypesByEquality(a, b) ==
    CASE a.tags = {"Null"} -> Plain({"Null"} \cap b.tags)
      [] a.tags \subseteq Boolean ->
            Intersection(b, Type(a.tags \cup {"Number"},
                                 [x \in {"Number"} |-> IF a.tags = {"True"} THEN 2 ELSE 0]))
      [] a.tags \subseteq NumberLike -> RestrictNumber(a, b)
      [] a.tags = {"Enum"} -> RestrictByEquality(EnumValue(a), b)
      [] OTHER -> Intersection(a, b)

RestrictByEquality(a, b) ==
    LET exact == IsExact(a)
        known(tag) == {x \in {tag} : Has(a, x) /\ (exact \/ ~Falsy(x, a.data[x]))}
        part(tag) == RestrictExactTypesByEquality(Type({tag}, Only(a.data, known(tag))), b)
    IN  IF ~exact /\ a.data = NoData /\ b.tags \subseteq a.tags /\ a.tags # {} THEN b
        ELSE FoldSet(LAMBDA t, all : UnionInto(all, t), Never, {part(tag) : tag \in a.tags})
=============================================================================
