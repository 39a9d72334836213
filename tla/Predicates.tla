------------------------------ MODULE Predicates ------------------------------
(* Predicates on records: a tree of conditions evaluated in memory with three *)
(* truth values (packages/core/src/domain/evaluatePredicate.ts), simplified   *)
(* (predicateSimplifier.ts), checked against the fields' types (predicate.ts) *)
(* and compiled to SQL (packages/adapters/src/drizzle-shared/                 *)
(* predicateCompiler.ts), which a database evaluates with three values too.   *)
(*                                                                            *)
(* A value has its type and its parts: a string its letters, an array its     *)
(* elements (strings of one letter), anything else one number.  Trees are     *)
(* recursive, so this module is for TLC's runs alone.                         *)
EXTENDS Integers, Sequences, SequencesExt

Null == [t |-> "null", v |-> <<>>]
Truths == {"true", "false", "unknown"}
Truly(b) == IF b THEN "true" ELSE "false"

Literal(b) == [kind |-> "literal", value |-> b]
Condition(field, op, value) == [kind |-> "condition", field |-> field, op |-> op, value |-> value]
And(filters) == [kind |-> "and", filters |-> filters]
Or(filters) == [kind |-> "or", filters |-> filters]
Not(filter) == [kind |-> "not", filter |-> filter]
AlwaysTrue == And(<<>>)
AlwaysFalse == Or(<<>>)

\* The operand of a condition: nothing, a value, the values of `in' and its
\* like, or the bounds of a range, where a missing one is Absent.
Absent == [t |-> "undefined", v |-> <<>>]
Operand(shape, from, to, list) == [shape |-> shape, from |-> from, to |-> to, list |-> list]
Nothing == Operand("nothing", Absent, Absent, <<>>)
Scalar(v) == Operand("scalar", v, v, <<>>)
Listed(vs) == Operand("list", Absent, Absent, vs)
Between(from, to) == Operand("range", from, to, <<>>)

TextOps == {"contains", "startsWith", "endsWith"}
OrderOps == {"gt", "lt", "gte", "lte"}
ArrayOps == {"includesAny", "includesAll"}

\* A text has another in it, at its beginning or at its end.
TextHolds(op, text, part) ==
    LET last == Len(text) - Len(part)
    IN  \E i \in 0..last :
            /\ SubSeq(text, i + 1, i + Len(part)) = part
            /\ op = "startsWith" => i = 0
            /\ op = "endsWith" => i = last

OrderHolds(op, a, b) ==
    \/ op = "gt" /\ a > b
    \/ op = "lt" /\ a < b
    \/ op = "gte" /\ a >= b
    \/ op = "lte" /\ a <= b

Conj(a, b) ==
    IF a = "false" \/ b = "false" THEN "false"
    ELSE IF a = "unknown" \/ b = "unknown" THEN "unknown" ELSE "true"
Disj(a, b) ==
    IF a = "true" \/ b = "true" THEN "true"
    ELSE IF a = "unknown" \/ b = "unknown" THEN "unknown" ELSE "false"
Negation(a) == CASE a = "true" -> "false" [] a = "false" -> "true" [] OTHER -> "unknown"

-----------------------------------------------------------------------------
(* In memory *)

CompareValues(op, a, b) ==
    IF a = Null \/ b = Null THEN "unknown" ELSE Truly(OrderHolds(op, a.v[1], b.v[1]))

\* The upper bound matters only where the lower one holds.
FirstDoubt(lower, upper) == IF lower = "true" THEN upper ELSE lower

EvaluateCondition(record, c) ==
    LET actual == record[c.field]
        expected == c.value.from
        bound(op, b) == IF b = Absent THEN "true" ELSE CompareValues(op, actual, b)
    IN  CASE c.op = "eq" ->
               IF actual = Null /\ expected # Null THEN "unknown" ELSE Truly(actual = expected)
          [] c.op = "neq" -> IF actual = Null THEN "unknown" ELSE Truly(actual # expected)
          [] c.op \in TextOps ->
               Truly(actual.t = "string" /\ TextHolds(c.op, actual.v, expected.v))
          [] c.op = "isEmpty" -> Truly(actual.v = <<>>)
          [] c.op = "isNotEmpty" -> Truly(actual.v # <<>>)
          [] c.op \in OrderOps -> CompareValues(c.op, actual, expected)
          [] c.op = "isTrue" -> Truly(actual = [t |-> "boolean", v |-> <<1>>])
          [] c.op = "isFalse" -> Truly(actual = [t |-> "boolean", v |-> <<0>>])
          [] c.op = "isNull" -> Truly(actual = Null)
          [] c.op = "isNotNull" -> Truly(actual # Null)
          [] c.op = "in" ->
               Truly(actual # Null /\ \E i \in DOMAIN c.value.list : c.value.list[i] = actual)
          [] c.op = "includesAny" ->
               Truly(\E i \in DOMAIN c.value.list : c.value.list[i].v[1] \in ToSet(actual.v))
          [] c.op = "includesAll" ->
               Truly(/\ actual.t = "array"
                     /\ \A i \in DOMAIN c.value.list : c.value.list[i].v[1] \in ToSet(actual.v))
          [] c.op = "between" -> FirstDoubt(bound("gte", c.value.from), bound("lte", c.value.to))

RECURSIVE EvaluatePredicateTruth(_, _)
EvaluatePredicateTruth(record, p) ==
    CASE p.kind = "literal" -> Truly(p.value)
      [] p.kind = "condition" -> EvaluateCondition(record, p)
      [] p.kind = "and" ->
           FoldLeft(LAMBDA truth, f : Conj(truth, EvaluatePredicateTruth(record, f)), "true", p.filters)
      [] p.kind = "or" ->
           FoldLeft(LAMBDA truth, f : Disj(truth, EvaluatePredicateTruth(record, f)), "false", p.filters)
      [] p.kind = "not" -> Negation(EvaluatePredicateTruth(record, p.filter))

\* A predicate that is unknown of a record does not match it.
EvaluatePredicate(record, p) == EvaluatePredicateTruth(record, p) = "true"

-----------------------------------------------------------------------------
(* Simplification *)

IsAlwaysTrue(p) == p = Literal(TRUE)
IsAlwaysFalse(p) == p = Literal(FALSE)

\* A group of simplified filters: the absorbing literal decides, the neutral
\* ones go, and one filter stands for itself.
GroupOf(kind, filters) ==
    IF filters = <<>> THEN Literal(kind = "and")
    ELSE IF Len(filters) = 1 THEN filters[1]
    ELSE [kind |-> kind, filters |-> filters]
Group(kind, filters) ==
    IF Contains(filters, Literal(kind # "and")) THEN Literal(kind # "and")
    ELSE GroupOf(kind, SelectSeq(filters, LAMBDA f : f # Literal(kind = "and")))

RECURSIVE SimplifyPredicate(_)
SimplifyPredicate(p) ==
    CASE p.kind \in {"and", "or"} ->
           Group(p.kind, [i \in DOMAIN p.filters |-> SimplifyPredicate(p.filters[i])])
      [] p.kind = "not" ->
           LET inner == SimplifyPredicate(p.filter)
           IN  IF inner.kind = "literal" THEN Literal(~inner.value) ELSE Not(inner)
      [] OTHER -> p

-----------------------------------------------------------------------------
(* The compiled SQL, as the database evaluates it *)

\* What a database takes for the same text: texts as they are (PostgreSQL), with
\* LIKE blind to case (SQLite, so D1), or LIKE and equality (MySQL, under its
\* default collation).
Collations == {"exact", "like", "folding"}
UpperCase(letter) == letter + 100
Folded(value) ==
    IF value.t = "string" THEN [value EXCEPT !.v = [i \in DOMAIN @ |-> @[i] % 100]] ELSE value
Collated(value, collation) == IF collation = "folding" THEN Folded(value) ELSE value
LikeHolds(collation, op, column, part) ==
    IF collation = "exact" THEN TextHolds(op, column.v, part.v)
    ELSE TextHolds(op, Folded(column).v, Folded(part).v)

\* Mutant of CompileCondition: null is looked for with `='.
CompileConditionUnsafe(collation, record, c) ==
    IF c.op = "eq" /\ c.value.from = Null THEN "unknown" ELSE EvaluateCondition(record, c)

\* Every comparison with null is unknown, except those that ask for null.
CompileCondition(collation, record, c) ==
    LET column == Collated(record[c.field], collation)
        expected == Collated(c.value.from, collation)
        listed == {Collated(c.value.list[i], collation) : i \in DOMAIN c.value.list} \ {Null}
        compared(b) == IF column = Null THEN "unknown" ELSE Truly(b)
        bound(op, b) == IF b = Absent THEN "true" ELSE CompareValues(op, column, b)
    IN  CASE c.op \in {"eq", "neq"} /\ c.value.from = Null -> Truly((c.op = "eq") <=> (column = Null))
          [] c.op = "eq" -> compared(column = expected)
          [] c.op = "neq" -> compared(column # expected)
          [] c.op \in TextOps -> compared(LikeHolds(collation, c.op, column, expected))
          [] c.op = "isEmpty" -> Disj(Truly(column = Null), compared(column.v = <<>>))
          [] c.op = "isNotEmpty" -> Conj(Truly(column # Null), compared(column.v # <<>>))
          [] c.op \in OrderOps -> CompareValues(c.op, column, c.value.from)
          [] c.op = "isTrue" -> compared(column.v = <<1>>)
          [] c.op = "isFalse" -> compared(column.v = <<0>>)
          [] c.op = "isNull" -> Truly(column = Null)
          [] c.op = "isNotNull" -> Truly(column # Null)
          [] c.op = "in" ->
               IF listed = {} THEN "false" ELSE compared(column \in listed)
          [] c.op = "between" -> Conj(bound("gte", c.value.from), bound("lte", c.value.to))

\* Mutant of StrictBoolean: no COALESCE.
StrictBooleanLoose(truth) == truth

\* COALESCE(expression, FALSE)
StrictBoolean(truth) == Truly(truth = "true")

\* What the statement compiled from a predicate says of a row: strict at every
\* node.
RECURSIVE Compile(_, _, _)
Compile(collation, record, p) ==
    CASE p.kind = "literal" -> Truly(p.value)
      [] p.kind = "condition" -> StrictBoolean(CompileCondition(collation, record, p))
      [] p.kind = "and" ->
           StrictBoolean(FoldLeft(LAMBDA truth, f : Conj(truth, Compile(collation, record, f)), "true", p.filters))
      [] p.kind = "or" ->
           StrictBoolean(FoldLeft(LAMBDA truth, f : Disj(truth, Compile(collation, record, f)), "false", p.filters))
      [] p.kind = "not" -> StrictBoolean(Negation(Compile(collation, record, p.filter)))

Selects(collation, record, p) == Compile(collation, record, p) = "true"

-----------------------------------------------------------------------------
(* Checks of a predicate against the types of the fields *)

IsScalarField(type) == type # "string-array"
IsStringField(type) == type \in {"string", "identifier"}
IsOrderedField(type) == type \in {"number", "date", "datetime"}

ArrayFieldOps == ArrayOps \cup {"isEmpty", "isNotEmpty", "isNull", "isNotNull"}

\* findUnsupportedPredicateCombination finds nothing wrong with a condition:
\* its operator and the shape of its operand suit the type of its field.  A
\* list or a range is no scalar operand, so no `in' passes and no `between'.
Supported(c, types) ==
    /\ c.field \in DOMAIN types
    /\ LET type == types[c.field]
           compound == c.value.shape \in {"list", "range"}
       IN  /\ ~IsScalarField(type) => c.op \in ArrayFieldOps
           /\ c.op \in ArrayOps => ~IsScalarField(type)
           /\ c.op = "in" => IsScalarField(type) /\ c.value.shape = "list"
           /\ c.op \in TextOps => IsStringField(type) /\ c.value.shape = "scalar" /\ c.value.from.t = "string"
           /\ c.op \in OrderOps \cup {"between"} => IsOrderedField(type) /\ ~compound
           /\ c.op \in {"isTrue", "isFalse"} => type = "boolean"
           /\ c.op \in {"isEmpty", "isNotEmpty"} /\ IsScalarField(type) => IsStringField(type)
           /\ IsScalarField(type) /\ compound => c.op = "between"

RECURSIVE ConditionsOf(_)
ConditionsOf(p) ==
    CASE p.kind = "condition" -> {p}
      [] p.kind \in {"and", "or"} -> UNION {ConditionsOf(p.filters[i]) : i \in DOMAIN p.filters}
      [] p.kind = "not" -> ConditionsOf(p.filter)
      [] OTHER -> {}

SupportedPredicate(p, types) == \A c \in ConditionsOf(p) : Supported(c, types)

\* Operators whose meaning differs between memory and databases.
PortablePredicate(p) ==
    \A c \in ConditionsOf(p) : c.op \notin ArrayOps \cup {"isEmpty", "isNotEmpty"}
=============================================================================
