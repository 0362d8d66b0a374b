------------------------------ MODULE ExprValue ------------------------------
(***************************************************************************)
(* The values that expressions compute with, and what expression_eval.go   *)
(* and number.go do to them: truth, equality, order, membership,           *)
(* arithmetic and the look-up of an index.                                 *)
(*                                                                         *)
(* A big.Int is an integer; a big.Float is a fraction, so the rounding to  *)
(* 256 bits and the sign of zero are left out.                             *)
(***************************************************************************)
EXTENDS Integers, FiniteSets, SequencesExt, TLC

CONSTANT Words    \* the strings that are ever ordered, in the order of their bytes

NullValue         == [kind |-> "null"]
BoolValue(b)      == [kind |-> "bool", b |-> b]
StringValue(s)    == [kind |-> "string", s |-> s]
ObjectValue(f)    == [kind |-> "object", obj |-> f]
ArrayValue(s)     == [kind |-> "array", arr |-> s]
IntegerValue(i)   == [kind |-> "number", type |-> "integer", num |-> i, den |-> 1]

\* The fraction num / den in lowest terms: equal numbers are equal records.
FloatValue(num, den) ==
  LET sign    == IF den < 0 THEN -1 ELSE 1
      size    == IF num < 0 THEN -num ELSE num
      divides == {d \in 1..(sign * den) : den % d = 0 /\ size % d = 0}
      gcd     == CHOOSE d \in divides : \A e \in divides : e <= d
  IN  [kind |-> "number", type |-> "float", num |-> (sign * num) \div gcd, den |-> (sign * den) \div gcd]

IsNumber(v)  == v.kind = "number"
IsInteger(v) == IsNumber(v) /\ v.type = "integer"
IsZero(v)    == v.num = 0

Key(k)   == [kind |-> "key", key |-> k]
Index(i) == [kind |-> "index", index |-> i]

(***************************************************************************)
(* Numbers: an integer meets a float as a float.                           *)
(***************************************************************************)
compareNumbers(l, r) == l.num * r.den - r.num * l.den

Combined(l, r, num, den) == IF IsInteger(l) /\ IsInteger(r) THEN IntegerValue(num) ELSE FloatValue(num, den)

addNumbers(l, r) == Combined(l, r, l.num * r.den + r.num * l.den, l.den * r.den)
subNumbers(l, r) == Combined(l, r, l.num * r.den - r.num * l.den, l.den * r.den)
mulNumbers(l, r) == Combined(l, r, l.num * r.num, l.den * r.den)
divNumbers(l, r) == FloatValue(l.num * r.den, l.den * r.num)
negNumber(v)     == [v EXCEPT !.num = -v.num]

\* big.Int.Mod is Euclidean: what is left is never negative.
modNumbers(l, r) == IntegerValue(l.num % (IF r.num < 0 THEN -r.num ELSE r.num))

(***************************************************************************)
(* Text: two containers are equal if they have the same JSON, in which a   *)
(* float without a fraction is written like an integer.                    *)
(***************************************************************************)
NumberText(v) == IF v.den = 1 THEN ToString(v.num) ELSE ToString(v.num) \o "/" \o ToString(v.den)

RECURSIVE JSONValue(_)
JSONValue(v) ==
  IF IsNumber(v) THEN [kind |-> "json", text |-> NumberText(v)]
  ELSE IF v.kind = "object" THEN ObjectValue([k \in DOMAIN v.obj |-> JSONValue(v.obj[k])])
  ELSE IF v.kind = "array" THEN ArrayValue([i \in DOMAIN v.arr |-> JSONValue(v.arr[i])])
  ELSE v

FormatValue(v) ==
  IF v.kind = "null" THEN ""
  ELSE IF v.kind = "bool" THEN (IF v.b THEN "true" ELSE "false")
  ELSE IF v.kind = "string" THEN v.s
  ELSE IF IsNumber(v) THEN NumberText(v)
  ELSE ToString(JSONValue(v))

valuesEqual(l, r) ==
  \/ IsNumber(l) /\ IsNumber(r) /\ compareNumbers(l, r) = 0
  \/ ~IsNumber(l) /\ ~IsNumber(r) /\ JSONValue(l) = JSONValue(r)

truthy(v) ==
  \/ v.kind = "bool" /\ v.b
  \/ v.kind = "string" /\ v.s # ""
  \/ v.kind = "array" /\ v.arr # <<>>
  \/ v.kind = "object" /\ DOMAIN v.obj # {}
  \/ IsNumber(v) /\ ~IsZero(v)

Rank(s) == CHOOSE i \in DOMAIN Words : Words[i] = s

Comparable(l, r) == l.kind = r.kind /\ l.kind \in {"number", "string"}

compareValues(l, r) == IF IsNumber(l) THEN compareNumbers(l, r) ELSE Rank(l.s) - Rank(r.s)

PartOf(part, s) ==
  \E i \in 0..(Len(s) - Len(part)) : SubSeq(s, i + 1, i + Len(part)) = part

Searchable(container, needle) ==
  \/ container.kind = "array"
  \/ container.kind = "string" /\ needle.kind = "string"

containsValue(container, needle) ==
  IF container.kind = "string" THEN PartOf(needle.s, container.s)
  ELSE \E i \in DOMAIN container.arr : valuesEqual(container.arr[i], needle)

(***************************************************************************)
(* Members and indexes.                                                    *)
(***************************************************************************)
HasField(v, name) == v.kind = "object" /\ name \in DOMAIN v.obj

normalizeIndex(index, length) == IF index < 0 THEN length + index ELSE index

\* accessIndex: the kind of index that a container cannot be asked for is an
\* error; one that it does not have, or that anything else is asked for, is
\* only not found.
WrongIndex(v, index) ==
  \/ v.kind = "array" /\ ~IsInteger(index)
  \/ v.kind = "object" /\ index.kind # "string"

SlotOf(v, index) ==
  IF v.kind = "array" THEN Index(normalizeIndex(index.num, Len(v.arr))) ELSE Key(index.s)

FoundIndex(v, index) ==
  /\ v.kind \in {"array", "object"}
  /\ v.kind = "array" => SlotOf(v, index).index \in 0..(Len(v.arr) - 1)
  /\ v.kind = "object" => SlotOf(v, index).key \in DOMAIN v.obj

ChildAt(v, seg) == IF seg.kind = "key" THEN v.obj[seg.key] ELSE v.arr[seg.index + 1]

=============================================================================
