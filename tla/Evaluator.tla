------------------------------ MODULE Evaluator ------------------------------
(***************************************************************************)
(* expression_eval.go and the runtime half of expression_funcs.go: what an *)
(* expression gives on a tree.                                             *)
(*                                                                         *)
(* A syntax tree is a record whose op names the node type of the source.   *)
(* An evaluation fails or has a result, which is a value or, for an        *)
(* expression that selects, the nodes it stands for, with their paths.     *)
(* Which error it is, and its text, are left out; as evaluating a node     *)
(* changes nothing, so is the order in which its children are evaluated.   *)
(***************************************************************************)
EXTENDS ExprValue

CONSTANTS
  Dotted,        \* the field names that have a dot in them, with their parts
  GoFunctions    \* the Go functions that were registered, by their names

(***************************************************************************)
(* evalResult.                                                             *)
(***************************************************************************)
Match(path, value) == [path |-> path, value |-> value]

Failed == [err |-> TRUE]

valueResult(v) ==
  [err |-> FALSE, selected |-> FALSE, list |-> FALSE, matches |-> <<>>, value |-> v]

Selection(matches, list) ==
  [err |-> FALSE, selected |-> TRUE, list |-> list, matches |-> matches, value |-> NullValue]

selectionResult(matches)     == Selection(matches, FALSE)
selectionListResult(matches) == Selection(matches, TRUE)

output(r) ==
  IF ~r.selected THEN r.value
  ELSE IF Len(r.matches) = 1 /\ ~r.list THEN r.matches[1].value
  ELSE ArrayValue([i \in DOMAIN r.matches |-> r.matches[i].value])

AnyFailed(results) == \E i \in DOMAIN results : results[i].err
Outputs(results)   == [i \in DOMAIN results |-> output(results[i])]

(***************************************************************************)
(* Members: an array on the way stands for each of its elements.           *)
(***************************************************************************)
\* A mistake: the paths of the elements start at 1.
ElementsFromOne(m) ==
  [i \in DOMAIN m.value.arr |-> Match(Append(m.path, Index(i)), m.value.arr[i])]

Elements(m) ==
  [i \in DOMAIN m.value.arr |-> Match(Append(m.path, Index(i - 1)), m.value.arr[i])]

Spread(m) == IF m.value.kind = "array" THEN Elements(m) ELSE <<m>>

SpreadAll(matches) == FlattenSeq([i \in DOMAIN matches |-> Spread(matches[i])])

Field(v, name) == IF HasField(v, name) THEN v.obj[name] ELSE NullValue

\* A mistake: a projection of an array with one element is not a list.
accessMemberMatchesUnlisted(matches, name, optional, forceList) ==
  LET all == SpreadAll(matches)
  IN  IF ~optional /\ \E i \in DOMAIN all : ~HasField(all[i].value, name) THEN Failed
      ELSE Selection([i \in DOMAIN all |->
                        Match(Append(all[i].path, Key(name)), Field(all[i].value, name))],
                     forceList)

accessMemberMatches(matches, name, optional, forceList) ==
  LET all == SpreadAll(matches)
  IN  IF ~optional /\ \E i \in DOMAIN all : ~HasField(all[i].value, name) THEN Failed
      ELSE Selection([i \in DOMAIN all |->
                        Match(Append(all[i].path, Key(name)), Field(all[i].value, name))],
                     forceList \/ \E i \in DOMAIN matches : matches[i].value.kind = "array")

accessMemberValue(v, name, optional) ==
  LET all == IF v.kind = "array" THEN v.arr ELSE <<v>>
  IN  IF ~optional /\ \E i \in DOMAIN all : ~HasField(all[i], name) THEN Failed
      ELSE IF v.kind = "array" THEN valueResult(ArrayValue([i \in DOMAIN all |-> Field(all[i], name)]))
      ELSE valueResult(Field(v, name))

(***************************************************************************)
(* Indexes, which every match is asked for by itself.  A missing one is,   *)
(* inside a filter, a null that has the path of the container.             *)
(***************************************************************************)
accessIndex(m, index) ==
  IF FoundIndex(m.value, index)
  THEN Match(Append(m.path, SlotOf(m.value, index)), ChildAt(m.value, SlotOf(m.value, index)))
  ELSE Match(m.path, NullValue)

IndexFails(v, index, optional) == WrongIndex(v, index) \/ (~optional /\ ~FoundIndex(v, index))

accessIndexMatches(matches, index, optional, forceList) ==
  IF \E i \in DOMAIN matches : IndexFails(matches[i].value, index, optional) THEN Failed
  ELSE Selection([i \in DOMAIN matches |-> accessIndex(matches[i], index)],
                 forceList /\ Len(matches) # 1)

accessIndexValue(v, index, optional) ==
  IF IndexFails(v, index, optional) THEN Failed
  ELSE valueResult(accessIndex(Match(<<>>, v), index).value)

\* The elements of a computed array get paths as if it were the root.
filterCandidates(r) ==
  IF r.selected THEN SpreadAll(r.matches)
  ELSE IF r.value.kind = "array" THEN Elements(Match(<<>>, r.value))
  ELSE <<>>

(***************************************************************************)
(* Operators.                                                              *)
(***************************************************************************)
Ordering == {"<", "<=", ">", ">="}

Ordered(op, cmp) ==
  \/ op = ">" /\ cmp > 0
  \/ op = ">=" /\ cmp >= 0
  \/ op = "<" /\ cmp < 0
  \/ op = "<=" /\ cmp <= 0

ArithmeticFails(op, l, r) ==
  IF op = "+" /\ l.kind = "string" THEN r.kind # "string"
  ELSE \/ ~IsNumber(l) \/ ~IsNumber(r)
       \/ op = "/" /\ IsZero(r)
       \/ op = "%" /\ (~IsInteger(l) \/ ~IsInteger(r) \/ IsZero(r))

arithmetic(op, l, r) ==
  IF ArithmeticFails(op, l, r) THEN Failed
  ELSE valueResult(
    CASE op = "+" /\ l.kind = "string" -> StringValue(l.s \o r.s)
      [] op = "+" /\ l.kind # "string" -> addNumbers(l, r)
      [] op = "-" -> subNumbers(l, r)
      [] op = "*" -> mulNumbers(l, r)
      [] op = "/" -> divNumbers(l, r)
      [] op = "%" -> modNumbers(l, r))

evalBinary(op, l, r) ==
  IF op = "==" THEN valueResult(BoolValue(valuesEqual(l, r)))
  ELSE IF op = "!=" THEN valueResult(BoolValue(~valuesEqual(l, r)))
  ELSE IF op \in Ordering
  THEN IF Comparable(l, r) THEN valueResult(BoolValue(Ordered(op, compareValues(l, r)))) ELSE Failed
  ELSE IF op = "in"
  THEN IF Searchable(r, l) THEN valueResult(BoolValue(containsValue(r, l))) ELSE Failed
  ELSE arithmetic(op, l, r)

evalUnary(op, v) ==
  IF op = "!" THEN valueResult(BoolValue(~truthy(v)))
  ELSE IF IsNumber(v) THEN valueResult(negNumber(v))
  ELSE Failed

(***************************************************************************)
(* The built-in functions on lists, for which null is the empty list.      *)
(***************************************************************************)
IsList(v) == v.kind \in {"null", "array"}
asList(v) == IF v.kind = "null" THEN <<>> ELSE v.arr

ListResult(items) == valueResult(ArrayValue(items))

Mixed(items) == Len(items) > 1 /\ \E i, j \in DOMAIN items : i # j /\ ~Comparable(items[i], items[j])

\* The scan keeps the first of equal extremes.
Best(items, max) ==
  CHOOSE i \in DOMAIN items :
    /\ \A j \in DOMAIN items : IF max THEN compareValues(items[j], items[i]) <= 0
                                      ELSE compareValues(items[j], items[i]) >= 0
    /\ \A j \in 1..(i - 1) : compareValues(items[j], items[i]) # 0

listExtreme(items, max) ==
  IF items = <<>> THEN valueResult(NullValue)
  ELSE IF Len(items) = 1 THEN valueResult(items[1])
  ELSE IF Mixed(items) THEN Failed
  ELSE valueResult(items[Best(items, max)])

\* The items in the stable order of their keys.
StableSort(items, keys, desc) ==
  LET less(i, j)   == IF desc THEN compareValues(keys[i], keys[j]) > 0
                      ELSE compareValues(keys[i], keys[j]) < 0
      before(i, j) == less(i, j) \/ (~less(j, i) /\ i < j)
      rank(j)      == Cardinality({i \in DOMAIN items : before(i, j)}) + 1
  IN  [n \in DOMAIN items |-> items[CHOOSE j \in DOMAIN items : rank(j) = n]]

\* SliceStable compares nothing, and so finds nothing wrong, in a list of one.
Sorted(items, keys, desc) ==
  IF Len(items) <= 1 THEN ListResult(items)
  ELSE IF Mixed(keys) THEN Failed
  ELSE ListResult(StableSort(items, keys, desc))

FieldPath(field) == IF field \in DOMAIN Dotted THEN Dotted[field] ELSE <<field>>

\* NullValue stands for a missing field: neither can be compared.
fieldByPath(v, field) ==
  FoldLeft(LAMBDA current, part : IF part = "" THEN NullValue ELSE Field(current, part), v, FieldPath(field))

sortByField(items, field, desc) ==
  Sorted(items, [i \in DOMAIN items |-> fieldByPath(items[i], field)], desc)

sumOf(items) ==
  IF \E i \in DOMAIN items : ~IsNumber(items[i]) THEN Failed
  ELSE valueResult(FoldLeft(addNumbers, IntegerValue(0), items))

avgOf(items) ==
  IF items = <<>> THEN valueResult(NullValue)
  ELSE IF sumOf(items).err THEN Failed
  ELSE arithmetic("/", sumOf(items).value, IntegerValue(Len(items)))

uniqueOf(items) ==
  FoldLeft(LAMBDA out, item : IF \E i \in DOMAIN out : valuesEqual(out[i], item) THEN out
                              ELSE Append(out, item),
           <<>>, items)

\* Sequences of strings put together with a separator.
Joined(parts, sep) ==
  IF parts = <<>> THEN ""
  ELSE FoldLeft(LAMBDA text, part : text \o sep \o part, Head(parts), Tail(parts))

sortKeys(obj) == SetToSortSeq(DOMAIN obj, LAMBDA a, b : Rank(a) < Rank(b))

ListFunctions ==
  {"first", "last", "sum", "avg", "min", "max", "sort", "sortDesc", "unique", "compact"}

OnList(name, items) ==
  CASE name = "first"    -> valueResult(IF items = <<>> THEN NullValue ELSE Head(items))
    [] name = "last"     -> valueResult(IF items = <<>> THEN NullValue ELSE Last(items))
    [] name = "sum"      -> sumOf(items)
    [] name = "avg"      -> avgOf(items)
    [] name = "min"      -> listExtreme(items, FALSE)
    [] name = "max"      -> listExtreme(items, TRUE)
    [] name = "sort"     -> Sorted(items, items, FALSE)
    [] name = "sortDesc" -> Sorted(items, items, TRUE)
    [] name = "unique"   -> ListResult(uniqueOf(items))
    [] name = "compact"  -> ListResult(SelectSeq(items, truthy))

builtinLen(v) ==
  CASE v.kind = "null"   -> valueResult(IntegerValue(0))
    [] v.kind = "string" -> valueResult(IntegerValue(Len(v.s)))
    [] v.kind = "array"  -> valueResult(IntegerValue(Len(v.arr)))
    [] v.kind = "object" -> valueResult(IntegerValue(Cardinality(DOMAIN v.obj)))
    [] OTHER             -> Failed

\* keys and values, in the order of the keys.
OnObject(name, v) ==
  IF v.kind # "object" THEN Failed
  ELSE ListResult([i \in DOMAIN sortKeys(v.obj) |->
         IF name = "keys" THEN StringValue(sortKeys(v.obj)[i]) ELSE v.obj[sortKeys(v.obj)[i]]])

builtinJoin(v, sep) ==
  IF ~IsList(v) \/ sep.kind # "string" THEN Failed
  ELSE valueResult(StringValue(Joined([i \in DOMAIN asList(v) |-> FormatValue(asList(v)[i])], sep.s)))

builtinSortBy(v, field, desc) ==
  IF ~IsList(v) \/ field.kind # "string" THEN Failed ELSE sortByField(asList(v), field.s, desc)

Arity ==
  [name \in ListFunctions \cup {"len", "count", "exists", "keys", "values"} |-> 1]
  @@ [name \in {"contains", "sortBy", "sortByDesc", "join", "default"} |-> 2]

Builtin(name, args) ==
  CASE name \in {"len", "count"}   -> builtinLen(args[1])
    [] name = "exists"             -> valueResult(BoolValue(args[1].kind # "null"))
    [] name = "contains"           -> evalBinary("in", args[2], args[1])
    [] name \in ListFunctions      -> IF IsList(args[1]) THEN OnList(name, asList(args[1])) ELSE Failed
    [] name \in {"keys", "values"} -> OnObject(name, args[1])
    [] name = "sortBy"             -> builtinSortBy(args[1], args[2], FALSE)
    [] name = "sortByDesc"         -> builtinSortBy(args[1], args[2], TRUE)
    [] name = "join"               -> builtinJoin(args[1], args[2])
    [] name = "default"            -> valueResult(IF args[1].kind = "null" THEN args[2] ELSE args[1])

(***************************************************************************)
(* Go functions: reflection converts the arguments.  A function is known   *)
(* by the types of its parameters, the last of which may be repeated, the  *)
(* type of its result and what it returns: what else it does is its own    *)
(* affair.                                                                 *)
(***************************************************************************)
ParamType(fn, i) == IF fn.variadic /\ i > Len(fn.params) THEN Last(fn.params) ELSE fn.params[i]

ArityOK(fn, n) == IF fn.variadic THEN n >= Len(fn.params) - 1 ELSE n = Len(fn.params)

RECURSIVE valueToReflect(_, _)
valueToReflect(v, target) ==
  \/ target.go \in {"value", "any"}
  \/ v.kind = "null" /\ target.go \in {"slice", "map"}
  \/ v.kind = target.go /\ v.kind \in {"bool", "string"}
  \/ IsInteger(v) /\ target.go = "int"
  \/ IsNumber(v) /\ target.go = "float"
  \/ /\ v.kind = "array" /\ target.go = "slice"
     /\ \A i \in DOMAIN v.arr : valueToReflect(v.arr[i], target.elem)
  \/ /\ v.kind = "object" /\ target.go = "map"
     /\ \A k \in DOMAIN v.obj : valueToReflect(v.obj[k], target.elem)

callGoFunction(fn, args) ==
  IF /\ ArityOK(fn, Len(args))
     /\ \A i \in DOMAIN args : valueToReflect(args[i], ParamType(fn, i))
  THEN fn.returns
  ELSE Failed

(***************************************************************************)
(* Registration, when a container is made: WithFunction takes a function   *)
(* of values, which says nothing of its arguments and its result,          *)
(* WithGoFunction one of Go types.  The name of a built-in function makes  *)
(* either panic, so that no container has such a function.                 *)
(***************************************************************************)
WithGoFunction(params, variadic, result, returns) ==
  [params |-> params, variadic |-> variadic, result |-> result, returns |-> returns]

WithFunction(returns) == WithGoFunction(<<[go |-> "value"]>>, TRUE, [go |-> "value"], returns)

mustAllowCustomFunction(name) == name \notin DOMAIN Arity

ASSUME GoFunctionsAssumption == \A name \in DOMAIN GoFunctions : mustAllowCustomFunction(name)

callFunction(name, args) ==
  IF name \in DOMAIN Arity
  THEN IF Len(args) = Arity[name] THEN Builtin(name, args) ELSE Failed
  ELSE IF name \in DOMAIN GoFunctions THEN callGoFunction(GoFunctions[name], args)
  ELSE Failed

(***************************************************************************)
(* The nodes of a syntax tree.                                             *)
(***************************************************************************)
Context(root) == [root |-> root, current |-> root, path |-> <<>>, filterMode |-> FALSE]

Inside(ctx, m) == [ctx EXCEPT !.current = m.value, !.path = m.path, !.filterMode = TRUE]

evalIdentifier(n, ctx) ==
  IF HasField(ctx.current, n.name)
  THEN selectionResult(<<Match(Append(ctx.path, Key(n.name)), ctx.current.obj[n.name])>>)
  ELSE IF ctx.filterMode THEN valueResult(NullValue)
  ELSE Failed

evalMember(receiver, name, optional) ==
  IF receiver.err THEN Failed
  ELSE IF receiver.selected
  THEN accessMemberMatches(receiver.matches, name, optional, receiver.list)
  ELSE accessMemberValue(receiver.value, name, optional)

evalIndex(receiver, index, optional) ==
  IF receiver.err \/ index.err THEN Failed
  ELSE IF receiver.selected
  THEN accessIndexMatches(receiver.matches, output(index), optional, receiver.list)
  ELSE accessIndexValue(receiver.value, output(index), optional)

evalLogical(op, left, right) ==
  LET decided == truthy(output(left)) = (op = "||")
  IN  IF left.err \/ (~decided /\ right.err) THEN Failed
      ELSE valueResult(BoolValue(IF decided THEN op = "||" ELSE truthy(output(right))))

\* callNode and methodCallNode, whose receiver is the first argument.
evalCall(name, args) == IF AnyFailed(args) THEN Failed ELSE callFunction(name, Outputs(args))

RECURSIVE Eval(_, _)
Eval(n, ctx) ==
  LET all(nodes) == [i \in DOMAIN nodes |-> Eval(nodes[i], ctx)]
      filter(receiver) ==
        LET candidates == filterCandidates(receiver)
            verdict(m) == Eval(n.predicate, Inside(ctx, m))
        IN  IF \E i \in DOMAIN candidates : verdict(candidates[i]).err THEN Failed
            ELSE selectionListResult(SelectSeq(candidates, LAMBDA m : truthy(output(verdict(m)))))
  IN  CASE n.op = "literal"    -> valueResult(n.value)
        [] n.op = "array"      -> LET items == all(n.items)
                                  IN  IF AnyFailed(items) THEN Failed
                                      ELSE valueResult(ArrayValue(Outputs(items)))
        [] n.op = "object"     -> LET fields == all(n.items)
                                  IN  IF AnyFailed(fields) THEN Failed
                                      ELSE valueResult(ObjectValue(Outputs(fields)))
        [] n.op = "identifier" -> evalIdentifier(n, ctx)
        [] n.op = "root"       -> selectionResult(<<Match(<<>>, ctx.root)>>)
        [] n.op = "member"     -> evalMember(Eval(n.receiver, ctx), n.name, n.optional \/ ctx.filterMode)
        [] n.op = "index"      -> evalIndex(Eval(n.receiver, ctx), Eval(n.index, ctx), ctx.filterMode)
        [] n.op = "filter"     -> LET receiver == Eval(n.receiver, ctx)
                                  IN  IF receiver.err THEN Failed ELSE filter(receiver)
        [] n.op = "unary"      -> LET child == Eval(n.child, ctx)
                                  IN  IF child.err THEN Failed ELSE evalUnary(n.operator, output(child))
        [] n.op = "logical"    -> evalLogical(n.operator, Eval(n.left, ctx), Eval(n.right, ctx))
        [] n.op = "binary"     -> LET left  == Eval(n.left, ctx)
                                      right == Eval(n.right, ctx)
                                  IN  IF left.err \/ right.err THEN Failed
                                      ELSE evalBinary(n.operator, output(left), output(right))
        [] n.op = "call"       -> evalCall(n.name, all(n.args))
        [] n.op = "methodCall" -> evalCall(n.name, <<Eval(n.receiver, ctx)>> \o all(n.args))

=============================================================================
