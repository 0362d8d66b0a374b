------------------------------- MODULE Checker -------------------------------
(***************************************************************************)
(* expression_check.go and the static half of expression_funcs.go: what    *)
(* CompileExpression infers about an expression from the types of a tree,  *)
(* and which expressions it rejects.                                       *)
(*                                                                         *)
(* Elem, Fields and Const of a StaticType may be nil: they are sequences   *)
(* of at most one element.  Selected is left out, as nothing reads it.     *)
(***************************************************************************)
EXTENDS Evaluator

Type(kind) ==
  [kind |-> kind, nullable |-> FALSE, elem |-> <<>>, fields |-> <<>>, elements |-> <<>>, const |-> <<>>]

unknownType   == Type("unknown")
nullableType(t) == [t EXCEPT !.nullable = TRUE]
stripConst(t)   == [t EXCEPT !.const = <<>>]
nullType      == nullableType(Type("null"))
arrayOf(t)    == [Type("array") EXCEPT !.elem = <<t>>]

Numbers     == {"number", "integer", "float"}
StaticKinds == Numbers \cup {"unknown", "any", "null", "bool", "string", "object", "array"}

isKnown(t)       == t.kind \notin {"unknown", "any"}
isNumberLike(t)  == t.kind \in Numbers
isKnownObject(t) == t.kind = "object" /\ t.fields # <<>>

\* t is known to be of none of these kinds.
Not(t, kinds) == isKnown(t) /\ t.kind \notin kinds

\* arrayElemType and derefType.
ElemOf(t) == IF t.elem = <<>> THEN unknownType ELSE t.elem[1]

HasStaticField(t, name)  == isKnownObject(t) /\ name \in DOMAIN t.fields[1]
StaticFieldOf(t, name) == t.fields[1][name]

typesComparable(l, r) ==
  \/ isNumberLike(l) /\ isNumberLike(r)
  \/ l.kind = "string" /\ r.kind = "string"

typeComparableAlone(t) == isNumberLike(t) \/ t.kind \in {"string", "unknown", "any"}

(***************************************************************************)
(* mergeStaticTypes: the type of a place that holds one or the other.      *)
(***************************************************************************)
RECURSIVE mergeStaticTypes(_, _)
mergeStaticTypes(l, r) ==
  LET either == [stripConst(l) EXCEPT !.nullable = l.nullable \/ r.nullable]
      lFields == IF l.fields = <<>> THEN <<>> ELSE l.fields[1]
      rFields == IF r.fields = <<>> THEN <<>> ELSE r.fields[1]
      field(k) == IF k \in DOMAIN lFields \cap DOMAIN rFields
                  THEN mergeStaticTypes(lFields[k], rFields[k])
                  ELSE nullableType(stripConst(IF k \in DOMAIN lFields THEN lFields[k] ELSE rFields[k]))
  IN  IF l.kind = "unknown" THEN stripConst(r)
      ELSE IF r.kind = "unknown" THEN stripConst(l)
      ELSE IF l.kind = "array" /\ r.kind = "array"
      THEN [either EXCEPT !.elem = <<mergeStaticTypes(ElemOf(l), ElemOf(r))>>]
      ELSE IF l.kind = "object" /\ r.kind = "object" /\ (isKnownObject(l) \/ isKnownObject(r))
      THEN [either EXCEPT !.fields = <<[k \in DOMAIN lFields \cup DOMAIN rFields |-> field(k)]>>]
      ELSE IF l.kind = r.kind THEN either
      ELSE IF isNumberLike(l) /\ isNumberLike(r) THEN Type("number")
      ELSE IF l.kind = "null" THEN nullableType(stripConst(r))
      ELSE IF r.kind = "null" THEN nullableType(stripConst(l))
      ELSE Type("any")

MergeAll(types) == FoldLeft(mergeStaticTypes, unknownType, types)

RECURSIVE InferStaticType(_)
InferStaticType(v) ==
  IF v.kind = "null" THEN nullType
  ELSE IF v.kind = "number" THEN Type(v.type)
  ELSE IF v.kind = "object"
  THEN [Type("object") EXCEPT !.fields = <<[k \in DOMAIN v.obj |-> InferStaticType(v.obj[k])]>>]
  ELSE IF v.kind = "array"
  THEN LET elements == [i \in DOMAIN v.arr |-> InferStaticType(v.arr[i])]
       IN  [Type("array") EXCEPT !.elements = elements, !.elem = <<MergeAll(elements)>>]
  ELSE Type(v.kind)

(***************************************************************************)
(* Outcomes of the checks.                                                 *)
(***************************************************************************)
Rejected == [err |-> TRUE]
Typed(t) == [err |-> FALSE, type |-> t]

\* Typed(t), unless the check that guards it fails.
TypedIf(ok, t) == IF ok THEN Typed(t) ELSE Rejected

(***************************************************************************)
(* Members and indexes.                                                    *)
(***************************************************************************)
\* The field of one type, unless it is missing and has to be there.
MayLack(t, optional) == optional \/ ~isKnownObject(t)

FieldType(t, name) ==
  IF HasStaticField(t, name) THEN StaticFieldOf(t, name) ELSE nullableType(unknownType)

MemberOK(t, name, optional) == HasStaticField(t, name) \/ MayLack(t, optional)

inferMemberType(receiver, name, optional) ==
  LET elements == receiver.elements
      elem     == ElemOf(receiver)
  IN  IF receiver.kind # "array"
      THEN TypedIf(MemberOK(receiver, name, optional), FieldType(receiver, name))
      ELSE IF elements # <<>>
      THEN TypedIf(\A i \in DOMAIN elements : MemberOK(elements[i], name, optional),
                   arrayOf(MergeAll([i \in DOMAIN elements |-> FieldType(elements[i], name)])))
      ELSE TypedIf(MemberOK(elem, name, optional), arrayOf(FieldType(elem, name)))

HasConst(t, kind) == t.const # <<>> /\ t.const[1].kind = kind

\* A constant index that is in use, or that there is nothing to compare with.
ConstIndexOK(elements, index) ==
  HasConst(index, "number") /\ IsInteger(index.const[1]) /\ elements # <<>>
    => normalizeIndex(index.const[1].num, Len(elements)) \in 0..(Len(elements) - 1)

arrayIndexType(receiver, index) ==
  IF Not(index, {"integer"}) \/ ~ConstIndexOK(receiver.elements, index) THEN Rejected
  ELSE IF HasConst(index, "number") /\ receiver.elements # <<>>
  THEN Typed(receiver.elements[normalizeIndex(index.const[1].num, Len(receiver.elements)) + 1])
  ELSE Typed(ElemOf(receiver))

objectIndexType(receiver, index) ==
  IF Not(index, {"string"}) THEN Rejected
  ELSE IF HasConst(index, "string")
  THEN TypedIf(HasStaticField(receiver, index.const[1].s), FieldType(receiver, index.const[1].s))
  ELSE Typed(unknownType)

inferIndexType(receiver, index) ==
  IF receiver.kind = "array" THEN arrayIndexType(receiver, index)
  ELSE IF receiver.kind = "object" THEN objectIndexType(receiver, index)
  ELSE TypedIf(~isKnown(receiver), unknownType)

(***************************************************************************)
(* Operators.                                                              *)
(***************************************************************************)
ZeroConst(t) == HasConst(t, "number") /\ IsZero(t.const[1])

inferNumericBinary(op, l, r) ==
  IF \/ Not(l, Numbers) \/ Not(r, Numbers)
     \/ op = "%" /\ (Not(l, {"integer"}) \/ Not(r, {"integer"}))
     \/ op \in {"/", "%"} /\ ZeroConst(r)
  THEN Rejected
  ELSE IF op # "/" /\ l.kind = "integer" /\ r.kind = "integer" THEN Typed(Type("integer"))
  ELSE Typed(Type("number"))

inferBinaryType(op, l, r) ==
  IF op \in {"&&", "||", "==", "!="} THEN Typed(Type("bool"))
  ELSE IF op \in Ordering
  THEN TypedIf(isKnown(l) /\ isKnown(r) => typesComparable(l, r), Type("bool"))
  ELSE IF op = "in"
  THEN TypedIf(~Not(r, {"array", "string"}) /\ (r.kind = "string" => ~Not(l, {"string"})), Type("bool"))
  ELSE IF op = "+" /\ (l.kind = "string" \/ r.kind = "string")
  THEN TypedIf(~Not(l, {"string"}) /\ ~Not(r, {"string"}), Type("string"))
  ELSE inferNumericBinary(op, l, r)

inferUnaryType(op, t) ==
  IF op = "!" THEN Typed(Type("bool"))
  ELSE IF Not(t, Numbers) THEN Rejected
  ELSE Typed([t EXCEPT !.const = IF HasConst(t, "number") THEN <<negNumber(t.const[1])>> ELSE <<>>])

(***************************************************************************)
(* The built-in functions.                                                 *)
(***************************************************************************)
\* checkedArrayElem.
ArrayOK(t)     == t.kind = "null" \/ ~Not(t, {"array"})
CheckedElem(t) == IF t.kind = "array" THEN ElemOf(t) ELSE unknownType

\* A mistake: only elements that are known one by one are looked at.
requireNumberElementsListed(t) == \A i \in DOMAIN t.elements : ~Not(t.elements[i], Numbers)

requireNumberElements(t) ==
  /\ \A i \in DOMAIN t.elements : ~Not(t.elements[i], Numbers)
  /\ ~Not(CheckedElem(t), Numbers \cup {"null"})

requireComparableElements(t) ==
  /\ \A i \in DOMAIN t.elements : typeComparableAlone(t.elements[i])
  /\ typeComparableAlone(CheckedElem(t)) \/ CheckedElem(t).kind = "null"
  /\ \A i \in DOMAIN t.elements :
       i > 1 /\ isKnown(t.elements[1]) /\ isKnown(t.elements[i])
         => typesComparable(t.elements[1], t.elements[i])

fieldByStaticPath(t, field) ==
  FoldLeft(LAMBDA current, part : IF part # "" THEN FieldType(current, part) ELSE Type("null"),
           t, FieldPath(field))

RECURSIVE HasStaticPath(_, _)
HasStaticPath(t, parts) ==
  \/ parts = <<>>
  \/ /\ Head(parts) # ""
     /\ HasStaticField(t, Head(parts))
     /\ HasStaticPath(StaticFieldOf(t, Head(parts)), Tail(parts))

checkSortBy(list, field) ==
  LET name == field.const[1].s
  IN  /\ ArrayOK(list)
      /\ ~Not(field, {"string"})
      /\ field.const # <<>> /\ isKnownObject(CheckedElem(list))
           => /\ HasStaticPath(CheckedElem(list), FieldPath(name))
              /\ typeComparableAlone(fieldByStaticPath(CheckedElem(list), name))

checkContains(container, needle) ==
  ~Not(container, {"array", "string"}) /\ (container.kind = "string" => ~Not(needle, {"string"}))

checkDefault(t, fallback) ==
  IF t.const = <<>> THEN mergeStaticTypes(t, fallback)
  ELSE stripConst(IF HasConst(t, "null") THEN fallback ELSE t)

\* sort, unique and compact leave the types of the elements in the old order.
checkOnList(name, t) ==
  CASE name \in {"first", "last"} -> TypedIf(ArrayOK(t), nullableType(CheckedElem(t)))
    [] name = "sum" -> TypedIf(ArrayOK(t) /\ requireNumberElements(t),
                               Type(IF CheckedElem(t).kind = "integer" THEN "integer" ELSE "number"))
    [] name = "avg" -> TypedIf(ArrayOK(t) /\ requireNumberElements(t), nullableType(Type("number")))
    [] name \in {"min", "max"} -> TypedIf(ArrayOK(t) /\ requireComparableElements(t),
                                          nullableType(CheckedElem(t)))
    [] name \in {"sort", "sortDesc"} -> TypedIf(ArrayOK(t) /\ requireComparableElements(t), stripConst(t))
    [] name \in {"unique", "compact"} -> TypedIf(ArrayOK(t), stripConst(t))

\* The source merges in the order of a map, which is any: only whether null is
\* among the values can get lost, or not, with the order.
checkValues(t) ==
  LET fields == IF t.fields = <<>> THEN <<>> ELSE t.fields[1]
  IN  TypedIf(~Not(t, {"object"}),
              arrayOf(MergeAll([i \in 1..Cardinality(DOMAIN fields) |-> fields[sortKeys(fields)[i]]])))

checkBuiltin(name, args) ==
  CASE name \in {"len", "count"} ->
         TypedIf(~Not(args[1], {"null", "string", "array", "object"}), Type("integer"))
    [] name = "exists" -> Typed(Type("bool"))
    [] name = "contains" -> TypedIf(checkContains(args[1], args[2]), Type("bool"))
    [] name \in ListFunctions -> checkOnList(name, args[1])
    [] name = "keys" -> TypedIf(~Not(args[1], {"object"}), arrayOf(Type("string")))
    [] name = "values" -> checkValues(args[1])
    [] name \in {"sortBy", "sortByDesc"} -> TypedIf(checkSortBy(args[1], args[2]), stripConst(args[1]))
    [] name = "join" -> TypedIf(ArrayOK(args[1]) /\ ~Not(args[2], {"string"}), Type("string"))
    [] name = "default" -> Typed(checkDefault(args[1], args[2]))

(***************************************************************************)
(* Go functions: what their signatures say of their arguments.             *)
(***************************************************************************)
\* A mistake: the kinds of Go are taken for those of the checker.
reflectStaticTypeUntranslated(t) == Type(t.go)

RECURSIVE reflectStaticType(_)
reflectStaticType(t) ==
  CASE t.go = "value" -> unknownType
    [] t.go = "any"   -> Type("any")
    [] t.go = "int"   -> Type("integer")
    [] t.go = "slice" -> arrayOf(reflectStaticType(t.elem))
    [] t.go = "map"   -> [Type("object") EXCEPT !.elem = <<reflectStaticType(t.elem)>>]
    [] OTHER          -> Type(t.go)

RECURSIVE staticAssignable(_, _)
staticAssignable(got, want) ==
  \/ ~isKnown(want) \/ ~isKnown(got)
  \/ got.kind = "null" /\ (want.nullable \/ want.kind = "null")
  \/ got.kind # "null" /\ want.kind = "number" /\ isNumberLike(got)
  \/ /\ got.kind # "null" /\ want.kind # "number" /\ got.kind = want.kind
     /\ want.kind = "array" /\ want.elem # <<>> =>
          /\ \A i \in DOMAIN got.elements : staticAssignable(got.elements[i], want.elem[1])
          /\ got.elem # <<>> => staticAssignable(got.elem[1], want.elem[1])
     /\ want.kind = "object" /\ want.elem # <<>> =>
          /\ got.fields # <<>> =>
               \A k \in DOMAIN got.fields[1] : staticAssignable(got.fields[1][k], want.elem[1])
          /\ got.elem # <<>> => staticAssignable(got.elem[1], want.elem[1])

checkGoFunction(fn, args) ==
  TypedIf(/\ ArityOK(fn, Len(args))
          /\ \A i \in DOMAIN args : staticAssignable(args[i], reflectStaticType(ParamType(fn, i))),
          reflectStaticType(fn.result))

inferCallType(name, args, ctx) ==
  IF name \in DOMAIN Arity
  THEN IF Len(args) = Arity[name] THEN checkBuiltin(name, args) ELSE Rejected
  ELSE IF name \in ctx.funcs THEN checkGoFunction(GoFunctions[name], args)
  ELSE Rejected

(***************************************************************************)
(* The nodes of a syntax tree.                                             *)
(***************************************************************************)
CheckContext(schema, funcs, strict) ==
  [root |-> schema, current |-> schema, funcs |-> funcs, strict |-> strict, filterMode |-> FALSE]

inferIdentifier(name, ctx) ==
  IF HasStaticField(ctx.current, name) THEN Typed(StaticFieldOf(ctx.current, name))
  ELSE IF ctx.filterMode
  THEN Typed(IF isKnownObject(ctx.current) THEN nullType ELSE unknownType)
  ELSE TypedIf(~ctx.strict /\ ~isKnownObject(ctx.current), unknownType)

TypesOf(checks) == [i \in DOMAIN checks |-> checks[i].type]

Constant(types) == \A i \in DOMAIN types : types[i].const # <<>>
ConstsOf(types) == [i \in DOMAIN types |-> types[i].const[1]]

literalType(v) == [InferStaticType(v) EXCEPT !.const = <<v>>]

arrayLiteralType(types) ==
  [arrayOf(MergeAll(types)) EXCEPT
     !.elements = types,
     !.const = IF Constant(types) THEN <<ArrayValue(ConstsOf(types))>> ELSE <<>>]

objectLiteralType(types) ==
  [Type("object") EXCEPT
     !.fields = <<types>>,
     !.const = IF Constant(types) THEN <<ObjectValue(ConstsOf(types))>> ELSE <<>>]

RECURSIVE inferExpr(_, _)
inferExpr(n, ctx) ==
  LET all(nodes) == [i \in DOMAIN nodes |-> inferExpr(nodes[i], ctx)]
      inside(t)  == [ctx EXCEPT !.current = ElemOf(t), !.filterMode = TRUE]
  IN  CASE n.op = "literal"    -> Typed(literalType(n.value))
        [] n.op = "array"      -> LET items == all(n.items)
                                  IN  IF AnyFailed(items) THEN Rejected
                                      ELSE Typed(arrayLiteralType(TypesOf(items)))
        [] n.op = "object"     -> LET fields == all(n.items)
                                  IN  IF AnyFailed(fields) THEN Rejected
                                      ELSE Typed(objectLiteralType(TypesOf(fields)))
        [] n.op = "identifier" -> inferIdentifier(n.name, ctx)
        [] n.op = "root"       -> Typed(ctx.root)
        [] n.op = "member"     -> LET receiver == inferExpr(n.receiver, ctx)
                                  IN  IF receiver.err THEN Rejected
                                      ELSE inferMemberType(receiver.type, n.name, n.optional \/ ctx.filterMode)
        [] n.op = "index"      -> LET receiver == inferExpr(n.receiver, ctx)
                                      index    == inferExpr(n.index, ctx)
                                  IN  IF receiver.err \/ index.err THEN Rejected
                                      ELSE inferIndexType(receiver.type, index.type)
        [] n.op = "filter"     -> LET receiver == inferExpr(n.receiver, ctx)
                                  IN  IF receiver.err THEN Rejected
                                      ELSE TypedIf(~inferExpr(n.predicate, inside(receiver.type)).err,
                                                   [receiver.type EXCEPT !.kind = "array"])
        [] n.op = "unary"      -> LET child == inferExpr(n.child, ctx)
                                  IN  IF child.err THEN Rejected ELSE inferUnaryType(n.operator, child.type)
        [] n.op \in {"logical", "binary"} ->
                                  LET left  == inferExpr(n.left, ctx)
                                      right == inferExpr(n.right, ctx)
                                  IN  IF left.err \/ right.err THEN Rejected
                                      ELSE inferBinaryType(n.operator, left.type, right.type)
        [] n.op = "call"       -> LET args == all(n.args)
                                  IN  IF AnyFailed(args) THEN Rejected ELSE inferCallType(n.name, TypesOf(args), ctx)
        [] n.op = "methodCall" -> LET args == <<inferExpr(n.receiver, ctx)>> \o all(n.args)
                                  IN  IF AnyFailed(args) THEN Rejected ELSE inferCallType(n.name, TypesOf(args), ctx)

\* CompileExpression of a Variables, which knows the tree and its functions,
\* and that of the package, which knows neither.
CompileOn(n, tree, strict) == inferExpr(n, CheckContext(InferStaticType(tree), DOMAIN GoFunctions, strict))
CompileAlone(n, strict)    == inferExpr(n, CheckContext(unknownType, {}, strict))

=============================================================================
