---------------------------- MODULE MCExpressions ----------------------------
(* Trees and expressions for module Expressions. *)
EXTENDS Expressions

Num(i)    == IntegerValue(i)
Str(s)    == StringValue(s)
Obj(f)    == ObjectValue(f)
Arr(s)    == ArrayValue(s)
Empty     == Obj([k \in {} |-> NullValue])
OneHalf   == FloatValue(3, 2)

MCWords  == <<"", "a", "aa", "ab", "b", "n", "o", "s", "xs">>
MCDotted == [f \in {"o.a"} |-> <<"o", "a">>]
NoFunctions == [f \in {} |-> 0]

GoType(go)   == [go |-> go]
SliceOf(t)   == [go |-> "slice", elem |-> t]
MapOf(t)     == [go |-> "map", elem |-> t]

MCFunctions ==
  [repeat |-> WithGoFunction(<<GoType("string"), GoType("int")>>, FALSE, GoType("string"), valueResult(Str("aa"))),
   half   |-> WithGoFunction(<<GoType("float")>>, FALSE, GoType("float"), valueResult(OneHalf)),
   total  |-> WithGoFunction(<<SliceOf(GoType("int"))>>, FALSE, GoType("int"), valueResult(Num(3))),
   region |-> WithGoFunction(<<MapOf(GoType("string"))>>, FALSE, GoType("string"), valueResult(Str("a"))),
   any    |-> WithGoFunction(<<GoType("any"), GoType("value")>>, TRUE, GoType("value"), valueResult(NullValue)),
   pick   |-> WithFunction(valueResult(Arr(<<Num(2)>>))),
   warn   |-> WithFunction(Failed)]

(* Trees. *)
Tree(n, s, o, xs) == Obj([n |-> n, s |-> s, o |-> o, xs |-> xs])

MCRoots ==
  { Tree(Num(2), Str("a"), Obj([a |-> Num(1), b |-> Str("b")]),
         Arr(<<Obj([a |-> Num(1)]), Obj([a |-> Num(2), b |-> Str("b")])>>)),
    Tree(Num(0), Str("ab"), Obj([a |-> Obj([a |-> Num(1)])]), Arr(<<Obj([a |-> Num(3)])>>)),
    Obj([s |-> Str(""), o |-> Empty, xs |-> Arr(<<>>)]),
    Tree(OneHalf, NullValue, NullValue, Arr(<<Num(1), Num(2), Num(0)>>)),
    Tree(Num(1), Num(1), Obj([a |-> Arr(<<Num(1), Str("a")>>)]),
         Arr(<<Obj([a |-> Str("b")]), Obj([a |-> OneHalf])>>)),
    Tree(BoolValue(TRUE), Str("b"), Obj([a |-> NullValue]),
         Arr(<<Obj([a |-> Arr(<<Num(1), Num(2)>>)]), Obj([a |-> Arr(<<Num(3), Num(4)>>)])>>)),
    Arr(<<Num(1), Obj([a |-> Num(2)])>>),
    NullValue }

(* Expressions. *)
Lit(v)               == [op |-> "literal", value |-> v]
Id(name)             == [op |-> "identifier", name |-> name]
Dollar               == [op |-> "root"]
List(items)          == [op |-> "array", items |-> items]
Record(items)        == [op |-> "object", items |-> items]
Dot(r, name)         == [op |-> "member", receiver |-> r, name |-> name, optional |-> FALSE]
OptionalDot(r, name) == [op |-> "member", receiver |-> r, name |-> name, optional |-> TRUE]
At(r, i)             == [op |-> "index", receiver |-> r, index |-> i]
Where(r, p)          == [op |-> "filter", receiver |-> r, predicate |-> p]
Unary(o, e)          == [op |-> "unary", operator |-> o, child |-> e]
Binary(o, l, r)      == [op |-> "binary", operator |-> o, left |-> l, right |-> r]
Logical(o, l, r)     == [op |-> "logical", operator |-> o, left |-> l, right |-> r]
Call(name, args)     == [op |-> "call", name |-> name, args |-> args]
Method(r, name, args) == [op |-> "methodCall", receiver |-> r, name |-> name, args |-> args]

One == Lit(Num(1))
A   == Id("a")
Xs  == Id("xs")

Names == {Id("n"), Id("s"), Id("o"), Xs, Dollar}

Indexed ==
  {At(r, Lit(i)) : r \in {Xs, Id("o"), Dollar}, i \in {Num(0), Num(-1), Num(2), Str("a"), OneHalf}}

Members(rs) == {Dot(r, f) : r \in rs, f \in {"a", "n"}} \cup {OptionalDot(r, "b") : r \in rs}

Literals ==
  {At(List(<<Id("n"), Id("s")>>), Lit(i)) : i \in {Num(0), Num(-1), Num(2)}}
  \cup {Dot(Record([a |-> Id("n")]), f) : f \in {"a", "b"}}
  \cup {At(Record([a |-> One]), Lit(Str("a"))), List(<<One, Lit(Str("a"))>>), Dot(List(<<Id("o")>>), "a")}

Operands == {Id("n"), Id("s"), Xs, Dot(Xs, "a"), Dot(At(Xs, Lit(Num(0))), "a"), OptionalDot(Id("o"), "a")}

Operations ==
  {Binary(o, l, r) : o \in {"+", "-", "*", "/", "%", "==", "!=", "<", "<=", ">", ">=", "in"}, l \in Operands,
                     r \in Operands \cup {One, Lit(Num(0)), Lit(Str("a")), Lit(NullValue), Lit(OneHalf)}}
  \cup {Unary(o, e) : o \in {"!", "-"}, e \in Operands \cup {One}}

Predicates ==
  {A, Dot(A, "a"), Unary("!", A), Binary("==", A, One), Binary(">", A, One), Binary("in", A, Dot(Dollar, "xs")),
   Binary(">", Binary("+", A, One), Dot(Dollar, "n"))}

Filters == {Where(r, p) : r \in Names \cup {Dot(Xs, "a"), OptionalDot(Xs, "b")}, p \in Predicates}

(* Paths, operators and filters, without calls: filters are outermost, and    *)
(* only single nodes are indexed, by constants.                               *)
PathPrograms ==
  Names \cup Indexed \cup Literals \cup Operations \cup Filters
  \cup Members(Names \cup Indexed) \cup Members(Members({Id("o"), Xs, Dollar}))

(* Calls: of lists that are projected from the tree or written out, and of    *)
(* the Go functions.                                                          *)
Lists ==
  {Xs, Dot(Xs, "a"), OptionalDot(Xs, "b"), Id("o"), Lit(NullValue), List(<<>>), List(<<Lit(Num(2)), One, One>>),
   List(<<Lit(OneHalf), One>>), List(<<One, Lit(Str("a"))>>), List(<<Lit(BoolValue(TRUE))>>),
   Call("keys", <<Id("o")>>)}

Scalar == {Id("n"), Id("s"), Xs, Dot(Xs, "a"), One, Lit(Str("a")), Lit(NullValue), Lit(OneHalf)}

Unordered == ListFunctions \ {"sort", "sortDesc", "unique", "compact"}

OnLists ==
  {Call(f, <<l>>) : f \in Unordered \cup {"len", "keys", "values", "exists"}, l \in Lists}
  \cup {Call(f, <<l>>) : f \in {"sort", "sortDesc", "unique", "compact"}, l \in {Dot(Xs, "a"), OptionalDot(Xs, "b")}}
  \cup {Method(Method(l, f, <<Lit(Str(field))>>), "first", <<>>) :
          f \in {"sortBy", "sortByDesc"}, l \in {Dot(Dollar, "xs"), Lit(NullValue), Id("s")},
          field \in {"a", "b", "o.a", ""}}
  \cup {Call(f, <<l, v>>) : f \in {"contains", "default", "join"}, l \in Lists \cup {Id("s")}, v \in Scalar}

OnFunctions ==
  {Call(f, <<v>>) : f \in DOMAIN MCFunctions \cup {"len"}, v \in Scalar \cup Lists}
  \cup {Method(v, f, <<w>>) : f \in DOMAIN MCFunctions \cup {"len"}, v \in Scalar, w \in {One, Id("n")}}

Combinations ==
  {Binary(o, Call(f, <<l>>), w) : o \in {"+", "/", "%", "<"}, f \in {"sum", "avg", "max", "first", "len"},
                                  l \in Lists, w \in {One, Lit(OneHalf), Lit(Num(0)), Lit(Str("a"))}}
  \cup {Dot(Call(f, <<l>>), "a") : f \in {"first", "last"}, l \in Lists}
  \cup {Logical(o, Unary("!", l), Binary("<", w, One)) : o \in {"&&", "||"}, l \in Lists, w \in Scalar}

CallPrograms == OnLists \cup OnFunctions \cup Combinations

AllPrograms == PathPrograms \cup CallPrograms

(* A selection from a computed array. *)
ComputedProgram == {Where(Call("sortByDesc", <<Xs, Lit(Str("a"))>>), Binary(">", A, One))}

(* A value that is unknown without a tree, and a default for it.  *)
DefaultProgram == {Binary("+", Call("default", <<Id("s"), One>>), Lit(Str("a")))}

AnyTree   == [tree: BOOLEAN, strict: {FALSE}]
AnyOption == AnyTree \cup [tree: {TRUE}, strict: {TRUE}]
=============================================================================
