----------------------------- MODULE MCVariables -----------------------------
(***************************************************************************)
(* Small instances of Variables: two keys, one plain scalar, and templates *)
(* that refer to the keys.                                                 *)
(***************************************************************************)
EXTENDS Variables

KA == Key("a")
KB == Key("b")

MCKeys == {"a", "b"}
MCScalars == {"s", "ref a", "ref b"}
MCTemplates == {"ref a", "ref b"}
MCRef == [x \in MCTemplates |-> IF x = "ref a" THEN <<KA>> ELSE <<KB>>]

Obj(key, t) == Graft(EmptyObject, <<key>>, t)
Arr(t) == Graft(Leaf(Array), <<Index(0)>>, t)

\* Paths through objects, arrays, a gap in an array, and a negative index below
\* the root array and below a key.
OpPaths == {<<>>, <<KA>>, <<KA, KB>>, <<KA, Index(0), KB>>, <<Index(1)>>, <<Index(2), Index(-1)>>}
OpValues == {Leaf("s"), Leaf(Null), Obj(KB, Leaf("s")), Arr(Leaf(Null))}

MCInitialRoots == {EmptyObject}

\* The tree of New, and one with an object inside an array.
OpInitialRoots == {EmptyObject, Obj(KA, Arr(Obj(KB, Leaf("s"))))}

SharedPaths == {<<>>, <<KA>>, <<KB>>}
SharedValues == {Leaf("s"), Leaf("ref b"), Obj(KA, Leaf("s"))}

=============================================================================
