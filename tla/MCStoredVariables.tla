-------------------------- MODULE MCStoredVariables --------------------------
(***************************************************************************)
(* A small instance of StoredVariables.                                    *)
(***************************************************************************)
EXTENDS StoredVariables

KA == Key("a")
KB == Key("b")

MCKeys == {"a", "b"}
MCScalars == {"s", "ref a"}
MCTemplates == {"ref a"}
MCRef == [x \in MCTemplates |-> <<KA>>]

Obj(k, v) == ObjectValue([j \in {k} |-> v])

\* Paths through objects, arrays, a gap in an array and a negative index.
MCPaths == {<<>>, <<KA>>, <<KA, Index(1), KB>>, <<Index(1), Index(-1)>>}
MCValues == {NullValue, Obj("b", Scalar("ref a")), ArrayValue(<<NullValue>>)}

=============================================================================
