---------------------------- MODULE MCInterpolate ----------------------------
(***************************************************************************)
(* One goroutine interpolates every tree of four keys that are plain or    *)
(* refer to one another or to a fifth, which is missing, an object, or an  *)
(* array that holds a reference to the fourth: self-references, cycles of  *)
(* two, three and five, and chains of up to five that end in a plain       *)
(* value, in an object or nowhere; and every tree of four keys that are    *)
(* plain or refer to the whole tree, which grow fastest.                   *)
(***************************************************************************)
EXTENDS Variables

MCKeys == {"a", "b", "c", "d", "e"}
MCScalars == {"s", "ref a", "ref b", "ref c", "ref d", "ref e", "ref root"}
MCTemplates == MCScalars \ {"s"}
MCRef == [x \in MCTemplates |->
            CASE x = "ref a" -> <<Key("a")>> [] x = "ref b" -> <<Key("b")>>
              [] x = "ref c" -> <<Key("c")>> [] x = "ref d" -> <<Key("d")>>
              [] x = "ref e" -> <<Key("e")>> [] x = "ref root" -> <<>>]

Nothing == [q \in {} |-> Null]

\* What the fifth key, e, has: nothing at all, an object, an array.
Tails == {Nothing,
          [q \in {<<>>, <<Key("b")>>} |-> IF q = <<>> THEN Object ELSE "s"],
          [q \in {<<>>, <<Index(0)>>} |-> IF q = <<>> THEN Array ELSE "ref d"]}

Tree(f, tail) ==
  LET keys == {<<Key(k)>> : k \in DOMAIN f}
  IN  [q \in {<<>>} \cup keys \cup {<<Key("e")>> \o r : r \in DOMAIN tail} |->
         CASE q = <<>> -> Object
           [] q \in keys -> f[q[1].key]
           [] OTHER -> tail[Tail(q)]]

MCInitialRoots ==
  {Tree(f, Nothing) : f \in [{"a", "b", "c", "d"} -> {"s", "ref root"}]} \cup
  {Tree(("d" :> d) @@ f, tail) :
     f \in [{"a", "b", "c"} -> {"s", "ref a", "ref b", "ref c", "ref e"}],
     d \in {"s", "ref a"}, tail \in Tails}

RootOnly == {<<>>}
NoValues == {}
=============================================================================
