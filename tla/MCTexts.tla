------------------------------ MODULE MCTexts ------------------------------
(***************************************************************************)
(* Small instances of Texts.                                               *)
(***************************************************************************)
EXTENDS Texts

MCKeys == STRING
MCScalars == {Text("x")}
MCTemplates == {}
MCRef == [x \in {} |-> <<>>]

KA == Key("a")
KB == Key("b")

Obj(f) == ObjectValue(f)
Arr(s) == ArrayValue(s)
X == Scalar(Text("x"))
Y == Scalar("1")

(* What is at the root: nothing, something in the way, something to merge with. *)
MCRoots == {Obj([k \in {} |-> X]), X, Obj([a |-> Obj([b |-> X]), b |-> Arr(<<X>>)])}

Options(prefixes, modes, filters, infer) ==
  [prefix: prefixes, mode: modes, refused: filters, infer: infer]

Plain == Options({<<>>}, {"Replace"}, {{}}, {TRUE})

(* Lines that continue, are continued, or both, after nothing, after a comment,  *)
(* or after an escaped backslash; nested, conflicting, padded and invalid paths. *)
Lines == {"", "\\", "  \\", "a=x", "a=x\\", "a.b : 1\\\\", " b=null", "#a\\", "! \\", "=x", "a[1]", "a.b.a 1.5e1"}

Files == UNION {[1..n -> Lines] : n \in 0..3}

Arguments == {"a=x", "a.b=1", "a[1].b=t", "a=null", "a[0]=", "b", "=x", "a..b=x", "b=nan", "[0]=x"}

Lists == UNION {[1..n -> Arguments] : n \in 0..2} \cup {<<"a=null", "a[1]=x", "a[0].b=1">>}

(* Every path of one or two keys of up to two of the characters that matter. *)
Special == {"a", ".", "[", "]", "=", "\\", "\"", "'", " ", "\n", ":", "#", "!"}

WrittenKeys == {""} \cup Special \cup {c \o d : c \in Special, d \in Special}

WrittenPaths ==
  {<<Key(k)>> : k \in WrittenKeys}
  \cup {<<Key(k), s>> : k \in Special, s \in {Index(0), Index(12), KA, Key(" a"), Key("")}}

WrittenSources ==
  {WrittenArgs(path, raw) : path \in WrittenPaths, raw \in {"x", " = ", "\\"}}
  \cup {WrittenProperties(path, raw) : path \in WrittenPaths, raw \in {"x", " = ", "\\"}}

(* Trees whose nodes are filtered, merged and conflict in every way. *)
Values ==
  {Obj([a |-> Arr(<<X, Obj([a |-> X, b |-> Y]), NullValue, Arr(<<X, Y>>)>>), b |-> X]),
   Obj([a |-> Obj([a |-> X])]), Arr(<<X, Arr(<<>>), Y>>), NullValue, Y}

Elements == {<<KA, Index(i)>> : i \in 0..3}

Filters ==
  {{}, {<<>>}, {<<KA>>}, {<<KB>>, <<Index(0)>>}, {<<KA, Index(0)>>, <<KA, Index(3), Index(0)>>},
   {<<KA, Index(0)>>, <<KA, Index(1)>>}, Elements, {<<KA, Index(1), KA>>, <<KA, Index(2)>>}}

Elsewhere == {<<>>, <<KA>>, <<KB, Index(1), KA>>, <<KB, Index(-1)>>}

(* <a x="1"><b>..</b></a>, as mxj gives it, with a list of elements. *)
Document ==
  Obj([k \in {"a"} |->
    Obj([j \in {"-a", "b"} |-> IF j = "b" THEN Arr(<<X, Obj([i \in {"-b", "#text"} |-> X])>>) ELSE Y])])

Calls(sources, options) == [at: {"asked"}, source: sources, options: options]

MCLoads ==
  Calls({Properties(file) : file \in Files} \cup WrittenSources \cup {Unreadable}, Plain)
  \cup Calls({Args(list) : list \in Lists},
             Options({<<>>, <<KB>>}, {"Replace", "DeepMerge"}, {{}}, BOOLEAN))
  \cup Calls({Decoded(value) : value \in Values},
             Options(Elsewhere, {"Replace", "DeepMerge"}, Filters, {FALSE}))
  \cup Calls({XML(Document)}, Options({<<>>}, {"DeepMerge"}, {{}, {<<KA, Key("@a")>>}}, {FALSE}))

(* Words that make operators, postfix operations, literals and numbers, and      *)
(* some that no expression has.                                                  *)
MCVocabularies ==
  {{"a", "-", "!", "*", "+", "in", "||", "&&", "(", ")"},
   {"a", "1", ".", "?.", "[", "]", "?[", "(", ")", ",", "query"},
   {"a", "{", "}", "[", "]", ":", ",", "'a'", "\"a\"", "$", "'}}'", "\"\\\"}}\""},
   {"1", "1.", "1.5e3", "1e", "e", "true", "in", ".", "-", "a", "=", "&", "'", "\"\\d\"", "?", "?["}}

Identifier == Node("identifier", "a", <<>>)
Literals == {Node("literal", "1", <<>>), Node("literal", "\"\\n\"", <<>>), Node("root", "$", <<>>)}

(* Every kind of node over children from nodes. *)
Over(nodes) ==
  LET pairs == nodes \X nodes
  IN  {Node("binary", op, p) : op \in {"||", "&&", "in", "==", "-", "*"}, p \in pairs}
      \cup {Node("unary", op, <<x>>) : op \in {"-", "!"}, x \in nodes}
      \cup {Node(k, "b", <<x>>) : k \in {"member", "optionalMember", "method", "call"}, x \in nodes}
      \cup {Node(k, "", p) : k \in {"index", "filter", "array"}, p \in pairs}
      \cup {Node(k, "b", p) : k \in {"method", "call"}, p \in pairs}
      \cup {Node("object", "", <<Node("entry", "k", <<p[1]>>), Node("entry", "", <<p[2]>>)>>) : p \in pairs}
      \cup {Node("array", "", <<>>), Node("object", "", <<>>), Node("call", "b", <<>>)}

MCTrees == Over({Identifier} \cup Literals) \cup Over({Identifier} \cup Over({Identifier}))

MCSnippets == {"${{", "}}", "{", "}", "a", " ", "'", "\\", "${{a}}"}

(* Nothing, space, and texts whose quotes, braces and placeholders are others'.  *)
MCContexts ==
  {<<"", "">>, <<" ", "\t">>, <<"it's ", "">>, <<"", "\"">>, <<"$ {", "} }}">>}

=============================================================================
