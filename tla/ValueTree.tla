------------------------------ MODULE ValueTree ------------------------------
(***************************************************************************)
(* The data tree of go-variables as value.go stores it: a Value is null, a *)
(* scalar, a map of Values or a slice of Values.  The recursions of        *)
(* variables.go, parser_file.go and template.go over it are written out    *)
(* here, each as a recursive function on the places it comes to: the       *)
(* numbers of steps along a path, or the paths of a Value.  Module         *)
(* PathTree has the same operations on the tree seen through its paths,    *)
(* and PathsOf takes the one to the other.                                 *)
(***************************************************************************)
EXTENDS Interpolation

NullValue      == [kind |-> Null]
Scalar(x)      == [kind |-> "scalar", scalar |-> x]
ObjectValue(f) == [kind |-> Object, obj |-> f]
ArrayValue(s)  == [kind |-> Array, arr |-> s]
NoValue        == [kind |-> "none"]

\* What range finds in a Value: the children of a container by their segment.
Fields(value) ==
  IF value.kind = Object THEN [s \in {Key(k) : k \in DOMAIN value.obj} |-> value.obj[s.key]]
  ELSE IF value.kind = Array
  THEN [s \in {Index(i - 1) : i \in DOMAIN value.arr} |-> value.arr[s.index + 1]]
  ELSE [s \in {} |-> NullValue]

\* node with child in the slot seg: an assignment to the map or to the slice.
Put(node, seg, child) ==
  IF node.kind = Object
  THEN ObjectValue([k \in DOMAIN node.obj \cup {seg.key} |-> IF k = seg.key THEN child ELSE node.obj[k]])
  ELSE ArrayValue([node.arr EXCEPT ![seg.index + 1] = child])

\* One turn of the loop in getAt.  Where there is no Value nothing is found.
Found(current, seg) ==
  LET fields == Fields(current) IN IF seg \in DOMAIN fields THEN fields[seg] ELSE NoValue

getAt(root, path) ==
  LET current[n \in 0..Len(path)] == IF n = 0 THEN root ELSE Found(current[n - 1], path[n])
  IN  current[Len(path)]

(***************************************************************************)
(* Paths of a Value.  PathsIn goes through them one length after another.  *)
(***************************************************************************)
\* The paths of the children that a Value has at some of its paths.
NextPaths(value, paths) ==
  UNION {{Append(q, s) : s \in DOMAIN Fields(getAt(value, q))} : q \in paths}

PathsIn(value) ==
  LET below[paths \in SUBSET Path] ==
        IF paths = {} THEN {} ELSE paths \cup below[NextPaths(value, paths)]
  IN  below[{<<>>}]

LabelOf(value) == IF value.kind = "scalar" THEN value.scalar ELSE value.kind

PathsOf(value) == [q \in PathsIn(value) |-> LabelOf(getAt(value, q))]

\* What a Value of Go can be: finite, and in each place one of the kinds.
NodeShape(value) ==
  \/ value = NullValue
  \/ value.kind = "scalar" /\ value = Scalar(value.scalar) /\ value.scalar \in Scalars
  \/ /\ value.kind = Object /\ value = ObjectValue([k \in DOMAIN value.obj |-> value.obj[k]])
     /\ DOMAIN value.obj \subseteq Keys
  \/ /\ value.kind = Array /\ Len(value.arr) \in Nat
     /\ value = ArrayValue([i \in 1..Len(value.arr) |-> value.arr[i]])

IsNode(value) ==
  NodeShape(value) /\ \A s \in DOMAIN Fields(value) : Fields(value)[s] # NoValue

IsValue(value) ==
  LET paths == PathsIn(value)
  IN  /\ IsFiniteSet(paths) /\ paths \subseteq Path /\ <<>> \in paths
      /\ \A q \in paths : IsNode(getAt(value, q))
      /\ NextPaths(value, paths) \subseteq paths

(***************************************************************************)
(* The operations.                                                         *)
(***************************************************************************)
emptyContainer(seg) ==
  IF seg.kind = "index" THEN ArrayValue(<<>>) ELSE ObjectValue([k \in {} |-> NullValue])

\* What a call makes of the node it was given a pointer to, and its error.
Outcome(err, node) == [err |-> err, node |-> node]

\* The slice with nulls appended to it until the index exists.
Extended(node, seg) ==
  IF node.kind = Object THEN node
  ELSE ArrayValue(node.arr \o [i \in 1..(seg.index + 1 - Len(node.arr)) |-> NullValue])

\* A mistake: a null on the path is not replaced.
DescendIntoNull(node, seg, next) ==
  LET fields == Fields(node)
  IN  IF seg \in DOMAIN fields THEN fields[seg] ELSE emptyContainer(next)

\* The child that setAt goes on in, which is a copy of the one in the slot.
Descend(node, seg, next) ==
  LET fields == Fields(node)
  IN  IF seg \in DOMAIN fields /\ fields[seg] # NullValue THEN fields[seg]
      ELSE emptyContainer(next)

\* node[n] is what the recursion is given after n segments, outcome[n] what it
\* makes of it; after the last segment that is the value.
setAt(root, path, value) ==
  LET node[n \in 0..(Len(path) - 1)] ==
        IF n = 0 THEN root ELSE Descend(Extended(node[n - 1], path[n]), path[n], path[n + 1])
      outcome[n \in 0..Len(path)] ==
        LET seg  == path[n + 1]
            base == Extended(node[n], seg)
            deep == outcome[n + 1]
        IN  IF n = Len(path) THEN Outcome("ok", value)
            ELSE IF seg.kind = "index" /\ seg.index < 0 THEN Outcome("indexOutOfRange", node[n])
            ELSE IF node[n].kind # emptyContainer(seg).kind THEN Outcome("typeConflict", node[n])
            ELSE IF deep.err # "ok" THEN Outcome(deep.err, base)
            ELSE Outcome("ok", Put(base, seg, deep.node))
  IN  outcome[0]

\* root after a map or a slice inside it has been changed through an alias.
Alias(root, path, value) ==
  LET changed[n \in 0..Len(path)] ==
        IF n = Len(path) THEN value ELSE Put(getAt(root, Prefix(path, n)), path[n + 1], changed[n + 1])
  IN  changed[0]

Without(parent, leaf) ==
  IF leaf.kind = "index" THEN Put(parent, leaf, NullValue)
  ELSE ObjectValue([k \in DOMAIN parent.obj \ {leaf.key} |-> parent.obj[k]])

deleteAt(root, path) ==
  LET parentPath == Front(path)
      leaf       == Last(path)
      parent     == getAt(root, parentPath)
      cut        == Without(parent, leaf)
  IN  IF parent = NoValue THEN Outcome("notFound", root)
      ELSE IF parent.kind # emptyContainer(leaf).kind THEN Outcome("typeConflict", root)
      ELSE IF leaf \notin DOMAIN Fields(parent)
      THEN Outcome(IF leaf.kind = "key" THEN "notFound" ELSE "indexOutOfRange", root)
      ELSE IF parentPath = <<>> THEN Outcome("ok", cut)
      ELSE setAt(Alias(root, parentPath, cut), parentPath, cut)

\* SetValue, which does not descend for the root.
SetInto(root, path, value) ==
  IF path = <<>> THEN Outcome("ok", value) ELSE setAt(root, path, value)

appendAt(root, path, value) ==
  LET target == getAt(root, path)
  IN  IF target = NoValue THEN Outcome("notFound", root)
      ELSE IF target.kind # Array THEN Outcome("typeConflict", root)
      ELSE SetInto(root, path, ArrayValue(Append(target.arr, value)))

mergeNodes(dst, src) ==
  LET merged[q \in PathsIn(src)] ==
        LET old == getAt(dst, q)
            new == getAt(src, q)
        IN  IF old.kind # Object \/ new.kind # Object THEN new
            ELSE ObjectValue([k \in DOMAIN old.obj \cup DOMAIN new.obj |->
                   IF k \notin DOMAIN new.obj THEN old.obj[k]
                   ELSE IF k \notin DOMAIN old.obj THEN new.obj[k]
                   ELSE merged[Append(q, Key(k))]])
  IN  merged[<<>>]

mergeAt(root, path, value) ==
  LET current == getAt(root, path)
  IN  SetInto(root, path, IF current = NoValue THEN value ELSE mergeNodes(current, value))

rootHasValue(value) ==
  /\ value.kind # Null
  /\ value.kind \in {Object, Array} => Fields(value) # [s \in {} |-> NullValue]

IsTemplate(value) == value.kind = "scalar" /\ value.scalar \in Templates

\* NoValue when a reference leads nowhere, which fails the whole evaluation.
evaluateNode(value, env) ==
  LET evaluated[q \in PathsIn(value)] ==
        LET node     == getAt(value, q)
            child(s) == evaluated[Append(q, s)]
        IN  IF IsTemplate(node) THEN getAt(env, Ref[node.scalar])
            ELSE IF \E s \in DOMAIN Fields(node) : child(s) = NoValue THEN NoValue
            ELSE IF node.kind = Object THEN ObjectValue([k \in DOMAIN node.obj |-> child(Key(k))])
            ELSE IF node.kind = Array THEN ArrayValue([i \in DOMAIN node.arr |-> child(Index(i - 1))])
            ELSE node
  IN  evaluated[<<>>]

containsEvaluation(value) == \E q \in PathsIn(value) : IsTemplate(getAt(value, q))

=============================================================================
