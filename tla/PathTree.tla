------------------------------ MODULE PathTree ------------------------------
(***************************************************************************)
(* The typed data tree of go-variables, seen through its paths.            *)
(*                                                                         *)
(* value.go stores a tree of Value structs.  Here a tree is a function     *)
(* from the paths at which it has a node to what is found there: a scalar, *)
(* or Null, or the mark of a container.  A node's children are not stored  *)
(* in it: they are the longer paths of the same function.  This makes the  *)
(* operations of variables.go single definitions instead of recursions, so *)
(* they can be proved about; module ValueTree writes the recursions of the *)
(* source out, and is proved to compute the same trees.                    *)
(***************************************************************************)
EXTENDS Integers, Sequences, FiniteSets, SequencesExt

CONSTANTS
  Keys,      \* the object keys
  Scalars    \* the bool, string and number values

Null   == "null"
Object == "object"
Array  == "array"
Labels == Scalars \cup {Null, Object, Array}

ASSUME ScalarsAssumption == Scalars \cap {Null, Object, Array} = {}

(***************************************************************************)
(* Paths.  An index is any integer: Index(-1) can be built, though never   *)
(* parsed.                                                                 *)
(***************************************************************************)
Key(k)   == [kind |-> "key", key |-> k]
Index(i) == [kind |-> "index", index |-> i]
Segment  == [kind: {"key"}, key: Keys] \cup [kind: {"index"}, index: Int]
Path     == Seq(Segment)

\* The container a segment is looked up in, which is also the one that is
\* created for it when the path has to be extended.
NewContainer(seg) == IF seg.kind = "index" THEN Array ELSE Object

Prefix(p, n) == SubSeq(p, 1, n)
Rest(p, q)   == SubSeq(q, Len(p) + 1, Len(q))

(***************************************************************************)
(* Trees.                                                                  *)
(***************************************************************************)
Leaf(x) == [q \in {<<>>} |-> x]
EmptyObject == Leaf(Object)

Under(t, p) == {q \in DOMAIN t : IsPrefix(p, q)}

\* The map keys or slice indexes in use at p.
Slots(t, p) == {q[Len(p) + 1] : q \in Under(t, p) \ {p}}

Sub(t, p) == [r \in {Rest(p, q) : q \in Under(t, p)} |-> t[p \o r]]

\* t with v in the place of whatever it has at and below p.
Graft(t, p, v) ==
  LET grafted == {p \o r : r \in DOMAIN v}
  IN  [q \in (DOMAIN t \ Under(t, p)) \cup grafted |->
         IF q \in grafted THEN v[Rest(p, q)] ELSE t[q]]

Prune(t, p) == [q \in DOMAIN t \ Under(t, p) |-> t[q]]

\* What a Value can be: the slots of a container have its own kind, those of
\* an array are contiguous from 0, and nothing hangs below a leaf.
SlotsOK(label, slots) ==
  /\ label = Object => \A s \in slots : s.kind = "key"
  /\ label = Array => \A s \in slots : /\ s.kind = "index" /\ s.index >= 0
                                       /\ \A j \in 0..s.index : Index(j) \in slots
  /\ label \notin {Object, Array} => slots = {}

WellFormed(t) ==
  /\ t \in [DOMAIN t -> Labels]
  /\ DOMAIN t \subseteq Path
  /\ IsFiniteSet(DOMAIN t)
  /\ <<>> \in DOMAIN t
  /\ \A q \in DOMAIN t : \A n \in 0..Len(q) : Prefix(q, n) \in DOMAIN t
  /\ \A q \in DOMAIN t : SlotsOK(t[q], Slots(t, q))

(***************************************************************************)
(* Reading: getAt and what the read methods answer from it.                *)
(***************************************************************************)
Exists(t, p) == p \in DOMAIN t

IsContainer(t, p) == Exists(t, p) /\ t[p] \in {Object, Array}

Length(t, p) == Cardinality(Slots(t, p))

(***************************************************************************)
(* setAt.  It walks down the path; the node it stands on before segment n  *)
(* is the existing one, or the container just created for a node that is   *)
(* missing or, below the root, Null.                                       *)
(***************************************************************************)
\* A mistake: a null root is replaced as well.
StandingOnNullRoot(t, p, n) ==
  LET q == Prefix(p, n - 1)
  IN  IF q \in DOMAIN t /\ t[q] # Null THEN t[q] ELSE NewContainer(p[n])

Standing(t, p, n) ==
  LET q == Prefix(p, n - 1)
  IN  IF q \in DOMAIN t /\ (n = 1 \/ t[q] # Null) THEN t[q] ELSE NewContainer(p[n])

\* A mistake: an index of 0 is taken to be out of range.
StepErrorAtZero(t, p, n) ==
  IF p[n].kind = "index" /\ p[n].index <= 0 THEN "indexOutOfRange"
  ELSE IF Standing(t, p, n) # NewContainer(p[n]) THEN "typeConflict"
  ELSE "ok"

StepError(t, p, n) ==
  IF p[n].kind = "index" /\ p[n].index < 0 THEN "indexOutOfRange"
  ELSE IF Standing(t, p, n) # NewContainer(p[n]) THEN "typeConflict"
  ELSE "ok"

SetSucceeds(t, p) == \A n \in 1..Len(p) : StepError(t, p, n) = "ok"

SetError(t, p) ==
  IF SetSucceeds(t, p) THEN "ok"
  ELSE LET failing == {n \in 1..Len(p) : StepError(t, p, n) # "ok"}
       IN  StepError(t, p, CHOOSE n \in failing : \A m \in failing : n <= m)

\* A mistake: the index is filled without those before it.
PaddingOnlyIndex(p, n) == IF p[n].kind = "index" THEN {Prefix(p, n)} ELSE {}

\* A mistake: one element too many.
PaddingOneMore(p, n) ==
  IF p[n].kind = "index" THEN {Append(Prefix(p, n - 1), Index(j)) : j \in 0..(p[n].index + 1)}
  ELSE {}

\* The nulls appended at segment n so that its index exists.
Padding(p, n) ==
  IF p[n].kind = "index" THEN {Append(Prefix(p, n - 1), Index(j)) : j \in 0..p[n].index}
  ELSE {}

Opened(t, p) ==
  LET onPath == {Prefix(p, n) : n \in 0..(Len(p) - 1)}
      padded == UNION {Padding(p, n) : n \in 1..Len(p)}
  IN  [q \in DOMAIN t \cup onPath \cup padded |->
         IF q \in onPath THEN NewContainer(p[Len(q) + 1])
         ELSE IF q \in DOMAIN t THEN t[q]
         ELSE Null]

\* A mistake: a child is written back before the recursion has succeeded.
PaddedRootEagerly(t, p) ==
  IF StepError(t, p, 1) # "ok" THEN t
  ELSE LET first == Prefix(p, 1)
       IN  [q \in DOMAIN t \cup {first} |-> IF q \in DOMAIN t THEN t[q] ELSE NewContainer(p[2])]

\* A failing setAt gives up its work on every level but one: the root array,
\* which it extends in place before it descends.
PaddedRoot(t, p) ==
  IF StepError(t, p, 1) # "ok" THEN t
  ELSE LET padded == Padding(p, 1)
       IN  [q \in DOMAIN t \cup padded |-> IF q \in DOMAIN t THEN t[q] ELSE Null]

SetAt(t, p, v) ==
  IF SetSucceeds(t, p) THEN Graft(Opened(t, p), p, v) ELSE PaddedRoot(t, p)

(***************************************************************************)
(* deleteAt: it changes the parent in place, then writes the parent back   *)
(* through setAt, whose error it returns.                                  *)
(***************************************************************************)
DeleteCheck(t, p) ==
  LET parent == Front(p)
      leaf   == Last(p)
  IN  IF ~Exists(t, parent) THEN "notFound"
      ELSE IF t[parent] # NewContainer(leaf) THEN "typeConflict"
      ELSE IF Exists(t, p) THEN "ok"
      ELSE IF leaf.kind = "key" THEN "notFound"
      ELSE "indexOutOfRange"

\* A mistake: deleting an element moves the ones behind it.
CutShifting(t, p) ==
  IF Last(p).kind = "key" THEN Prune(t, p)
  ELSE LET parent == Front(p)
           i      == Last(p).index
           from(q) == IF IsPrefix(parent, q) /\ q # parent /\ q[Len(p)].index >= i
                      THEN [q EXCEPT ![Len(p)] = Index(q[Len(p)].index + 1)] ELSE q
       IN  [q \in {q \in DOMAIN t : from(q) \in DOMAIN t} |-> t[from(q)]]

Cut(t, p) == IF Last(p).kind = "key" THEN Prune(t, p) ELSE Graft(t, p, Leaf(Null))

DeleteAt(t, p) ==
  LET parent == Front(p)
  IN  IF parent = <<>> THEN Cut(t, p) ELSE SetAt(Cut(t, p), parent, Sub(Cut(t, p), parent))

(***************************************************************************)
(* AppendValue: a new slice with the value at its end, set back at p.      *)
(***************************************************************************)
AppendCheck(t, p) ==
  IF ~Exists(t, p) THEN "notFound"
  ELSE IF t[p] # Array THEN "typeConflict"
  ELSE "ok"

\* A mistake: the last element is overwritten.
AppendedOverLast(t, p, v) ==
  Graft(Sub(t, p), <<Index(IF Length(t, p) = 0 THEN 0 ELSE Length(t, p) - 1)>>, v)

Appended(t, p, v) == Graft(Sub(t, p), <<Index(Length(t, p))>>, v)

(***************************************************************************)
(* mergeNodes: objects are merged key by key; where either side is         *)
(* anything else, the source wins.  A node of dst survives iff every node  *)
(* of src above it, or at it, is an object met by an object.               *)
(***************************************************************************)
Survives(dst, src, q) ==
  \A n \in 0..Len(q) :
    LET r == Prefix(q, n) IN r \in DOMAIN src => src[r] = Object /\ dst[r] = Object

\* A mistake: what was there wins over what is loaded.
MergeNodesKeeping(dst, src) ==
  [q \in DOMAIN src \cup {q \in DOMAIN dst : Survives(dst, src, q)} |->
     IF q \in DOMAIN dst THEN dst[q] ELSE src[q]]

MergeNodes(dst, src) ==
  [q \in DOMAIN src \cup {q \in DOMAIN dst : Survives(dst, src, q)} |->
     IF q \in DOMAIN src THEN src[q] ELSE dst[q]]

MergeAt(t, p, v) ==
  IF p = <<>> THEN MergeNodes(t, v)
  ELSE IF Exists(t, p) THEN SetAt(t, p, MergeNodes(Sub(t, p), v))
  ELSE SetAt(t, p, v)

\* rootHasValue: what ErrorOnConflict takes for an occupied root.
RootHasValue(t) ==
  t[<<>>] # Null /\ (IsContainer(t, <<>>) => Slots(t, <<>>) # {})

=============================================================================
