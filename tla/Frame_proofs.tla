----------------------------- MODULE Frame_proofs -----------------------------
(***************************************************************************)
(* What the operations of variables.go do to the rest of the tree, for     *)
(* trees, paths and values of any size: each call changes what it is asked *)
(* to change and nothing else, and a call that fails changes nothing.      *)
(***************************************************************************)
EXTENDS Variables_proofs

(***************************************************************************)
(* Setting.  What a set at p leaves alone: u has the nodes of t outside p, *)
(* but for nulls below the root that have become the containers p needs on *)
(* its way, and nothing new but such containers and the nulls before p in  *)
(* an array.                                                               *)
(***************************************************************************)
OpenedFor(u, q, p) == q \in Above(p) /\ u[q] = NewContainer(p[Len(q) + 1])

KeptOutside(t, u, p) ==
  /\ \A q \in DOMAIN t \ Under(t, p) :
       q \in DOMAIN u /\ (u[q] = t[q] \/ (t[q] = Null /\ q # <<>> /\ OpenedFor(u, q, p)))
  /\ \A q \in DOMAIN u \ (Under(u, p) \cup DOMAIN t) :
       OpenedFor(u, q, p) \/ (q \in Before(p) /\ u[q] = Null)

\* What is padded at segment n is before p, or on the way to it, or p.
LEMMA PaddedWhere ==
  ASSUME NEW p \in Path, NEW n \in 1..Len(p), NEW q \in Padding(p, n)
  PROVE  q \in Before(p) \/ q \in Above(p) \/ q = p
<1>1. p[n].kind = "index" /\ p[n] \in Segment
  BY PaddingNode, PathLen
<1>2. PICK j \in 0..p[n].index : q = Append(Prefix(p, n - 1), Index(j))
  BY PaddingNode
<1>3. p[n].index \in Int /\ p[n] = Index(p[n].index)
  BY <1>1, SegmentKinds
<1>4. CASE j < p[n].index
  <2>1. j \in 0..(p[n].index - 1)
    BY <1>3, <1>4
  <2> QED BY <1>1, <1>2, <2>1 DEF Before
<1>5. CASE j = p[n].index /\ n # Len(p)
  <2>1. q = Prefix(p, n)
    BY <1>2, <1>3, <1>5, PrefixStep
  <2>2. n \in 0..(Len(p) - 1)
    BY <1>5, PathLen
  <2> QED BY <2>1, <2>2 DEF Above
<1>6. CASE j = p[n].index /\ n = Len(p)
  BY <1>2, <1>3, <1>6, PrefixStep, WholePrefix
<1> QED BY <1>3, <1>4, <1>5, <1>6

\* setAt needs the container at the root that the first segment is looked up in.
LEMMA RootStands ==
  ASSUME NEW t, WellFormed(t), NEW p \in Path, p # <<>>, SetSucceeds(t, p)
  PROVE  t[<<>>] # Null
<1>1. 1 \in 1..Len(p)
  BY PathLen, EmptyPath
<1>2. Standing(t, p, 1) = NewContainer(p[1])
  BY <1>1, StepFits DEF SetSucceeds
<1>3. Prefix(p, 1 - 1) = <<>> /\ <<>> \in DOMAIN t
  BY WholePrefix DEF WellFormed
<1>4. Standing(t, p, 1) = t[<<>>]
  BY <1>3 DEF Standing
<1> QED BY <1>2, <1>4, ContainerLabels

LEMMA OpenedKeeps ==
  ASSUME NEW t, WellFormed(t), NEW p \in Path, SetSucceeds(t, p)
  PROVE  /\ \A q \in DOMAIN t :
              \/ Opened(t, p)[q] = t[q]
              \/ t[q] = Null /\ q # <<>> /\ OpenedFor(Opened(t, p), q, p)
         /\ \A q \in DOMAIN Opened(t, p) \ DOMAIN t :
              \/ OpenedFor(Opened(t, p), q, p)
              \/ q \in Before(p) \cup {p} /\ Opened(t, p)[q] = Null
<1> DEFINE o == Opened(t, p)
           padded == UNION {Padding(p, n) : n \in 1..Len(p)}
<1>1. \A q \in DOMAIN t : q \in DOMAIN o /\ (t[q] # Null => o[q] = t[q])
  BY OpenedDomain
<1>2. o = [x \in DOMAIN t \cup Above(p) \cup padded |->
             IF x \in Above(p) THEN NewContainer(p[Len(x) + 1])
             ELSE IF x \in DOMAIN t THEN t[x] ELSE Null]
  BY DEF Opened, Above
<1> HIDE DEF o, padded
<1>3. ASSUME NEW q \in DOMAIN o, q \in Above(p) PROVE OpenedFor(o, q, p)
  BY <1>2, <1>3 DEF OpenedFor
<1>4. ASSUME NEW q \in DOMAIN o, q \notin Above(p)
      PROVE  o[q] = IF q \in DOMAIN t THEN t[q] ELSE Null
  BY <1>2, <1>4
<1>5. ASSUME NEW q \in DOMAIN t, t[q] = Null, q \in Above(p) PROVE q # <<>>
  <2>1. p # <<>>
    BY <1>5, EmptyPath DEF Above
  <2> QED BY <1>5, <2>1, RootStands
<1>6. ASSUME NEW q \in DOMAIN o, q \notin DOMAIN t, q \notin Above(p)
      PROVE  q \in Before(p) \cup {p}
  <2>1. PICK n \in 1..Len(p) : q \in Padding(p, n)
    BY <1>2, <1>6 DEF padded
  <2> QED BY <1>6, <2>1, PaddedWhere
<1>7. \A q \in DOMAIN t : o[q] = t[q] \/ (t[q] = Null /\ q # <<>> /\ OpenedFor(o, q, p))
  BY <1>1, <1>3, <1>4, <1>5
<1>8. \A q \in DOMAIN o \ DOMAIN t :
        OpenedFor(o, q, p) \/ (q \in Before(p) \cup {p} /\ o[q] = Null)
  BY <1>3, <1>4, <1>6
<1> QED BY <1>7, <1>8 DEF o

LEMMA GraftedIsThere ==
  ASSUME NEW t, Rooted(t), NEW v, Rooted(v), NEW p \in Path, Rooted(Graft(t, p, v))
  PROVE  Sub(Graft(t, p, v), p) = v
<1> DEFINE u == Graft(t, p, v)
<1>1. \A r \in Path : p \o r \in Path /\ IsPrefix(p, p \o r) /\ Rest(p, p \o r) = r
  BY Joined
<1>2. /\ \A r \in Path : p \o r \in DOMAIN u <=> r \in DOMAIN v
      /\ \A r \in Path : p \o r \in DOMAIN u => u[p \o r] = v[r]
  BY <1>1, GraftDomain
<1> HIDE DEF u
<1>3. /\ DOMAIN Sub(u, p) \subseteq Path
      /\ \A r \in Path : r \in DOMAIN Sub(u, p) <=> p \o r \in DOMAIN u
      /\ \A r \in DOMAIN Sub(u, p) : Sub(u, p)[r] = u[p \o r]
  BY SubDomain DEF u
<1>4. DOMAIN v \subseteq Path /\ v = [r \in DOMAIN v |-> v[r]]
  BY DEF Rooted
<1>5. DOMAIN Sub(u, p) = DOMAIN v /\ \A r \in DOMAIN v : Sub(u, p)[r] = v[r]
  BY <1>2, <1>3, <1>4
<1>6. Sub(u, p) = [r \in DOMAIN Sub(u, p) |-> Sub(u, p)[r]]
  BY SubIsFunction
<1> QED BY <1>4, <1>5, <1>6 DEF u

LEMMA SetAtGives ==
  ASSUME NEW t, WellFormed(t), NEW v, WellFormed(v), NEW p \in Path, SetSucceeds(t, p)
  PROVE  Sub(SetAt(t, p, v), p) = v /\ KeptOutside(t, SetAt(t, p, v), p) /\ p \in DOMAIN SetAt(t, p, v)
<1> DEFINE o == Opened(t, p)
           u == SetAt(t, p, v)
<1>1. u = Graft(o, p, v)
  BY DEF SetAt
<1>2. WellFormed(o) /\ PlaceFor(o, p)
  BY OpenedWellFormed
<1>3. WellFormed(u) /\ p \in DOMAIN u
  BY <1>1, <1>2, GraftWellFormed
<1>4. Rooted(o) /\ Rooted(v) /\ Rooted(u) /\ Rooted(t) /\ DOMAIN t \subseteq Path
  BY <1>2, <1>3, WellFormedChildren DEF Rooted
<1>5. /\ DOMAIN t \subseteq DOMAIN o
      /\ \A q \in DOMAIN t : o[q] = t[q] \/ (t[q] = Null /\ q # <<>> /\ OpenedFor(o, q, p))
      /\ \A q \in DOMAIN o \ DOMAIN t :
           OpenedFor(o, q, p) \/ (q \in Before(p) \cup {p} /\ o[q] = Null)
  BY OpenedDomain, OpenedKeeps
<1> HIDE DEF o, u
<1>6. Sub(u, p) = v
  BY <1>1, <1>4, GraftedIsThere
<1>7. DOMAIN u \subseteq Path /\ \A q \in Path : ~IsPrefix(p, q) =>
        /\ q \in DOMAIN u <=> q \in DOMAIN o
        /\ q \in DOMAIN u => u[q] = o[q]
  BY <1>1, <1>4, GraftDomain
<1>8. IsPrefix(p, p)
  BY PrefixSelf
<1>9. ASSUME NEW q \in DOMAIN u, ~IsPrefix(p, q)
      PROVE  q \in DOMAIN o /\ q # p /\ (OpenedFor(o, q, p) => OpenedFor(u, q, p))
  BY <1>7, <1>8, <1>9 DEF OpenedFor
<1>10. ASSUME NEW q \in DOMAIN t, ~IsPrefix(p, q)
       PROVE  q \in DOMAIN u /\ (u[q] = t[q] \/ (t[q] = Null /\ q # <<>> /\ OpenedFor(u, q, p)))
  BY <1>4, <1>5, <1>7, <1>9, <1>10
<1>11. ASSUME NEW q \in DOMAIN u, q \notin DOMAIN t, ~IsPrefix(p, q)
       PROVE  OpenedFor(u, q, p) \/ (q \in Before(p) /\ u[q] = Null)
  BY <1>5, <1>7, <1>9, <1>11
<1>12. KeptOutside(t, u, p)
  BY <1>10, <1>11 DEF KeptOutside, Under
<1> QED BY <1>3, <1>6, <1>12 DEF u

(***************************************************************************)
(* Setting at a path that exists opens nothing, and setting what is there  *)
(* changes nothing: the write-back of deleteAt and of mergeValue.          *)
(***************************************************************************)
LEMMA OpenedExisting ==
  ASSUME NEW t, WellFormed(t), NEW p \in DOMAIN t
  PROVE  Opened(t, p) = t
<1> DEFINE o == Opened(t, p)
<1>1. Rooted(t) /\ ChildrenFit(t) /\ p \in Path /\ SetSucceeds(t, p)
  BY WellFormedChildren, ExistingSucceeds DEF Rooted
<1>2. /\ DOMAIN t \subseteq DOMAIN o
      /\ \A n \in 1..Len(p) : o[Prefix(p, n - 1)] = NewContainer(p[n])
      /\ \A q \in DOMAIN o :
           \/ q \in DOMAIN t
           \/ \E n \in 1..Len(p) : q = Prefix(p, n - 1) \/ q \in Padding(p, n)
      /\ \A q \in DOMAIN t : t[q] # Null => o[q] = t[q]
      /\ \A q \in DOMAIN t : o[q] = t[q] \/ (t[q] = Null /\ q \in Above(p))
  BY <1>1, OpenedDomain, OpenedKeeps DEF OpenedFor
<1>3. ASSUME NEW n \in 1..Len(p)
      PROVE  /\ Prefix(p, n - 1) \in Path /\ Prefix(p, n) \in DOMAIN t
             /\ p[n] \in Segment /\ Prefix(p, n) = Append(Prefix(p, n - 1), p[n])
             /\ Holds(t, Prefix(p, n - 1), p[n])
  <2>1. n \in 0..Len(p)
    BY <1>1, PathLen
  <2>2. Prefix(p, n) \in DOMAIN t
    BY <1>1, <2>1 DEF Rooted
  <2>3. Prefix(p, n - 1) \in Path /\ p[n] \in Segment /\ Prefix(p, n) = Append(Prefix(p, n - 1), p[n])
    BY <1>1, PrefixStep
  <2> QED BY <1>1, <2>2, <2>3 DEF ChildrenFit
<1>4. ASSUME NEW n \in 1..Len(p), NEW q \in Padding(p, n) PROVE q \in DOMAIN t
  <2>1. p[n].kind = "index"
    BY <1>1, PaddingNode
  <2>2. PICK j \in 0..p[n].index : q = Append(Prefix(p, n - 1), Index(j))
    BY <1>1, PaddingNode
  <2>3. p[n].index \in Int /\ p[n] = Index(p[n].index)
    BY <1>3, <2>1, SegmentKinds
  <2>4. CASE j < p[n].index
    BY <1>3, <2>1, <2>2, <2>4 DEF Holds
  <2>5. CASE j = p[n].index
    BY <1>3, <2>2, <2>3, <2>5
  <2> QED BY <2>3, <2>4, <2>5
<1>5. DOMAIN o = DOMAIN t
  BY <1>2, <1>3, <1>4 DEF Holds
<1>6. ASSUME NEW q \in DOMAIN t PROVE o[q] = t[q]
  <2> SUFFICES ASSUME t[q] = Null, q \in Above(p) PROVE FALSE
    BY <1>2
  <2>1. PICK n \in 0..(Len(p) - 1) : q = Prefix(p, n)
    BY DEF Above
  <2>2. n + 1 \in 1..Len(p) /\ (n + 1) - 1 = n
    BY <1>1, PathLen
  <2>3. Holds(t, q, p[n + 1])
    BY <1>3, <2>1, <2>2
  <2> QED BY <2>3, ContainerLabels DEF Holds
<1>7. Rooted(o)
  BY <1>1, OpenedWellFormed, WellFormedChildren
<1> HIDE DEF o
<1>8. o = t
  BY <1>1, <1>5, <1>6, <1>7, SameTree
<1> QED BY <1>8 DEF o

LEMMA SetExisting ==
  ASSUME NEW t, WellFormed(t), NEW p \in DOMAIN t, NEW v
  PROVE  SetAt(t, p, v) = Graft(t, p, v)
<1>1. SetSucceeds(t, p) /\ Opened(t, p) = t
  BY ExistingSucceeds, OpenedExisting
<1> QED BY <1>1 DEF SetAt

LEMMA SetBack ==
  ASSUME NEW t, WellFormed(t), NEW p \in DOMAIN t
  PROVE  SetAt(t, p, Sub(t, p)) = t
<1> DEFINE v == Sub(t, p)
           u == Graft(t, p, v)
<1>1. p \in Path /\ Rooted(t) /\ WellFormed(v) /\ PlaceFor(t, p) /\ DOMAIN t \subseteq Path
  BY SubWellFormed, ExistingPlace, WellFormedChildren DEF Rooted
<1>2. Rooted(v) /\ Rooted(u)
  BY <1>1, GraftWellFormed, WellFormedChildren
<1>3. /\ \A r \in Path : r \in DOMAIN v <=> p \o r \in DOMAIN t
      /\ \A r \in DOMAIN v : v[r] = t[p \o r]
  BY <1>1, SubDomain
<1> HIDE DEF v
<1>4. /\ \A q \in Path : q \in DOMAIN u <=>
              IF IsPrefix(p, q) THEN Rest(p, q) \in DOMAIN v ELSE q \in DOMAIN t
      /\ DOMAIN u \subseteq Path
      /\ \A q \in DOMAIN u : u[q] = IF IsPrefix(p, q) THEN v[Rest(p, q)] ELSE t[q]
  BY <1>1, <1>2, GraftDomain
<1> HIDE DEF u
<1>5. \A q \in Path : IsPrefix(p, q) => Rest(p, q) \in Path /\ p \o Rest(p, q) = q
  BY <1>1, RestOf
<1>6. ASSUME NEW q \in Path
      PROVE  (q \in DOMAIN u <=> q \in DOMAIN t) /\ (q \in DOMAIN u => u[q] = t[q])
  <2>1. CASE IsPrefix(p, q)
    <3>1. Rest(p, q) \in DOMAIN v <=> q \in DOMAIN t
      BY <1>3, <1>5, <2>1
    <3>2. Rest(p, q) \in DOMAIN v => v[Rest(p, q)] = t[q]
      BY <1>3, <1>5, <2>1
    <3> QED BY <1>4, <2>1, <3>1, <3>2
  <2>2. CASE ~IsPrefix(p, q)
    BY <1>4, <2>2
  <2> QED BY <2>1, <2>2
<1>7. u = t
  BY <1>1, <1>2, <1>4, <1>6, SameTree
<1> QED BY <1>7, SetExisting DEF u, v

(***************************************************************************)
(* Deleting.                                                               *)
(***************************************************************************)
LEMMA DeleteGives ==
  ASSUME NEW t, WellFormed(t), NEW p \in Path, p # <<>>, DeleteCheck(t, p) = "ok"
  PROVE  /\ KeptOutside(t, DeleteAt(t, p), p)
         /\ Under(DeleteAt(t, p), p) = {q \in {p} : Last(p).kind = "index"}
<1> DEFINE c == Cut(t, p)
<1>1. p \in DOMAIN t /\ Last(p) \in Segment /\ Front(p) \in Path
  BY CheckedDelete, FrontLast
<1>2. WellFormed(c) /\ Front(p) \in DOMAIN c
  BY <1>1, CutWellFormed
<1>3. DeleteAt(t, p) = c
  <2>1. Front(p) # <<>> => SetAt(c, Front(p), Sub(c, Front(p))) = c
    BY <1>2, SetBack
  <2> QED BY <2>1 DEF DeleteAt
<1>4. CASE Last(p).kind = "key"
  <2>1. DOMAIN c = DOMAIN t \ Under(t, p) /\ \A q \in DOMAIN c : c[q] = t[q]
    BY <1>4 DEF Cut, Prune
  <2> HIDE DEF c
  <2>2. Under(c, p) = {}
    BY <2>1 DEF Under
  <2>3. KeptOutside(t, c, p)
    BY <2>1 DEF KeptOutside
  <2> QED BY <1>3, <1>4, <2>2, <2>3
<1>5. CASE Last(p).kind = "index"
  <2> DEFINE v == Leaf(Null)
  <2>1. c = Graft(t, p, v)
    BY <1>5 DEF Cut
  <2>2. Rooted(v) /\ Rooted(t) /\ DOMAIN v = {<<>>} /\ DOMAIN t \subseteq Path
    BY LeafWellFormed, WellFormedChildren, ContainerLabels DEF Leaf, Rooted
  <2> HIDE DEF c, v
  <2>3. /\ \A q \in Path : q \in DOMAIN c <=>
              IF IsPrefix(p, q) THEN Rest(p, q) \in DOMAIN v ELSE q \in DOMAIN t
        /\ DOMAIN c \subseteq Path
        /\ \A q \in DOMAIN c : c[q] = IF IsPrefix(p, q) THEN v[Rest(p, q)] ELSE t[q]
    BY <2>1, <2>2, GraftDomain
  <2>4. \A q \in Path : IsPrefix(p, q) => (Rest(p, q) = <<>> <=> q = p)
    <3>1. \A q \in Path : IsPrefix(p, q) => p \o Rest(p, q) = q
      BY RestOf
    <3> QED BY <3>1, JoinEmpty, PrefixSelf
  <2>5. \A q : q \in Under(c, p) <=> q = p
    BY <2>2, <2>3, <2>4, PrefixSelf DEF Under
  <2>6. Under(c, p) = {q \in {p} : Last(p).kind = "index"}
    BY <1>5, <2>5
  <2>7. KeptOutside(t, c, p)
    BY <2>2, <2>3 DEF KeptOutside, Under
  <2> QED BY <1>3, <2>6, <2>7
<1> QED BY <1>1, <1>4, <1>5, SegmentKinds

(***************************************************************************)
(* Appending.                                                              *)
(***************************************************************************)
LEMMA AppendGives ==
  ASSUME NEW t, WellFormed(t), NEW p \in DOMAIN t, t[p] = Array, NEW v, WellFormed(v)
  PROVE  LET u == SetAt(t, p, Appended(t, p, v))
         IN  /\ \A q \in DOMAIN t : q \in DOMAIN u /\ u[q] = t[q]
             /\ Sub(u, Append(p, Index(Length(t, p)))) = v
<1> DEFINE seg  == Index(Length(t, p))
           part == Sub(t, p)
           a    == Appended(t, p, v)
           u    == SetAt(t, p, a)
<1>1. /\ p \in Path /\ Rooted(t) /\ DOMAIN t \subseteq Path /\ WellFormed(part) /\ Rooted(part)
      /\ PlaceFor(t, p) /\ Rooted(v) /\ WellFormed(a) /\ Rooted(a)
  BY SubWellFormed, AppendedWellFormed, ExistingPlace, WellFormedChildren DEF Rooted
<1>2. Length(t, p) \in Nat /\ seg \in Segment
  BY <1>1, SlotsFinite, IndexSegment
<1>3. Append(p, seg) \notin DOMAIN t
  BY <1>1, <1>2, ArrayLength, SlotIsChild
<1>4. <<seg>> \in Path /\ Len(<<seg>>) = 1 /\ p \o <<seg>> = Append(p, seg)
  BY <1>1, <1>2, OneSegment
<1>5. /\ \A r \in Path : r \in DOMAIN part <=> p \o r \in DOMAIN t
      /\ \A r \in DOMAIN part : part[r] = t[p \o r]
      /\ DOMAIN part \subseteq Path
  BY <1>1, SubDomain
<1>6. a = Graft(part, <<seg>>, v)
  BY DEF Appended
<1>7. u = Graft(t, p, a) /\ Rooted(u)
  BY <1>1, SetExisting, GraftWellFormed, WellFormedChildren
<1> HIDE DEF seg, part, a, u
<1>8. /\ \A r \in Path : r \in DOMAIN a <=>
              IF IsPrefix(<<seg>>, r) THEN Rest(<<seg>>, r) \in DOMAIN v ELSE r \in DOMAIN part
      /\ \A r \in DOMAIN a : a[r] = IF IsPrefix(<<seg>>, r) THEN v[Rest(<<seg>>, r)] ELSE part[r]
  BY <1>1, <1>4, <1>6, GraftDomain, ZenonT(40)
<1>9. /\ \A q \in Path : q \in DOMAIN u <=>
              IF IsPrefix(p, q) THEN Rest(p, q) \in DOMAIN a ELSE q \in DOMAIN t
      /\ \A q \in DOMAIN u : u[q] = IF IsPrefix(p, q) THEN a[Rest(p, q)] ELSE t[q]
  BY <1>1, <1>7, GraftDomain
<1>10. ASSUME NEW r \in DOMAIN part PROVE ~IsPrefix(<<seg>>, r)
  <2> SUFFICES ASSUME IsPrefix(<<seg>>, r) PROVE FALSE
    OBVIOUS
  <2>1. r \in Path /\ 1 \in 0..Len(r) /\ Prefix(r, 1) = <<seg>>
    BY <1>4, <1>5, PrefixIsPrefix
  <2>2. <<seg>> \in DOMAIN part
    BY <1>1, <2>1 DEF Rooted
  <2> QED BY <1>3, <1>4, <1>5, <2>2
<1>11. ASSUME NEW q \in DOMAIN t PROVE q \in DOMAIN u /\ u[q] = t[q]
  <2>1. CASE IsPrefix(p, q)
    <3>1. Rest(p, q) \in Path /\ p \o Rest(p, q) = q
      BY <1>1, <2>1, RestOf
    <3>2. Rest(p, q) \in DOMAIN part /\ part[Rest(p, q)] = t[q]
      BY <1>5, <3>1
    <3>3. Rest(p, q) \in DOMAIN a /\ a[Rest(p, q)] = t[q]
      BY <1>8, <1>10, <3>1, <3>2
    <3> QED BY <1>1, <1>9, <2>1, <3>3
  <2>2. CASE ~IsPrefix(p, q)
    BY <1>1, <1>9, <2>2
  <2> QED BY <2>1, <2>2
<1>12. Sub(a, <<seg>>) = v
  BY <1>1, <1>4, <1>6, GraftedIsThere
<1>13. Sub(u, p) = a
  BY <1>1, <1>7, GraftedIsThere
<1>14. Sub(u, Append(p, seg)) = v
  BY <1>1, <1>4, <1>7, <1>12, <1>13, SubOfSub
<1> QED BY <1>11, <1>14 DEF seg, a, u

(***************************************************************************)
(* Merging.                                                                *)
(***************************************************************************)
LEMMA MergedNodes ==
  ASSUME NEW t, WellFormed(t), NEW v, WellFormed(v)
  PROVE  /\ \A q \in DOMAIN v : q \in DOMAIN MergeNodes(t, v) /\ MergeNodes(t, v)[q] = v[q]
         /\ MergeNodes(MergeNodes(t, v), v) = MergeNodes(t, v)
         /\ MergeNodes(v, v) = v
<1> DEFINE m == MergeNodes(t, v)
           n == MergeNodes(m, v)
           w == MergeNodes(v, v)
<1>1. Rooted(t) /\ Rooted(v) /\ Rooted(m) /\ Rooted(n) /\ Rooted(w) /\ DOMAIN v \subseteq Path
      /\ DOMAIN t \subseteq Path
  BY MergeNodesWellFormed, WellFormedChildren DEF Rooted
<1>2. /\ DOMAIN m = DOMAIN v \cup {q \in DOMAIN t : Survives(t, v, q)}
      /\ \A q \in DOMAIN m : m[q] = IF q \in DOMAIN v THEN v[q] ELSE t[q]
  BY DEF MergeNodes
<1>3. /\ DOMAIN n = DOMAIN v \cup {q \in DOMAIN m : Survives(m, v, q)}
      /\ \A q \in DOMAIN n : n[q] = IF q \in DOMAIN v THEN v[q] ELSE m[q]
  BY DEF MergeNodes
<1>4. /\ DOMAIN w = DOMAIN v \cup {q \in DOMAIN v : Survives(v, v, q)}
      /\ \A q \in DOMAIN w : w[q] = v[q]
  BY DEF MergeNodes
<1> HIDE DEF m, n, w
<1>5. ASSUME NEW q \in DOMAIN m, q \notin DOMAIN v PROVE Survives(m, v, q)
  <2>1. q \in DOMAIN t /\ q \in Path /\ Survives(t, v, q)
    BY <1>1, <1>2, <1>5
  <2>2. \A r \in DOMAIN v : IsPrefix(r, q) => v[r] = Object /\ t[r] = Object
    BY <1>1, <2>1, SurvivesPrefixes
  <2>3. \A r \in DOMAIN v : IsPrefix(r, q) => v[r] = Object /\ m[r] = Object
    BY <1>2, <2>2
  <2> QED BY <1>1, <2>1, <2>3, SurvivesPrefixes
<1>6. DOMAIN n = DOMAIN m
  BY <1>2, <1>3, <1>5
<1>7. \A q \in DOMAIN n : n[q] = m[q]
  BY <1>2, <1>3, <1>6
<1>8. n = m
  BY <1>1, <1>6, <1>7, SameTree
<1>9. w = v
  <2>1. DOMAIN w = DOMAIN v
    BY <1>4
  <2> QED BY <1>1, <1>4, <2>1, SameTree
<1>10. \A q \in DOMAIN v : q \in DOMAIN m /\ m[q] = v[q]
  BY <1>2
<1> QED BY <1>8, <1>9, <1>10 DEF m, n, w

LEMMA MergeGives ==
  ASSUME NEW t, WellFormed(t), NEW v, WellFormed(v), NEW p \in Path, SetSucceeds(t, p)
  PROVE  LET u == MergeAt(t, p, v)
         IN  /\ \A r \in DOMAIN v : p \o r \in DOMAIN u /\ u[p \o r] = v[r]
             /\ KeptOutside(t, u, p)
             /\ MergeAt(u, p, v) = u
<1> DEFINE u == MergeAt(t, p, v)
           part == Sub(t, p)
           m == MergeNodes(part, v)
<1>0. Rooted(t) /\ Rooted(v) /\ DOMAIN v \subseteq Path /\ DOMAIN t \subseteq Path
  BY WellFormedChildren DEF Rooted
<1>1. CASE p = <<>>
  <2>1. u = MergeNodes(t, v) /\ MergeAt(u, p, v) = MergeNodes(u, v)
    BY <1>1 DEF MergeAt
  <2>2. /\ \A q \in DOMAIN v : q \in DOMAIN u /\ u[q] = v[q]
        /\ MergeAt(u, p, v) = u
    BY <2>1, MergedNodes
  <2>3. DOMAIN u \subseteq Path
    BY <2>1, MergeNodesWellFormed, WellFormedChildren DEF Rooted
  <2> HIDE DEF u
  <2>4. \A r \in DOMAIN v : p \o r = r
    BY <1>0, <1>1, JoinEmpty
  <2>5. \A q \in Path : IsPrefix(p, q)
    BY <1>1, EmptyPath, IsPrefixOf, PathLen
  <2>6. KeptOutside(t, u, p)
    BY <1>0, <2>3, <2>5 DEF KeptOutside, Under
  <2> QED BY <2>2, <2>4, <2>6 DEF u
<1>2. ASSUME p # <<>>,
             NEW w, WellFormed(w), u = SetAt(t, p, w),
             \A r \in DOMAIN v : r \in DOMAIN w /\ w[r] = v[r],
             MergeNodes(w, v) = w
      PROVE  /\ \A r \in DOMAIN v : p \o r \in DOMAIN u /\ u[p \o r] = v[r]
             /\ KeptOutside(t, u, p)
             /\ MergeAt(u, p, v) = u
  <2>1. Sub(u, p) = w /\ KeptOutside(t, u, p) /\ p \in DOMAIN u
    BY <1>2, SetAtGives
  <2>2. WellFormed(u) /\ Rooted(u)
    BY <1>2, SetAtWellFormed, WellFormedChildren
  <2> HIDE DEF u
  <2>3. /\ \A r \in Path : r \in DOMAIN w <=> p \o r \in DOMAIN u
        /\ \A r \in DOMAIN w : w[r] = u[p \o r]
    BY <2>1, <2>2, SubDomain
  <2>4. MergeAt(u, p, v) = SetAt(u, p, MergeNodes(w, v))
    BY <1>2, <2>1 DEF MergeAt, Exists
  <2>5. MergeAt(u, p, v) = u
    BY <1>2, <2>1, <2>2, <2>4, SetBack
  <2> QED BY <1>0, <1>2, <2>1, <2>3, <2>5
<1>3. CASE p # <<>> /\ p \in DOMAIN t
  <2>1. WellFormed(part)
    BY <1>3, SubWellFormed
  <2>2. u = SetAt(t, p, m)
    BY <1>3 DEF MergeAt, Exists
  <2> HIDE DEF u, part
  <2>3. WellFormed(m)
    BY <2>1, MergeNodesWellFormed
  <2>4. (\A r \in DOMAIN v : r \in DOMAIN m /\ m[r] = v[r]) /\ MergeNodes(m, v) = m
    BY <2>1, MergedNodes
  <2> HIDE DEF m
  <2>5. /\ \A r \in DOMAIN v : p \o r \in DOMAIN u /\ u[p \o r] = v[r]
        /\ KeptOutside(t, u, p)
        /\ MergeAt(u, p, v) = u
    BY <1>2, <1>3, <2>2, <2>3, <2>4
  <2> QED BY <2>5 DEF u
<1>4. CASE p # <<>> /\ p \notin DOMAIN t
  <2>1. u = SetAt(t, p, v)
    BY <1>4 DEF MergeAt, Exists
  <2>2. MergeNodes(v, v) = v
    BY MergedNodes
  <2> HIDE DEF u
  <2>3. /\ \A r \in DOMAIN v : p \o r \in DOMAIN u /\ u[p \o r] = v[r]
        /\ KeptOutside(t, u, p)
        /\ MergeAt(u, p, v) = u
    BY <1>2, <1>4, <2>1, <2>2
  <2> QED BY <2>3 DEF u
<1> QED BY <1>1, <1>3, <1>4

(***************************************************************************)
(* Failing.                                                                *)
(***************************************************************************)
LEMMA PaddedRootKeeps ==
  ASSUME NEW t, WellFormed(t), NEW p \in Path, ~SetSucceeds(t, p)
  PROVE  \/ PaddedRoot(t, p) = t
         \/ /\ t[<<>>] = Array
            /\ \A q \in DOMAIN t : q \in DOMAIN PaddedRoot(t, p) /\ PaddedRoot(t, p)[q] = t[q]
            /\ \A q \in DOMAIN PaddedRoot(t, p) \ DOMAIN t :
                 Len(q) = 1 /\ PaddedRoot(t, p)[q] = Null
<1> DEFINE u == PaddedRoot(t, p)
           padded == Padding(p, 1)
<1>1. Rooted(t) /\ t = [q \in DOMAIN t |-> t[q]] /\ <<>> \in DOMAIN t
  BY WellFormedChildren DEF Rooted
<1>2. CASE StepError(t, p, 1) # "ok"
  BY <1>2 DEF PaddedRoot
<1>3. CASE StepError(t, p, 1) = "ok" /\ p[1].kind # "index"
  <2>1. padded = {}
    BY <1>3 DEF Padding
  <2>2. u = [q \in DOMAIN t \cup padded |-> IF q \in DOMAIN t THEN t[q] ELSE Null]
    BY <1>3 DEF PaddedRoot
  <2> HIDE DEF u, padded
  <2>3. u = t
    BY <1>1, <2>1, <2>2
  <2> QED BY <2>3 DEF u
<1>4. CASE StepError(t, p, 1) = "ok" /\ p[1].kind = "index"
  <2>0. Len(p) \in Nat /\ Len(p) # 0
    BY PathLen DEF SetSucceeds
  <2>1. 1 \in 1..Len(p)
    BY <2>0
  <2>2. u = [q \in DOMAIN t \cup padded |-> IF q \in DOMAIN t THEN t[q] ELSE Null]
    BY <1>4 DEF PaddedRoot
  <2>3. Prefix(p, 0) = <<>>
    BY WholePrefix
  <2>4. Standing(t, p, 1) = Array
    BY <1>4, <2>1, StepFits DEF NewContainer
  <2>5. Prefix(p, 1 - 1) = <<>>
    BY <2>3
  <2>6. t[<<>>] = Array
    BY <1>1, <2>4, <2>5 DEF Standing
  <2>7. ASSUME NEW q \in padded PROVE Len(q) = 1
    <3>1. PICK j \in 0..p[1].index : q = Append(Prefix(p, 1 - 1), Index(j))
      BY <2>1, PaddingNode
    <3>2. j \in Int /\ Index(j) \in Segment
      BY IndexSegment
    <3> QED BY <2>5, <3>1, <3>2, LongerPath, EmptyPath
  <2> HIDE DEF u, padded
  <2>8. /\ \A q \in DOMAIN t : q \in DOMAIN u /\ u[q] = t[q]
        /\ \A q \in DOMAIN u \ DOMAIN t : Len(q) = 1 /\ u[q] = Null
    BY <2>2, <2>7
  <2> QED BY <2>6, <2>8 DEF u
<1> QED BY <1>2, <1>3, <1>4

-----------------------------------------------------------------------------
(***************************************************************************)
(* The calls.                                                              *)
(***************************************************************************)
LEMMA Result ==
  ASSUME TypeOK, NEW g \in Goroutines, NEW err, Return(g, err)
  PROVE  result'[g] = err
  BY DEF TypeOK, Return

LEMMA KeptIsUnchanged ==
  ASSUME NEW p, KeptOutside(root, root', p)
  PROVE  UnchangedOutside(p)
  BY DEF KeptOutside, OpenedFor, UnchangedOutside

LEMMA NoError == ASSUME NEW t, NEW p PROVE SetError(t, p) = "ok" <=> SetSucceeds(t, p)
<1> DEFINE failing == {n \in 1..Len(p) : StepError(t, p, n) # "ok"}
           first == CHOOSE n \in failing : \A m \in failing : n <= m
<1> SUFFICES ASSUME ~SetSucceeds(t, p) PROVE SetError(t, p) # "ok"
  BY DEF SetError
<1>1. failing \subseteq 1..Len(p) /\ failing # {} /\ failing \subseteq Nat
  BY DEF SetSucceeds
<1>2. SetError(t, p) = StepError(t, p, first)
  BY DEF SetError
<1>3. \A n \in failing : StepError(t, p, n) # "ok"
  OBVIOUS
<1> HIDE DEF failing
<1>4. \E n \in failing : \A m \in failing : n <= m
  BY <1>1, LeastNatural
<1>5. first \in failing
  BY <1>4
<1> QED BY <1>2, <1>3, <1>5

LEMMA SetOutcome ==
  ASSUME TypeOK, NEW g \in Goroutines, NEW p \in Paths, NEW v \in Values, SetValue(g, p, v)
  PROVE  /\ WellFormed(root) /\ WellFormed(v) /\ p \in Path
         /\ result'[g] = SetError(root, p) /\ root' = SetAt(root, p, v)
<1>1. Return(g, SetError(root, p)) /\ root' = SetAt(root, p, v)
  BY DEF SetValue, WriteRoot
<1> QED BY <1>1, Result, Inputs DEF TypeOK

(***************************************************************************)
(* setAt: a Set that succeeds stores its value at its path and changes     *)
(* nothing beside it, wherever containers have to be created, nulls        *)
(* replaced or arrays extended on the way.                                 *)
(***************************************************************************)
THEOREM SetLocal == Spec => SetIsLocal
<1>1. TypeOK => \A g \in Goroutines, p \in Paths, v \in Values :
        SetValue(g, p, v) /\ result'[g] = "ok" => Sub(root', p) = v /\ UnchangedOutside(p)
  BY SetOutcome, NoError, SetAtGives, KeptIsUnchanged
<1>2. TypeOK /\ [Next]_vars
        => [\A g \in Goroutines, p \in Paths, v \in Values :
              SetValue(g, p, v) /\ result'[g] = "ok" => Sub(root', p) = v /\ UnchangedOutside(p)]_vars
  BY <1>1
<1> QED BY <1>2, TypeCorrect, PTL DEF Spec, SetIsLocal

LEMMA DeleteOutcome ==
  ASSUME TypeOK, NEW g \in Goroutines, NEW p \in Paths, Delete(g, p)
  PROVE  /\ WellFormed(root) /\ p \in Path
         /\ \/ p = <<>> /\ root' = EmptyObject /\ result'[g] = "ok"
            \/ p # <<>> /\ DeleteCheck(root, p) # "ok" /\ root' = root
               /\ result'[g] = DeleteCheck(root, p)
            \/ p # <<>> /\ DeleteCheck(root, p) = "ok" /\ root' = DeleteAt(root, p)
               /\ result'[g] = "ok"
<1>1. WellFormed(root) /\ p \in Path
  BY Inputs DEF TypeOK
<1>2. CASE p = <<>>
  BY <1>1, <1>2, Result DEF Delete, WriteRoot
<1>3. CASE p # <<>> /\ DeleteCheck(root, p) # "ok"
  BY <1>1, <1>3, Result DEF Delete
<1>4. CASE p # <<>> /\ DeleteCheck(root, p) = "ok"
  <2>1. Return(g, SetError(Cut(root, p), Front(p))) /\ root' = DeleteAt(root, p)
    BY <1>4 DEF Delete, WriteRoot
  <2>2. SetError(Cut(root, p), Front(p)) = "ok"
    BY <1>1, <1>4, DeleteAtWellFormed, NoError
  <2> QED BY <1>1, <1>4, <2>1, <2>2, Result
<1> QED BY <1>2, <1>3, <1>4

\* Everything is under the empty path.
LEMMA AllUnderRoot ==
  ASSUME NEW t, WellFormed(t), NEW u, WellFormed(u)
  PROVE  KeptOutside(t, u, <<>>)
<1>1. DOMAIN t \subseteq Path /\ DOMAIN u \subseteq Path
  BY DEF WellFormed
<1>2. \A q \in Path : IsPrefix(<<>>, q)
  BY EmptyPath, IsPrefixOf, PathLen
<1> QED BY <1>1, <1>2 DEF KeptOutside, Under

(***************************************************************************)
(* deleteAt: a Delete that succeeds removes a key with all it holds, or    *)
(* leaves a null in the place of an array element, and moves nothing.      *)
(***************************************************************************)
THEOREM DeleteLocal == Spec => DeleteIsLocal
<1>1. ASSUME TypeOK, NEW g \in Goroutines, NEW p \in Paths, Delete(g, p), result'[g] = "ok"
      PROVE  /\ UnchangedOutside(p)
             /\ p # <<>> => Under(root', p) = {q \in {p} : Last(p).kind = "index"}
  <2>1. CASE p = <<>>
    <3>1. WellFormed(root) /\ root' = EmptyObject
      BY <1>1, <2>1, DeleteOutcome
    <3>2. WellFormed(EmptyObject)
      BY LeafWellFormed, ContainerLabels DEF EmptyObject, Labels
    <3> QED BY <2>1, <3>1, <3>2, AllUnderRoot, KeptIsUnchanged
  <2>2. CASE p # <<>>
    BY <1>1, <2>2, DeleteOutcome, DeleteGives, KeptIsUnchanged
  <2> QED BY <2>1, <2>2
<1>2. TypeOK /\ [Next]_vars
        => [\A g \in Goroutines, p \in Paths :
              Delete(g, p) /\ result'[g] = "ok"
                => /\ UnchangedOutside(p)
                   /\ p # <<>> => Under(root', p) = {q \in {p} : Last(p).kind = "index"}]_vars
  BY <1>1
<1> QED BY <1>2, TypeCorrect, PTL DEF Spec, DeleteIsLocal

LEMMA AppendOutcome ==
  ASSUME TypeOK, NEW g \in Goroutines, NEW p \in Paths, NEW v \in Values, AppendValue(g, p, v)
  PROVE  /\ WellFormed(root) /\ WellFormed(v) /\ p \in Path
         /\ \/ AppendCheck(root, p) # "ok" /\ root' = root /\ result'[g] = AppendCheck(root, p)
            \/ /\ p \in DOMAIN root /\ root[p] = Array
               /\ root' = SetAt(root, p, Appended(root, p, v)) /\ result'[g] = "ok"
<1>1. WellFormed(root) /\ WellFormed(v) /\ p \in Path
  BY Inputs DEF TypeOK
<1>2. CASE AppendCheck(root, p) # "ok"
  BY <1>1, <1>2, Result DEF AppendValue
<1>3. CASE AppendCheck(root, p) = "ok"
  <2>1. Return(g, SetError(root, p)) /\ root' = SetAt(root, p, Appended(root, p, v))
    BY <1>3 DEF AppendValue, WriteRoot
  <2>2. p \in DOMAIN root /\ root[p] = Array
    BY <1>3, AppendSucceeds
  <2>3. SetError(root, p) = "ok"
    BY <1>1, <2>2, ExistingSucceeds, NoError
  <2> QED BY <1>1, <2>1, <2>2, <2>3, Result
<1> QED BY <1>2, <1>3

(***************************************************************************)
(* AppendValue: an append that succeeds puts its value behind the last     *)
(* element and leaves every other node of the tree as it was.              *)
(***************************************************************************)
THEOREM AppendLocal == Spec => AppendKeepsElements
<1>1. ASSUME TypeOK, NEW g \in Goroutines, NEW p \in Paths, NEW v \in Values,
             AppendValue(g, p, v), result'[g] = "ok"
      PROVE  /\ \A q \in DOMAIN root : q \in DOMAIN root' /\ root'[q] = root[q]
             /\ Sub(root', Append(p, Index(Length(root, p)))) = v
  BY <1>1, AppendOutcome, AppendGives
<1>2. TypeOK /\ [Next]_vars
        => [\A g \in Goroutines, p \in Paths, v \in Values :
              AppendValue(g, p, v) /\ result'[g] = "ok"
                => /\ \A q \in DOMAIN root : q \in DOMAIN root' /\ root'[q] = root[q]
                   /\ Sub(root', Append(p, Index(Length(root, p)))) = v]_vars
  BY <1>1
<1> QED BY <1>2, TypeCorrect, PTL DEF Spec, AppendKeepsElements

LEMMA MergeOutcome ==
  ASSUME TypeOK, NEW g \in Goroutines, NEW p \in Paths, NEW v \in Values, MergeValue(g, p, v)
  PROVE  /\ WellFormed(root) /\ WellFormed(v) /\ p \in Path
         /\ result'[g] = SetError(root, p) /\ root' = MergeAt(root, p, v)
<1>1. Return(g, SetError(root, p)) /\ root' = MergeAt(root, p, v)
  BY DEF MergeValue, WriteRoot
<1> QED BY <1>1, Result, Inputs DEF TypeOK

(***************************************************************************)
(* mergeValue: a deep merge that succeeds delivers all it loads, keeps     *)
(* what is beside its prefix, and is idempotent.                           *)
(***************************************************************************)
THEOREM MergeLocal == Spec => MergeDelivers
<1>1. ASSUME TypeOK, NEW g \in Goroutines, NEW p \in Paths, NEW v \in Values,
             MergeValue(g, p, v), result'[g] = "ok"
      PROVE  /\ \A r \in DOMAIN v : p \o r \in DOMAIN root' /\ root'[p \o r] = v[r]
             /\ UnchangedOutside(p)
             /\ MergeAt(root', p, v) = root'
  <2>1. /\ WellFormed(root) /\ WellFormed(v) /\ p \in Path /\ SetSucceeds(root, p)
        /\ root' = MergeAt(root, p, v)
    BY <1>1, MergeOutcome, NoError
  <2>2. LET u == MergeAt(root, p, v)
        IN  /\ \A r \in DOMAIN v : p \o r \in DOMAIN u /\ u[p \o r] = v[r]
            /\ KeptOutside(root, u, p)
            /\ MergeAt(u, p, v) = u
    BY <2>1, MergeGives
  <2> QED BY <2>1, <2>2, KeptIsUnchanged
<1>2. TypeOK /\ [Next]_vars
        => [\A g \in Goroutines, p \in Paths, v \in Values :
              MergeValue(g, p, v) /\ result'[g] = "ok"
                => /\ \A r \in DOMAIN v : p \o r \in DOMAIN root' /\ root'[p \o r] = v[r]
                   /\ UnchangedOutside(p)
                   /\ MergeAt(root', p, v) = root']_vars
  BY <1>1
<1> QED BY <1>2, TypeCorrect, PTL DEF Spec, MergeDelivers

(***************************************************************************)
(* Errors.                                                                 *)
(***************************************************************************)
LEMMA FailedSet ==
  ASSUME NEW p \in Path, NEW v, WellFormed(root), SetError(root, p) # "ok", root' = SetAt(root, p, v)
  PROVE  root' = root \/ OnlyRootPadded
<1>1. ~SetSucceeds(root, p) /\ root' = PaddedRoot(root, p)
  BY NoError DEF SetAt
<1> QED BY <1>1, PaddedRootKeeps DEF OnlyRootPadded

(***************************************************************************)
(* No call leaves half of its work behind when it reports an error: the    *)
(* tree is as it was, or setAt has appended nulls to a root array.         *)
(***************************************************************************)
THEOREM ErrorsChangeNothing == Spec => ErrorsLeaveTheTree
<1>1. ASSUME TypeOK, NEW g \in Goroutines, Acts(g), result'[g] # "ok"
      PROVE  root' = root \/ OnlyRootPadded
  <2>1. ASSUME NEW p \in Paths, Delete(g, p) PROVE root' = root
    BY <1>1, <2>1, DeleteOutcome
  <2>2. ASSUME NEW p \in Paths, GetValue(g, p) PROVE root' = root
    BY <2>2 DEF GetValue
  <2>3. ASSUME NEW p \in Paths, NEW v \in Values, SetValue(g, p, v)
        PROVE  root' = root \/ OnlyRootPadded
    BY <1>1, <2>3, SetOutcome, FailedSet
  <2>4. ASSUME NEW p \in Paths, NEW v \in Values, AppendValue(g, p, v) PROVE root' = root
    BY <1>1, <2>4, AppendOutcome
  <2>5. ASSUME NEW p \in Paths, NEW v \in Values, MergeValue(g, p, v)
        PROVE  root' = root \/ OnlyRootPadded
    <3>1. /\ WellFormed(root) /\ p \in Path /\ SetError(root, p) # "ok"
          /\ root' = MergeAt(root, p, v)
      BY <1>1, <2>5, MergeOutcome
    <3>2. p \notin DOMAIN root
      BY <3>1, ExistingSucceeds, NoError
    <3>3. p # <<>>
      BY <3>1, <3>2 DEF WellFormed
    <3>4. root' = SetAt(root, p, v)
      BY <3>1, <3>2, <3>3 DEF MergeAt, Exists
    <3> QED BY <3>1, <3>4, FailedSet
  <2>6. ASSUME NEW p \in Paths, NEW v \in Values, LoadGet(g, p, v) PROVE root' = root
    BY <2>6 DEF LoadGet
  <2>7. ASSUME NEW recursive \in BOOLEAN, NEW maxDepth \in MaxDepths,
               InterpolateSnapshot(g, recursive, maxDepth)
        PROVE  root' = root
    BY <2>7 DEF InterpolateSnapshot
  <2>8. CASE LoadCheckRoot(g) \/ InterpolateRound(g)
    BY <2>8 DEF LoadCheckRoot, InterpolateRound
  <2>9. CASE LoadSet(g)
    <3>1. /\ Return(g, SetError(root, task[g].path))
          /\ root' = SetAt(root, task[g].path, task[g].value)
      BY <2>9 DEF LoadSet, WriteRoot
    <3>2. TaskOK(task[g]) /\ WellFormed(root)
      BY <1>1 DEF TypeOK
    <3>3. task[g].path \in Paths \cup {<<>>}
      BY <2>9, <3>2 DEF LoadSet, TaskOK, LoadOK, InterpolateOK, Idle
    <3>4. task[g].path \in Path
      BY <3>3, Inputs, EmptyPath
    <3> QED BY <1>1, <3>1, <3>2, <3>4, Result, FailedSet
  <2>10. ~InterpolatePublish(g)
    BY <1>1, Result DEF InterpolatePublish
  <2> QED BY <1>1, <2>1, <2>2, <2>3, <2>4, <2>5, <2>6, <2>7, <2>8, <2>9, <2>10
          DEF Acts, Call, Proceed
<1>2. TypeOK /\ [Next]_vars
        => [\A g \in Goroutines :
              Acts(g) /\ result'[g] # "ok" => root' = root \/ OnlyRootPadded]_vars
  BY <1>1
<1> QED BY <1>2, TypeCorrect, PTL DEF Spec, ErrorsLeaveTheTree

=============================================================================
