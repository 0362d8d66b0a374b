---------------------------- MODULE ValueTree_proofs ----------------------------
(***************************************************************************)
(* The recursions of module ValueTree compute what the definitions of      *)
(* PathTree and Interpolation say, for Values of any size: what is found   *)
(* at every path of a result is what the tree on paths has there.          *)
(***************************************************************************)
EXTENDS ValueTree, Interpolation_proofs

-----------------------------------------------------------------------------
LEMMA ShortestPath ==
  ASSUME NEW S \in SUBSET Path, S # {}
  PROVE  \E q \in S : \A r \in S : Len(q) <= Len(r)
<1> DEFINE lengths == {Len(q) : q \in S}
<1>1. lengths \in SUBSET Nat /\ lengths # {}
  BY PathLen
<1>2. PICK m \in lengths : \A n \in lengths : m <= n
  BY <1>1, LeastNatural
<1> QED BY <1>2

LEMMA LongestPath ==
  ASSUME NEW S \in SUBSET Path, S # {}, IsFiniteSet(S)
  PROVE  \E q \in S : \A r \in S : Len(r) <= Len(q)
<1> DEFINE Longer(q) == {r \in S : Len(r) > Len(q)}
           sizes == {Cardinality(Longer(q)) : q \in S}
<1>1. \A q \in S : IsFiniteSet(Longer(q)) /\ Cardinality(Longer(q)) \in Nat
  BY FS_Subset, FS_CardinalityType
<1>2. sizes \in SUBSET Nat /\ sizes # {}
  BY <1>1
<1>3. PICK m \in sizes : \A n \in sizes : m <= n
  BY <1>2, LeastNatural
<1>4. PICK q \in S : m = Cardinality(Longer(q))
  BY <1>3
<1>5. ASSUME NEW r \in S, Len(r) > Len(q) PROVE FALSE
  <2>1. Len(r) \in Nat /\ Len(q) \in Nat /\ \A x \in S : Len(x) \in Nat
    BY PathLen
  <2>2. Longer(r) \subseteq Longer(q) /\ r \in Longer(q) /\ r \notin Longer(r)
    BY <1>5, <2>1
  <2>3. Cardinality(Longer(r)) < Cardinality(Longer(q))
    <3> HIDE DEF Longer
    <3> QED BY <1>1, <2>2, FS_Subset, FS_CardinalityType
  <2>4. m <= Cardinality(Longer(r))
    BY <1>3
  <2>5. Cardinality(Longer(r)) \in Nat /\ Cardinality(Longer(q)) \in Nat
    BY <1>1
  <2> HIDE DEF Longer, sizes
  <2> QED BY <1>4, <2>3, <2>4, <2>5
<1>6. \A r \in S : Len(r) \in Nat /\ Len(q) \in Nat
  BY PathLen
<1> QED BY <1>5, <1>6

-----------------------------------------------------------------------------
(***************************************************************************)
(* getAt.  At(v, p) is the function that its definition chooses.           *)
(***************************************************************************)
At(v, p) ==
  CHOOSE current : current = [n \in 0..Len(p) |-> IF n = 0 THEN v ELSE Found(current[n - 1], p[n])]

LEMMA AtSteps ==
  ASSUME NEW v, NEW p \in Path
  PROVE  At(v, p) = [n \in 0..Len(p) |-> IF n = 0 THEN v ELSE Found(At(v, p)[n - 1], p[n])]
<1> DEFINE Solves(f, m) == f = [n \in 0..m |-> IF n = 0 THEN v ELSE Found(f[n - 1], p[n])]
           bad == {m \in Nat : ~ \E f : Solves(f, m)}
<1>1. ASSUME bad # {} PROVE FALSE
  <2>1. PICK m \in bad : \A n \in bad : m <= n
    BY <1>1, LeastNatural
  <2>2. CASE m = 0
    <3> DEFINE f == [n \in 0..0 |-> v]
    <3>1. \A n \in 0..0 : v = IF n = 0 THEN v ELSE Found(f[n - 1], p[n])
      OBVIOUS
    <3>2. Solves(f, 0)
      BY <3>1, ZenonT(30)
    <3> QED BY <2>1, <2>2, <3>2
  <2>3. CASE m # 0
    <3>1. m - 1 \in Nat /\ m - 1 \notin bad
      <4>1. m \in Nat
        BY <2>1
      <4> HIDE DEF bad
      <4> QED BY <2>1, <2>3, <4>1
    <3>2. PICK f : Solves(f, m - 1)
      BY <3>1
    <3> DEFINE g == [n \in 0..m |-> IF n = m THEN Found(f[m - 1], p[m]) ELSE f[n]]
    <3>3. ASSUME NEW n \in 0..m
          PROVE  g[n] = IF n = 0 THEN v ELSE Found(g[n - 1], p[n])
      <4>1. CASE n = m
        <5>1. m - 1 \in 0..m /\ m - 1 # m
          BY <2>1, <3>1
        <5> QED BY <2>3, <4>1, <5>1
      <4>2. CASE n # m
        <5>1. n \in 0..(m - 1) /\ (n # 0 => n - 1 \in 0..m /\ n - 1 # m)
          BY <2>1, <3>1, <4>2
        <5>2. f[n] = IF n = 0 THEN v ELSE Found(f[n - 1], p[n])
          BY <3>2, <5>1
        <5> QED BY <4>2, <5>1, <5>2
      <4> QED BY <4>1, <4>2
    <3>4. Solves(g, m)
      <4> HIDE DEF Solves
      <4>1. g = [n \in 0..m |-> g[n]]
        OBVIOUS
      <4> HIDE DEF g
      <4> QED BY <3>3, <4>1, ZenonT(30) DEF Solves
    <3> QED BY <2>1, <3>4
  <2> QED BY <2>2, <2>3
<1>2. Len(p) \in Nat
  BY PathLen
<1>3. \E f : f = [n \in 0..Len(p) |-> IF n = 0 THEN v ELSE Found(f[n - 1], p[n])]
  BY <1>1, <1>2
<1> QED BY <1>3, Zenon DEF At

LEMMA GetAtSteps ==
  ASSUME NEW v
  PROVE  /\ getAt(v, <<>>) = v
         /\ \A p \in Path, s \in Segment : getAt(v, Append(p, s)) = Found(getAt(v, p), s)
<1>1. ASSUME NEW p \in Path
      PROVE  /\ getAt(v, p) = At(v, p)[Len(p)] /\ At(v, p)[0] = v
             /\ \A n \in 1..Len(p) : At(v, p)[n] = Found(At(v, p)[n - 1], p[n])
  <2>1. Len(p) \in Nat
    BY PathLen
  <2>2. getAt(v, p) = At(v, p)[Len(p)]
    BY DEF getAt, At
  <2> QED BY <2>1, <2>2, AtSteps
<1>2. getAt(v, <<>>) = v
  BY <1>1, EmptyPath
<1>3. ASSUME NEW p \in Path, NEW s \in Segment
      PROVE  getAt(v, Append(p, s)) = Found(getAt(v, p), s)
  <2> DEFINE q == Append(p, s)
             bad == {n \in Nat : n <= Len(p) /\ At(v, q)[n] # At(v, p)[n]}
  <2>1. /\ q \in Path /\ Len(p) \in Nat /\ Len(q) = Len(p) + 1 /\ q[Len(p) + 1] = s
        /\ \A i \in 1..Len(p) : q[i] = p[i]
    BY PathLen, LongerPath
  <2> HIDE DEF q
  <2>2. ASSUME bad # {} PROVE FALSE
    <3>1. PICK n \in bad : \A m \in bad : n <= m
      BY <2>2, LeastNatural
    <3>2. n # 0
      BY <1>1, <2>1, <3>1
    <3>3. n - 1 \in Nat /\ n - 1 \notin bad /\ n \in 1..Len(p) /\ n \in 1..Len(q)
      BY <2>1, <3>1, <3>2
    <3>4. At(v, q)[n - 1] = At(v, p)[n - 1]
      BY <2>1, <3>3
    <3>5. At(v, q)[n] = Found(At(v, q)[n - 1], q[n]) /\ At(v, p)[n] = Found(At(v, p)[n - 1], p[n])
      BY <1>1, <2>1, <3>3
    <3> QED BY <2>1, <3>1, <3>3, <3>4, <3>5
  <2>3. At(v, q)[Len(p)] = At(v, p)[Len(p)]
    BY <2>1, <2>2
  <2>4. Len(q) \in 1..Len(q) /\ Len(q) - 1 = Len(p)
    BY <2>1
  <2>5. getAt(v, q) = Found(At(v, q)[Len(p)], s)
    BY <1>1, <2>1, <2>4
  <2> QED BY <1>1, <2>3, <2>5 DEF q
<1> QED BY <1>2, <1>3

LEMMA GetAtJoined ==
  ASSUME NEW v, NEW p \in Path, NEW q \in Path
  PROVE  getAt(v, p \o q) = getAt(getAt(v, p), q)
<1>0. \A w : \A x \in Path, y \in Segment : getAt(w, Append(x, y)) = Found(getAt(w, x), y)
  BY GetAtSteps
<1> DEFINE bad == {r \in Path : getAt(v, p \o r) # getAt(getAt(v, p), r)}
<1>1. ASSUME bad # {} PROVE FALSE
  <2>1. PICK r \in bad : \A x \in bad : Len(r) <= Len(x)
    BY <1>1, ShortestPath
  <2>2. CASE r = <<>>
    BY <2>1, <2>2, JoinEmpty, GetAtSteps
  <2>3. CASE r # <<>>
    <3> DEFINE f == Front(r)
               s == Last(r)
    <3>1. f \in Path /\ s \in Segment /\ r = Append(f, s)
      BY <2>1, <2>3, FrontLast
    <3> HIDE DEF f, s
    <3>2. Len(f) \in Nat /\ Len(r) = Len(f) + 1
      BY <3>1, PathLen, LongerPath
    <3>3. f \notin bad
      BY <2>1, <3>2
    <3>4. p \o r = Append(p \o f, s) /\ p \o f \in Path
      BY <3>1, JoinExtended, Joined
    <3>5. getAt(v, p \o r) = Found(getAt(v, p \o f), s)
      BY <1>0, <3>1, <3>4
    <3>6. getAt(getAt(v, p), r) = Found(getAt(getAt(v, p), f), s)
      BY <1>0, <3>1
    <3> QED BY <2>1, <3>1, <3>3, <3>5, <3>6
  <2> QED BY <2>2, <2>3
<1> QED BY <1>1

LEMMA FoundIs ==
  ASSUME NEW v, NEW s
  PROVE  Found(v, s) = IF s \in DOMAIN Fields(v) THEN Fields(v)[s] ELSE NoValue
  BY DEF Found

LEMMA NoFields == DOMAIN Fields(NoValue) = {} /\ DOMAIN Fields(NullValue) = {}
  BY DEF Fields, NoValue, NullValue, Object, Array, Null

LEMMA NothingBelowNothing ==
  ASSUME NEW q \in Path
  PROVE  getAt(NoValue, q) = NoValue
<1> DEFINE bad == {r \in Path : getAt(NoValue, r) # NoValue}
<1>1. ASSUME bad # {} PROVE FALSE
  <2>1. PICK r \in bad : \A x \in bad : Len(r) <= Len(x)
    BY <1>1, ShortestPath
  <2>2. r # <<>>
    BY <2>1, GetAtSteps
  <2> DEFINE f == Front(r)
             s == Last(r)
  <2>3. f \in Path /\ s \in Segment /\ r = Append(f, s)
    BY <2>1, <2>2, FrontLast
  <2> HIDE DEF f, s
  <2>4. Len(f) \in Nat /\ Len(r) = Len(f) + 1
    BY <2>3, PathLen, LongerPath
  <2>5. f \notin bad
    BY <2>1, <2>4
  <2>6. getAt(NoValue, r) = Found(getAt(NoValue, f), s)
    BY <2>3, GetAtSteps
  <2> QED BY <2>1, <2>3, <2>5, <2>6, NoFields, FoundIs
<1> QED BY <1>1

\* What is found below a child of a node, and what is not.
LEMMA GetAtChild ==
  ASSUME NEW v, NEW s \in Segment, NEW r \in Path
  PROVE  getAt(v, <<s>> \o r) =
           IF s \in DOMAIN Fields(v) THEN getAt(Fields(v)[s], r) ELSE NoValue
<1>1. <<s>> \in Path /\ getAt(v, <<s>>) = Found(v, s)
  <2>1. <<>> \in Path /\ <<s>> \in Path /\ <<s>> = Append(<<>>, s) /\ getAt(v, <<>>) = v
    BY OneSegment, EmptyPath, GetAtSteps
  <2>2. getAt(v, Append(<<>>, s)) = Found(getAt(v, <<>>), s)
    BY <2>1, GetAtSteps
  <2> QED BY <2>1, <2>2, Zenon
<1>2. getAt(v, <<s>> \o r) = getAt(Found(v, s), r)
  BY <1>1, GetAtJoined
<1> QED BY <1>2, FoundIs, NothingBelowNothing

-----------------------------------------------------------------------------
(***************************************************************************)
(* What a node of a Value is.                                              *)
(***************************************************************************)
LEMMA NodeLabels ==
  ASSUME NEW x, NodeShape(x)
  PROVE  /\ x # NoValue /\ LabelOf(x) \in Labels
         /\ LabelOf(x) = Object <=> x.kind = Object
         /\ LabelOf(x) = Array <=> x.kind = Array
         /\ LabelOf(x) = Null <=> x = NullValue
         /\ LabelOf(x) \in Scalars <=> x.kind = "scalar"
         /\ x.kind = "scalar" => x = Scalar(LabelOf(x)) /\ LabelOf(x) = x.scalar
<1>1. CASE x = NullValue
  BY <1>1, ScalarsAssumption DEF NullValue, NoValue, LabelOf, Labels, Null, Object, Array
<1>2. CASE x.kind = "scalar" /\ x = Scalar(x.scalar) /\ x.scalar \in Scalars
  <2>1. x.scalar \notin {Null, Object, Array} /\ LabelOf(x) = x.scalar
    BY <1>2, ScalarsAssumption DEF LabelOf
  <2> QED BY <1>2, <2>1 DEF NullValue, NoValue, Scalar, Labels, Null, Object, Array
<1>3. CASE x.kind = Object
  <2>1. LabelOf(x) = Object /\ Object \notin Scalars
    BY <1>3, ScalarsAssumption DEF LabelOf, Object
  <2> QED BY <1>3, <2>1 DEF NullValue, NoValue, Labels, Null, Object, Array
<1>4. CASE x.kind = Array
  <2>1. LabelOf(x) = Array /\ Array \notin Scalars
    BY <1>4, ScalarsAssumption DEF LabelOf, Array
  <2> QED BY <1>4, <2>1 DEF NullValue, NoValue, Labels, Null, Object, Array
<1> QED BY <1>1, <1>2, <1>3, <1>4 DEF NodeShape

LEMMA NodeFields ==
  ASSUME NEW x, NodeShape(x)
  PROVE  /\ DOMAIN Fields(x) \subseteq Segment
         /\ SlotsOK(LabelOf(x), DOMAIN Fields(x))
         /\ x.kind = Object =>
              /\ \A k \in Keys : Key(k) \in DOMAIN Fields(x) <=> k \in DOMAIN x.obj
              /\ \A k \in DOMAIN x.obj : k \in Keys /\ Fields(x)[Key(k)] = x.obj[k]
         /\ x.kind = Array =>
              /\ DOMAIN x.arr = 1..Len(x.arr) /\ Len(x.arr) \in Nat
              /\ \A j \in Int : Index(j) \in DOMAIN Fields(x) <=> j \in 0..(Len(x.arr) - 1)
              /\ \A j \in 0..(Len(x.arr) - 1) : Fields(x)[Index(j)] = x.arr[j + 1]
<1>1. CASE x = NullValue
  <2>1. DOMAIN Fields(x) = {}
    BY <1>1, NoFields
  <2>2. x.kind # Object /\ x.kind # Array
    BY <1>1 DEF NullValue, Object, Array, Null
  <2> QED BY <2>1, <2>2 DEF SlotsOK
<1>2. CASE x.kind = "scalar"
  <2>1. DOMAIN Fields(x) = {} /\ x.kind # Object /\ x.kind # Array
    BY <1>2 DEF Fields, Object, Array
  <2> QED BY <2>1 DEF SlotsOK
<1>3. CASE x.kind = Object /\ x = ObjectValue([k \in DOMAIN x.obj |-> x.obj[k]]) /\ DOMAIN x.obj \subseteq Keys
  <2>1. x.kind # Array /\ LabelOf(x) = Object
    BY <1>3, NodeLabels DEF Object, Array
  <2>2. Fields(x) = [s \in {Key(k) : k \in DOMAIN x.obj} |-> x.obj[s.key]]
    BY <1>3 DEF Fields
  <2>3. \A k : Key(k).key = k /\ Key(k).kind = "key" /\ (k \in Keys => Key(k) \in Segment)
    BY DEF Key, Segment
  <2>4. \A k : Key(k) \in DOMAIN Fields(x) <=> k \in DOMAIN x.obj
    BY <2>2, <2>3
  <2>5. \A k \in DOMAIN x.obj : Fields(x)[Key(k)] = x.obj[k]
    BY <2>2, <2>3, <2>4
  <2>6. \A s \in DOMAIN Fields(x) : s.kind = "key" /\ s \in Segment
    BY <1>3, <2>2, <2>3
  <2>7. SlotsOK(LabelOf(x), DOMAIN Fields(x))
    BY <2>1, <2>6 DEF SlotsOK, Object, Array
  <2> QED BY <1>3, <2>1, <2>4, <2>5, <2>6, <2>7
<1>4. CASE /\ x.kind = Array /\ Len(x.arr) \in Nat
           /\ x = ArrayValue([i \in 1..Len(x.arr) |-> x.arr[i]])
  <2>1. x.kind # Object /\ LabelOf(x) = Array
    BY <1>4, NodeLabels DEF Object, Array
  <2>2. x.arr = [i \in 1..Len(x.arr) |-> x.arr[i]]
    BY <1>4 DEF ArrayValue
  <2>3. DOMAIN x.arr = 1..Len(x.arr)
    BY <2>2
  <2>4. Fields(x) = [s \in {Index(i - 1) : i \in 1..Len(x.arr)} |-> x.arr[s.index + 1]]
    BY <1>4, <2>1, <2>3 DEF Fields
  <2>5. \A j \in Int : Index(j) \in DOMAIN Fields(x) <=> j \in 0..(Len(x.arr) - 1)
    <3>1. ASSUME NEW j \in Int, Index(j) \in DOMAIN Fields(x) PROVE j \in 0..(Len(x.arr) - 1)
      <4>1. PICK i \in 1..Len(x.arr) : Index(j) = Index(i - 1)
        BY <2>4, <3>1
      <4>2. j = i - 1
        BY <4>1 DEF Index
      <4> QED BY <1>4, <4>2
    <3>2. ASSUME NEW j \in 0..(Len(x.arr) - 1) PROVE Index(j) \in DOMAIN Fields(x)
      <4>1. j + 1 \in 1..Len(x.arr) /\ (j + 1) - 1 = j
        BY <1>4
      <4> QED BY <2>4, <4>1
    <3> QED BY <3>1, <3>2
  <2>6. \A j \in 0..(Len(x.arr) - 1) : Fields(x)[Index(j)] = x.arr[j + 1]
    <3>1. \A j \in Int : Index(j).index = j
      BY DEF Index
    <3> QED BY <1>4, <2>4, <2>5, <3>1
  <2>7. \A s \in DOMAIN Fields(x) : /\ s \in Segment /\ s.kind = "index" /\ s.index >= 0
                                    /\ \A j \in 0..s.index : Index(j) \in DOMAIN Fields(x)
    <3> SUFFICES ASSUME NEW s \in DOMAIN Fields(x)
                 PROVE  /\ s \in Segment /\ s.kind = "index" /\ s.index >= 0
                        /\ \A j \in 0..s.index : Index(j) \in DOMAIN Fields(x)
      OBVIOUS
    <3>1. PICK i \in 1..Len(x.arr) : s = Index(i - 1)
      BY <2>4
    <3>2. i - 1 \in Int /\ i - 1 >= 0 /\ i - 1 <= Len(x.arr) - 1
      BY <1>4
    <3>3. s \in Segment /\ s.kind = "index" /\ s.index = i - 1
      BY <3>1, <3>2, IndexSegment
    <3> QED BY <1>4, <2>5, <3>2, <3>3
  <2>8. SlotsOK(LabelOf(x), DOMAIN Fields(x))
    BY <2>1, <2>7 DEF SlotsOK, Object, Array
  <2> QED BY <1>4, <2>1, <2>3, <2>5, <2>6, <2>7, <2>8
<1> QED BY <1>1, <1>2, <1>3, <1>4 DEF NodeShape

LEMMA SameLength ==
  ASSUME NEW a \in Nat, NEW b \in Nat, \A j \in Int : j \in 0..(a - 1) <=> j \in 0..(b - 1)
  PROVE  a = b
<1>1. a > 0 => a - 1 \in 0..(b - 1)
  OBVIOUS
<1>2. b > 0 => b - 1 \in 0..(a - 1)
  OBVIOUS
<1> QED BY <1>1, <1>2

LEMMA OneLess ==
  ASSUME NEW a \in Nat, NEW i \in 1..a
  PROVE  i - 1 \in 0..(a - 1) /\ (i - 1) + 1 = i /\ i - 1 \in Int
  OBVIOUS

LEMMA SameNode ==
  ASSUME NEW x, NodeShape(x), NEW y, NodeShape(y), LabelOf(x) = LabelOf(y),
         DOMAIN Fields(x) = DOMAIN Fields(y), \A s \in DOMAIN Fields(x) : Fields(x)[s] = Fields(y)[s]
  PROVE  x = y
<1>1. CASE x = NullValue \/ x.kind = "scalar"
  BY <1>1, NodeLabels, ScalarsAssumption
<1>2. CASE x.kind = Object
  <2>1. y.kind = Object
    BY <1>2, NodeLabels
  <2>2. /\ x = ObjectValue([k \in DOMAIN x.obj |-> x.obj[k]]) /\ DOMAIN x.obj \subseteq Keys
        /\ y = ObjectValue([k \in DOMAIN y.obj |-> y.obj[k]]) /\ DOMAIN y.obj \subseteq Keys
    BY <1>2, <2>1 DEF NodeShape, NullValue, Null, Object, Array
  <2>3. \A k \in Keys : k \in DOMAIN x.obj <=> k \in DOMAIN y.obj
    BY <1>2, <2>1, NodeFields
  <2>4. DOMAIN x.obj = DOMAIN y.obj
    BY <2>2, <2>3
  <2>5. ASSUME NEW k \in DOMAIN x.obj PROVE x.obj[k] = y.obj[k]
    <3>1. k \in Keys /\ k \in DOMAIN y.obj /\ Key(k) \in DOMAIN Fields(x)
      BY <1>2, <2>4, NodeFields
    <3>2. Fields(x)[Key(k)] = x.obj[k] /\ Fields(y)[Key(k)] = y.obj[k]
      BY <1>2, <2>1, <3>1, NodeFields
    <3> QED BY <3>1, <3>2
  <2>6. [k \in DOMAIN x.obj |-> x.obj[k]] = [k \in DOMAIN y.obj |-> y.obj[k]]
    BY <2>4, <2>5
  <2> QED BY <2>2, <2>6
<1>3. CASE x.kind = Array
  <2>1. y.kind = Array
    BY <1>3, NodeLabels
  <2>2. /\ x = ArrayValue([i \in 1..Len(x.arr) |-> x.arr[i]]) /\ Len(x.arr) \in Nat
        /\ y = ArrayValue([i \in 1..Len(y.arr) |-> y.arr[i]]) /\ Len(y.arr) \in Nat
    BY <1>3, <2>1 DEF NodeShape, NullValue, Null, Object, Array
  <2>3. \A j \in Int : j \in 0..(Len(x.arr) - 1) <=> j \in 0..(Len(y.arr) - 1)
    BY <1>3, <2>1, NodeFields
  <2>4. Len(x.arr) = Len(y.arr)
    BY <2>2, <2>3, SameLength
  <2>5. ASSUME NEW i \in 1..Len(x.arr) PROVE x.arr[i] = y.arr[i]
    <3>1. i - 1 \in 0..(Len(x.arr) - 1) /\ i - 1 \in 0..(Len(y.arr) - 1) /\ (i - 1) + 1 = i /\ i - 1 \in Int
      BY <2>2, <2>4, OneLess
    <3>2. Index(i - 1) \in DOMAIN Fields(x)
      BY <1>3, <3>1, NodeFields
    <3>3. Fields(x)[Index(i - 1)] = x.arr[(i - 1) + 1] /\ Fields(y)[Index(i - 1)] = y.arr[(i - 1) + 1]
      BY <1>3, <2>1, <3>1, NodeFields
    <3> QED BY <3>1, <3>2, <3>3
  <2>6. [i \in 1..Len(x.arr) |-> x.arr[i]] = [i \in 1..Len(y.arr) |-> y.arr[i]]
    BY <2>4, <2>5
  <2> QED BY <2>2, <2>6
<1> QED BY <1>1, <1>2, <1>3 DEF NodeShape

-----------------------------------------------------------------------------
(***************************************************************************)
(* A Value shows what a tree has at and below a path.  What an operation   *)
(* returns is proved to be right path by path, in this form; a Value that  *)
(* shows a whole tree is one whose PathsOf is that tree.                   *)
(***************************************************************************)
ShowsAt(v, t, p) ==
  \A r \in Path : IF p \o r \in DOMAIN t THEN IsNode(getAt(v, r)) /\ LabelOf(getAt(v, r)) = t[p \o r]
                  ELSE getAt(v, r) = NoValue

Shows(v, t) == ShowsAt(v, t, <<>>)

LEMMA ShownEach ==
  ASSUME NEW v, NEW t
  PROVE  Shows(v, t) <=>
           \A q \in Path : IF q \in DOMAIN t THEN IsNode(getAt(v, q)) /\ LabelOf(getAt(v, q)) = t[q]
                           ELSE getAt(v, q) = NoValue
<1>1. \A q \in Path : <<>> \o q = q
  BY JoinEmpty
<1> QED BY <1>1 DEF Shows, ShowsAt

LEMMA ShownBelow ==
  ASSUME NEW v, NEW t, Shows(v, t), NEW p \in Path
  PROVE  ShowsAt(getAt(v, p), t, p)
<1>1. \A r \in Path : p \o r \in Path /\ getAt(getAt(v, p), r) = getAt(v, p \o r)
  BY Joined, GetAtJoined
<1> QED BY <1>1, ShownEach DEF ShowsAt

LEMMA ShownTop ==
  ASSUME NEW v, NEW t, NEW p \in Path, ShowsAt(v, t, p)
  PROVE  IF p \in DOMAIN t THEN IsNode(v) /\ LabelOf(v) = t[p] ELSE v = NoValue
  BY EmptyPath, JoinEmpty, GetAtSteps DEF ShowsAt

LEMMA ShownChild ==
  ASSUME NEW v, NEW t, NEW p \in Path, ShowsAt(v, t, p), NEW s \in Segment
  PROVE  ShowsAt(Found(v, s), t, Append(p, s))
<1> SUFFICES ASSUME NEW r \in Path
             PROVE  IF Append(p, s) \o r \in DOMAIN t
                    THEN /\ IsNode(getAt(Found(v, s), r))
                         /\ LabelOf(getAt(Found(v, s), r)) = t[Append(p, s) \o r]
                    ELSE getAt(Found(v, s), r) = NoValue
  BY DEF ShowsAt
<1>1. <<s>> \in Path /\ <<s>> \o r \in Path /\ p \o <<s>> = Append(p, s)
  BY OneSegment, Joined
<1>2. (p \o <<s>>) \o r = p \o (<<s>> \o r)
  BY <1>1, JoinAssoc
<1>3. getAt(Found(v, s), r) = getAt(v, <<s>> \o r)
  BY GetAtChild, FoundIs, NothingBelowNothing
<1> QED BY <1>1, <1>2, <1>3 DEF ShowsAt

LEMMA ShownByChildren ==
  ASSUME NEW v, NEW t, NEW p \in DOMAIN t, p \in Path, NodeShape(v), LabelOf(v) = t[p],
         \A s \in Segment : ShowsAt(Found(v, s), t, Append(p, s)),
         \A s \in DOMAIN Fields(v) : Append(p, s) \in DOMAIN t
  PROVE  ShowsAt(v, t, p)
<1>1. ASSUME NEW s \in DOMAIN Fields(v) PROVE Fields(v)[s] # NoValue
  <2>1. s \in Segment /\ Append(p, s) \in Path
    BY NodeFields, LongerPath
  <2>2. IsNode(Found(v, s))
    BY <2>1, ShownTop
  <2>3. NodeShape(Found(v, s))
    BY <2>2 DEF IsNode
  <2> QED BY <2>3, FoundIs, NodeLabels
<1>2. IsNode(v)
  BY <1>1 DEF IsNode
<1> SUFFICES ASSUME NEW r \in Path
             PROVE  IF p \o r \in DOMAIN t
                    THEN IsNode(getAt(v, r)) /\ LabelOf(getAt(v, r)) = t[p \o r]
                    ELSE getAt(v, r) = NoValue
  BY DEF ShowsAt
<1>3. CASE r = <<>>
  BY <1>2, <1>3, JoinEmpty, GetAtSteps
<1>4. CASE r # <<>>
  <2>1. Len(r) \in Nat /\ Len(r) # 0
    BY <1>4, PathLen, EmptyPath
  <2>2. 1 \in 1..Len(r) /\ 1 \in 0..Len(r)
    BY <2>1
  <2> DEFINE s == r[1]
             rest == Rest(<<s>>, r)
  <2>3. s \in Segment
    BY <2>2, PathLen
  <2>4. <<s>> \in Path /\ p \o <<s>> = Append(p, s) /\ Len(<<s>>) = 1 /\ <<s>>[1] = s
    BY <2>3, OneSegment
  <2>5. IsPrefix(<<s>>, r)
    BY <2>1, <2>4, IsPrefixOf
  <2>6. rest \in Path /\ <<s>> \o rest = r
    BY <2>4, <2>5, RestOf
  <2>7. p \o r = Append(p, s) \o rest
    <3>1. (p \o <<s>>) \o rest = p \o (<<s>> \o rest)
      BY <2>4, <2>6, JoinAssoc
    <3> HIDE DEF s, rest
    <3> QED BY <2>4, <2>6, <3>1
  <2>8. getAt(v, r) = getAt(Found(v, s), rest)
    <3> HIDE DEF s, rest
    <3> QED BY <2>3, <2>6, GetAtChild, FoundIs, NothingBelowNothing
  <2> HIDE DEF rest
  <2> QED BY <2>3, <2>6, <2>7, <2>8 DEF ShowsAt
<1> QED BY <1>3, <1>4

LEMMA ShownFields ==
  ASSUME NEW v, NEW t, NEW p \in DOMAIN t, p \in Path, ShowsAt(v, t, p)
  PROVE  /\ DOMAIN Fields(v) \subseteq Segment
         /\ \A s \in Segment : s \in DOMAIN Fields(v) <=> Append(p, s) \in DOMAIN t
<1>1. IsNode(v) /\ NodeShape(v)
  BY ShownTop DEF IsNode
<1>2. DOMAIN Fields(v) \subseteq Segment
  BY <1>1, NodeFields
<1>3. ASSUME NEW s \in Segment PROVE s \in DOMAIN Fields(v) <=> Append(p, s) \in DOMAIN t
  <2>1. Append(p, s) \in Path /\ ShowsAt(Found(v, s), t, Append(p, s))
    BY LongerPath, ShownChild
  <2>2. Append(p, s) \in DOMAIN t => IsNode(Found(v, s)) /\ NodeShape(Found(v, s))
    BY <2>1, ShownTop DEF IsNode
  <2>3. Append(p, s) \notin DOMAIN t => Found(v, s) = NoValue
    BY <2>1, ShownTop
  <2> QED BY <1>1, <2>2, <2>3, FoundIs, NodeLabels DEF IsNode
<1> QED BY <1>2, <1>3

-----------------------------------------------------------------------------
(***************************************************************************)
(* PathsIn.  Between(v, S) is what its recursion returns for S when the    *)
(* Value is finite: S, and the paths of v that lead on from it.            *)
(***************************************************************************)
Below(v) ==
  CHOOSE below : below = [paths \in SUBSET Path |->
                            IF paths = {} THEN {} ELSE paths \cup below[NextPaths(v, paths)]]

From(P, S) == S \cup {q \in P : \E p \in S : IsPrefix(p, q)}

LEMMA ShownNext ==
  ASSUME NEW v, NEW P \in SUBSET Path, <<>> \in P,
         \A q \in Path : IF q \in P THEN IsNode(getAt(v, q)) ELSE getAt(v, q) = NoValue
  PROVE  /\ \A S \in SUBSET Path : NextPaths(v, S) \in SUBSET P
         /\ \A S \in SUBSET Path : From(P, S) = S \cup From(P, NextPaths(v, S))
         /\ NextPaths(v, P) \subseteq P
         /\ \A q \in Path, s \in Segment : Append(q, s) \in P => s \in DOMAIN Fields(getAt(v, q))
<1>1. ASSUME NEW q \in Path, NEW s \in DOMAIN Fields(getAt(v, q))
      PROVE  q \in P /\ s \in Segment /\ Append(q, s) \in P
  <2>1. q \in P
    BY <1>1, NoFields
  <2>2. s \in Segment /\ Append(q, s) \in Path
    BY <2>1, NodeFields, LongerPath DEF IsNode
  <2>3. getAt(v, Append(q, s)) = Fields(getAt(v, q))[s]
    BY <2>2, GetAtSteps, FoundIs
  <2>4. Fields(getAt(v, q))[s] # NoValue
    BY <2>1 DEF IsNode
  <2> QED BY <2>1, <2>2, <2>3, <2>4
<1>2. ASSUME NEW q \in Path, NEW s \in Segment, Append(q, s) \in P
      PROVE  s \in DOMAIN Fields(getAt(v, q))
  <2>1. getAt(v, Append(q, s)) = Found(getAt(v, q), s)
    BY GetAtSteps
  <2>2. getAt(v, Append(q, s)) # NoValue
    BY <1>2, NodeLabels DEF IsNode
  <2> QED BY <2>1, <2>2, FoundIs
<1>3. ASSUME NEW S \in SUBSET Path PROVE NextPaths(v, S) \in SUBSET P
  <2>1. \A q \in S : \A s \in DOMAIN Fields(getAt(v, q)) : Append(q, s) \in P
    BY <1>1
  <2>2. ASSUME NEW x \in NextPaths(v, S) PROVE x \in P
    <3>1. PICK q \in S : x \in {Append(q, s) : s \in DOMAIN Fields(getAt(v, q))}
      BY <2>2 DEF NextPaths
    <3> QED BY <2>1, <3>1
  <2> QED BY <2>2
<1>4. ASSUME NEW S \in SUBSET Path PROVE From(P, S) = S \cup From(P, NextPaths(v, S))
  <2> DEFINE N == NextPaths(v, S)
  <2>1. ASSUME NEW q \in N PROVE q \in From(P, S)
    <3>1. PICK p \in S : \E s \in DOMAIN Fields(getAt(v, p)) : q = Append(p, s)
      BY <2>1 DEF NextPaths
    <3>2. PICK s \in DOMAIN Fields(getAt(v, p)) : q = Append(p, s)
      BY <3>1
    <3>3. q \in P /\ IsPrefix(p, q)
      BY <1>1, <3>2, LongerNotPrefix
    <3> QED BY <3>1, <3>3 DEF From
  <2>2. ASSUME NEW q \in P, NEW p \in N, IsPrefix(p, q) PROVE q \in From(P, S)
    <3>1. PICK r \in S : \E s \in DOMAIN Fields(getAt(v, r)) : p = Append(r, s)
      BY <2>2 DEF NextPaths
    <3>2. PICK s \in DOMAIN Fields(getAt(v, r)) : p = Append(r, s)
      BY <3>1
    <3>3. s \in Segment /\ p \in Path
      BY <1>1, <3>2, LongerPath
    <3>4. IsPrefix(r, p)
      BY <3>2, <3>3, LongerNotPrefix
    <3>5. IsPrefix(r, q)
      BY <2>2, <3>3, <3>4, PrefixTransitive
    <3> QED BY <3>1, <3>5 DEF From
  <2>3. ASSUME NEW q \in P, NEW p \in S, IsPrefix(p, q) PROVE q \in S \cup From(P, N)
    <3>1. Len(p) \in Nat /\ Len(q) \in Nat /\ Len(p) <= Len(q) /\ p = Prefix(q, Len(p))
      BY <2>3, PathLen, IsPrefixOf, PrefixIsPrefix
    <3>2. CASE Len(p) = Len(q)
      BY <2>3, <3>1, <3>2, WholePrefix
    <3>3. CASE Len(p) < Len(q)
      <4> DEFINE n == Len(p) + 1
                 u == Prefix(q, n)
      <4>1. n \in 1..Len(q) /\ n \in 0..Len(q) /\ n - 1 = Len(p)
        BY <3>1, <3>3
      <4>2. u = Append(p, q[n]) /\ q[n] \in Segment
        BY <3>1, <4>1, PrefixStep
      <4>3. u \in Path /\ IsPrefix(u, q)
        BY <4>1, PrefixOf, PrefixIsPrefix
      <4>4. u \in P
        <5> DEFINE r == Rest(u, q)
        <5>1. q = u \o r /\ r \in Path
          BY <4>3, RestOf
        <5> HIDE DEF u, r
        <5>2. getAt(v, u \o r) = getAt(getAt(v, u), r)
          BY <4>3, <5>1, GetAtJoined
        <5>3. getAt(v, q) # NoValue
          BY <2>3, NodeLabels DEF IsNode
        <5> QED BY <4>3, <5>1, <5>2, <5>3, NothingBelowNothing
      <4> HIDE DEF n, u
      <4>5. u \in N
        BY <1>2, <2>3, <4>2, <4>4 DEF NextPaths
      <4> QED BY <2>3, <4>3, <4>5 DEF From
    <3> QED BY <3>1, <3>2, <3>3
  <2> QED BY <2>1, <2>2, <2>3 DEF From
<1> QED BY <1>1, <1>2, <1>3, <1>4

LEMMA BelowSteps ==
  ASSUME NEW v, NEW P \in SUBSET Path, <<>> \in P,
         \A q \in Path : IF q \in P THEN IsNode(getAt(v, q)) ELSE getAt(v, q) = NoValue
  PROVE  Below(v) = [paths \in SUBSET Path |->
                       IF paths = {} THEN {} ELSE paths \cup Below(v)[NextPaths(v, paths)]]
<1> DEFINE f == [S \in SUBSET Path |-> From(P, S)]
<1>1. ASSUME NEW S \in SUBSET Path
      PROVE  From(P, S) = IF S = {} THEN {} ELSE S \cup f[NextPaths(v, S)]
  <2>1. NextPaths(v, S) \in SUBSET Path /\ From(P, S) = S \cup From(P, NextPaths(v, S))
    BY ShownNext
  <2>2. f[NextPaths(v, S)] = From(P, NextPaths(v, S))
    BY <2>1
  <2>3. S = {} => From(P, S) = {}
    BY DEF From
  <2> QED BY <2>1, <2>2, <2>3
<1>2. f = [S \in SUBSET Path |-> IF S = {} THEN {} ELSE S \cup f[NextPaths(v, S)]]
  BY <1>1
<1> HIDE DEF f
<1>3. \E below : below = [paths \in SUBSET Path |->
                            IF paths = {} THEN {} ELSE paths \cup below[NextPaths(v, paths)]]
  BY <1>2
<1> QED BY <1>3, Zenon DEF Below

LEMMA PathsInAre ==
  ASSUME NEW v, NEW P \in SUBSET Path, <<>> \in P, IsFiniteSet(P),
         \A q \in Path : IF q \in P THEN IsNode(getAt(v, q)) ELSE getAt(v, q) = NoValue
  PROVE  PathsIn(v) = P
<1> DEFINE b == Below(v)
           Bad(n) == \E S \in SUBSET P : Cardinality(From(P, S)) = n /\ b[S] # From(P, S)
           sizes == {n \in Nat : Bad(n)}
<1>1. PathsIn(v) = b[{<<>>}]
  BY DEF PathsIn, Below
<1>0. Below(v) = [paths \in SUBSET Path |->
                     IF paths = {} THEN {} ELSE paths \cup Below(v)[NextPaths(v, paths)]]
  BY BelowSteps
<1>2. \A S \in SUBSET P : b[S] = IF S = {} THEN {} ELSE S \cup b[NextPaths(v, S)]
  BY <1>0
<1>3. ASSUME NEW S \in SUBSET P
      PROVE  /\ NextPaths(v, S) \in SUBSET P /\ From(P, S) = S \cup From(P, NextPaths(v, S))
             /\ From(P, S) \subseteq P
             /\ IsFiniteSet(From(P, S)) /\ Cardinality(From(P, S)) \in Nat
  <2>1. NextPaths(v, S) \in SUBSET P /\ From(P, S) = S \cup From(P, NextPaths(v, S))
    BY ShownNext
  <2>2. From(P, S) \subseteq P
    BY DEF From
  <2> QED BY <2>1, <2>2, FS_Subset, FS_CardinalityType
<1>4. ASSUME sizes # {} PROVE FALSE
  <2>1. PICK n \in sizes : \A m \in sizes : n <= m
    BY <1>4, LeastNatural
  <2>2. PICK S \in SUBSET P : Cardinality(From(P, S)) = n /\ b[S] # From(P, S)
    BY <2>1
  <2> DEFINE N == NextPaths(v, S)
  <2>3. S # {}
    BY <1>2, <2>2 DEF From
  <2>4. PICK p \in S : \A q \in S : Len(p) <= Len(q)
    BY <2>3, ShortestPath
  <2>5. p \notin From(P, N)
    <3>1. ASSUME NEW q \in N PROVE q \in Path /\ Len(q) > Len(p)
      <4>1. PICK r \in S : \E s \in DOMAIN Fields(getAt(v, r)) : q = Append(r, s)
        BY <3>1 DEF NextPaths
      <4>2. PICK s \in DOMAIN Fields(getAt(v, r)) : q = Append(r, s)
        BY <4>1
      <4>3. s \in Segment
        BY <4>1, NodeFields DEF IsNode
      <4>4. q \in Path /\ Len(q) = Len(r) + 1 /\ Len(r) \in Nat /\ Len(p) \in Nat /\ Len(p) <= Len(r)
        BY <2>4, <4>1, <4>2, <4>3, LongerPath, PathLen
      <4> QED BY <4>4
    <3>2. \A q \in N : ~IsPrefix(q, p)
      BY <3>1, IsPrefixOf, PathLen
    <3>3. p \notin N
      BY <3>1, PathLen
    <3> QED BY <3>2, <3>3 DEF From
  <2>6. /\ From(P, N) \subseteq From(P, S) /\ p \in From(P, S)
        /\ IsFiniteSet(From(P, S)) /\ IsFiniteSet(From(P, N))
        /\ Cardinality(From(P, N)) \in Nat /\ Cardinality(From(P, S)) \in Nat
    <3>1. p \in From(P, S)
      BY <2>4 DEF From
    <3> QED BY <1>3, <3>1
  <2>7. Cardinality(From(P, N)) < n
    BY <2>2, <2>5, <2>6, FS_Subset
  <2>8. b[N] = From(P, N)
    <3>1. Cardinality(From(P, N)) \notin sizes
      BY <2>1, <2>6, <2>7
    <3> HIDE DEF b, N
    <3> QED BY <1>3, <2>6, <3>1 DEF N
  <2> HIDE DEF b
  <2> QED BY <1>2, <1>3, <2>2, <2>3, <2>8
<1>5. {<<>>} \in SUBSET P
  OBVIOUS
<1>6. b[{<<>>}] = From(P, {<<>>})
  BY <1>3, <1>4, <1>5
<1>7. \A q \in P : IsPrefix(<<>>, q)
  BY IsPrefixOf, EmptyPath, PathLen
<1>8. From(P, {<<>>}) = P
  BY <1>7 DEF From
<1> QED BY <1>1, <1>6, <1>8

LEMMA ShownIsValue ==
  ASSUME NEW v, NEW t, WellFormed(t), Shows(v, t)
  PROVE  IsValue(v) /\ PathsIn(v) = DOMAIN t /\ PathsOf(v) = t
<1> DEFINE P == DOMAIN t
<1>1. /\ P \in SUBSET Path /\ <<>> \in P /\ IsFiniteSet(P) /\ t = [q \in P |-> t[q]]
  BY DEF WellFormed
<1>2. \A q \in Path : IF q \in P THEN IsNode(getAt(v, q)) /\ LabelOf(getAt(v, q)) = t[q]
                      ELSE getAt(v, q) = NoValue
  BY ShownEach
<1> HIDE DEF P
<1>3. PathsIn(v) = P
  BY <1>1, <1>2, PathsInAre
<1>4. NextPaths(v, P) \subseteq P
  BY <1>1, <1>2, ShownNext
<1>5. IsValue(v)
  BY <1>1, <1>2, <1>3, <1>4 DEF IsValue
<1>6. PathsOf(v) = [q \in P |-> LabelOf(getAt(v, q))]
  BY <1>3 DEF PathsOf
<1>7. \A q \in P : t[q] = LabelOf(getAt(v, q))
  BY <1>1, <1>2
<1>8. PathsOf(v) = t
  BY <1>1, <1>6, <1>7
<1> QED BY <1>3, <1>5, <1>8 DEF P

LEMMA ValueIsShown ==
  ASSUME NEW v, IsValue(v)
  PROVE  WellFormed(PathsOf(v)) /\ Shows(v, PathsOf(v))
<1> DEFINE P == PathsIn(v)
           t == PathsOf(v)
<1>1. /\ IsFiniteSet(P) /\ P \subseteq Path /\ <<>> \in P
      /\ \A q \in P : IsNode(getAt(v, q))
      /\ NextPaths(v, P) \subseteq P
  BY DEF IsValue
<1>2. DOMAIN t = P /\ t = [q \in P |-> LabelOf(getAt(v, q))]
  BY DEF PathsOf
<1> HIDE DEF P, t
<1> DEFINE bad == {q \in Path : q \notin P /\ getAt(v, q) # NoValue}
<1>3. ASSUME bad # {} PROVE FALSE
  <2>1. PICK q \in bad : \A r \in bad : Len(q) <= Len(r)
    BY <1>3, ShortestPath
  <2>2. q # <<>>
    BY <1>1, <2>1
  <2> DEFINE f == Front(q)
             s == Last(q)
  <2>3. f \in Path /\ s \in Segment /\ q = Append(f, s)
    BY <2>1, <2>2, FrontLast
  <2> HIDE DEF f, s
  <2>4. Len(f) \in Nat /\ Len(q) = Len(f) + 1
    BY <2>3, PathLen, LongerPath
  <2>5. f \notin bad
    BY <2>1, <2>4
  <2>6. s \in DOMAIN Fields(getAt(v, f))
    <3>1. getAt(v, Append(f, s)) = Found(getAt(v, f), s)
      BY <2>3, GetAtSteps
    <3>2. getAt(v, Append(f, s)) # NoValue
      BY <2>1, <2>3
    <3> QED BY <3>1, <3>2, <2>3, FoundIs
  <2>7. f \in P
    BY <2>3, <2>5, <2>6, NoFields
  <2>8. Append(f, s) \in NextPaths(v, P)
    BY <2>6, <2>7 DEF NextPaths
  <2> QED BY <1>1, <2>1, <2>3, <2>8
<1>4. \A q \in Path : IF q \in P THEN IsNode(getAt(v, q)) ELSE getAt(v, q) = NoValue
  BY <1>1, <1>3
<1>5. \A q \in P : t[q] = LabelOf(getAt(v, q)) /\ t[q] \in Labels /\ q \in Path
  BY <1>1, <1>2, NodeLabels DEF IsNode
<1>6. Shows(v, t)
  BY <1>2, <1>4, <1>5, ShownEach
<1>7. ASSUME NEW q \in P, NEW n \in 0..Len(q) PROVE Prefix(q, n) \in P
  <2> DEFINE u == Prefix(q, n)
             r == Rest(u, q)
  <2>1. q \in Path
    BY <1>1
  <2>2. u \in Path /\ IsPrefix(u, q)
    BY <2>1, PrefixOf, PrefixIsPrefix
  <2>3. q = u \o r /\ r \in Path
    BY <2>1, <2>2, RestOf
  <2> HIDE DEF u, r
  <2>4. getAt(v, u \o r) = getAt(getAt(v, u), r)
    BY <2>2, <2>3, GetAtJoined
  <2>5. getAt(v, q) # NoValue
    BY <1>1, NodeLabels DEF IsNode
  <2>6. u \in P
    BY <1>4, <2>2, <2>3, <2>4, <2>5, NothingBelowNothing
  <2> QED BY <2>6 DEF u
<1>8. t \in [P -> Labels]
  BY <1>2, <1>5
<1>9. Rooted(t)
  BY <1>1, <1>2, <1>7, <1>8 DEF Rooted
<1>10. ASSUME NEW q \in P PROVE SlotsOK(t[q], Slots(t, q))
  <2>1. q \in Path /\ q \in DOMAIN t /\ ShowsAt(getAt(v, q), t, q)
    BY <1>1, <1>2, <1>6, ShownBelow
  <2>2. /\ DOMAIN Fields(getAt(v, q)) \subseteq Segment
        /\ \A s \in Segment : s \in DOMAIN Fields(getAt(v, q)) <=> Append(q, s) \in DOMAIN t
    BY <2>1, ShownFields
  <2>3. /\ Slots(t, q) \subseteq Segment
        /\ \A s \in Segment : s \in Slots(t, q) <=> Append(q, s) \in DOMAIN t
    BY <1>9, <2>1, SlotIsChild
  <2>4. Slots(t, q) = DOMAIN Fields(getAt(v, q))
    BY <2>2, <2>3
  <2> QED BY <1>1, <1>5, <2>4, NodeFields DEF IsNode
<1>11. WellFormed(t)
  BY <1>2, <1>9, <1>10 DEF Rooted, WellFormed
<1> QED BY <1>6, <1>11 DEF t

LEMMA SameShown ==
  ASSUME NEW v, NEW w, NEW t, WellFormed(t), Shows(v, t), Shows(w, t)
  PROVE  v = w
<1> DEFINE bad == {q \in DOMAIN t : getAt(v, q) # getAt(w, q)}
<1>1. DOMAIN t \subseteq Path /\ IsFiniteSet(DOMAIN t) /\ <<>> \in DOMAIN t
  BY DEF WellFormed
<1>2. ASSUME bad # {} PROVE FALSE
  <2>1. IsFiniteSet(bad) /\ bad \in SUBSET Path
    BY <1>1, FS_Subset
  <2>2. PICK q \in bad : \A r \in bad : Len(r) <= Len(q)
    BY <1>2, <2>1, LongestPath
  <2> DEFINE x == getAt(v, q)
             y == getAt(w, q)
  <2>3. q \in Path /\ q \in DOMAIN t /\ x # y
    BY <1>1, <2>2
  <2>4. ShowsAt(x, t, q) /\ ShowsAt(y, t, q)
    BY <2>3, ShownBelow
  <2>5. IsNode(x) /\ IsNode(y) /\ LabelOf(x) = t[q] /\ LabelOf(y) = t[q]
    BY <2>3, <2>4, ShownTop
  <2>6. /\ DOMAIN Fields(x) \subseteq Segment /\ DOMAIN Fields(y) \subseteq Segment
        /\ \A s \in Segment : /\ s \in DOMAIN Fields(x) <=> Append(q, s) \in DOMAIN t
                              /\ s \in DOMAIN Fields(y) <=> Append(q, s) \in DOMAIN t
    BY <2>3, <2>4, ShownFields
  <2>7. DOMAIN Fields(x) = DOMAIN Fields(y)
    BY <2>6
  <2>8. ASSUME NEW s \in DOMAIN Fields(x) PROVE Fields(x)[s] = Fields(y)[s]
    <3>1. s \in Segment /\ Append(q, s) \in DOMAIN t /\ s \in DOMAIN Fields(y)
      BY <2>6, <2>7
    <3>2. Len(Append(q, s)) = Len(q) + 1 /\ Len(q) \in Nat
      BY <2>3, <3>1, LongerPath, PathLen
    <3>3. Append(q, s) \notin bad
      <4> DEFINE u == Append(q, s)
      <4>1. Len(u) = Len(q) + 1 /\ Len(q) \in Nat
        BY <3>2
      <4> HIDE DEF bad, u
      <4>2. u \notin bad
        BY <2>2, <4>1
      <4> QED BY <4>2 DEF u
    <3>4. getAt(v, Append(q, s)) = Found(x, s) /\ getAt(w, Append(q, s)) = Found(y, s)
      BY <2>3, <3>1, GetAtSteps
    <3> QED BY <3>1, <3>3, <3>4, FoundIs
  <2> HIDE DEF x, y
  <2> QED BY <2>3, <2>5, <2>7, <2>8, SameNode DEF IsNode
<1>3. getAt(v, <<>>) = getAt(w, <<>>)
  BY <1>1, <1>2
<1> QED BY <1>3, GetAtSteps

\* Two Values that have the same paths are the same Value.
LEMMA SameValue ==
  ASSUME NEW v, IsValue(v), NEW w, IsValue(w), PathsOf(v) = PathsOf(w)
  PROVE  v = w
  BY ValueIsShown, SameShown

-----------------------------------------------------------------------------
(***************************************************************************)
(* Reading, and the Values that are single nodes.                          *)
(***************************************************************************)
LEMMA ShownSub ==
  ASSUME NEW v, NEW t, Rooted(t), NEW p \in Path, ShowsAt(v, t, p)
  PROVE  Shows(v, Sub(t, p))
<1>1. /\ \A r \in Path : r \in DOMAIN Sub(t, p) <=> p \o r \in DOMAIN t
      /\ \A r \in DOMAIN Sub(t, p) : Sub(t, p)[r] = t[p \o r]
  BY SubDomain
<1> QED BY <1>1, ShownEach DEF ShowsAt

LEMMA SubValue ==
  ASSUME NEW v, IsValue(v), NEW p \in Path, getAt(v, p) # NoValue
  PROVE  /\ IsValue(getAt(v, p)) /\ PathsOf(getAt(v, p)) = Sub(PathsOf(v), p)
         /\ p \in DOMAIN PathsOf(v)
<1> DEFINE t == PathsOf(v)
<1>1. WellFormed(t) /\ Rooted(t) /\ Shows(v, t)
  BY ValueIsShown, WellFormedChildren
<1> HIDE DEF t
<1>2. p \in DOMAIN t
  BY <1>1, ShownEach
<1>3. WellFormed(Sub(t, p)) /\ Shows(getAt(v, p), Sub(t, p))
  BY <1>1, <1>2, ShownBelow, ShownSub, SubWellFormed
<1> QED BY <1>2, <1>3, ShownIsValue DEF t

LEMMA ReadValue ==
  ASSUME NEW v, IsValue(v), NEW p \in Path
  PROVE  LET t == PathsOf(v)
             x == getAt(v, p)
         IN  /\ x = NoValue <=> p \notin DOMAIN t
             /\ p \in DOMAIN t => IsNode(x) /\ LabelOf(x) = t[p]
             /\ x.kind = Array <=> p \in DOMAIN t /\ t[p] = Array
             /\ x.kind = Object <=> p \in DOMAIN t /\ t[p] = Object
             /\ x = NullValue <=> p \in DOMAIN t /\ t[p] = Null
<1> DEFINE t == PathsOf(v)
           x == getAt(v, p)
<1>1. IF p \in DOMAIN t THEN IsNode(x) /\ LabelOf(x) = t[p] ELSE x = NoValue
  BY ValueIsShown, ShownEach
<1> HIDE DEF t, x
<1>2. CASE p \in DOMAIN t
  BY <1>1, <1>2, NodeLabels DEF IsNode, t, x
<1>3. CASE p \notin DOMAIN t
  BY <1>1, <1>3 DEF t, x, NoValue, NullValue, Null, Array, Object
<1> QED BY <1>2, <1>3

LEMMA ValueFields ==
  ASSUME NEW v, IsValue(v), NEW p \in DOMAIN PathsOf(v)
  PROVE  p \in Path /\ DOMAIN Fields(getAt(v, p)) = Slots(PathsOf(v), p)
<1> DEFINE t == PathsOf(v)
<1>1. WellFormed(t) /\ Rooted(t) /\ Shows(v, t)
  BY ValueIsShown, WellFormedChildren
<1> HIDE DEF t
<1>2. p \in Path /\ p \in DOMAIN t
  BY <1>1 DEF Rooted, t
<1>3. /\ DOMAIN Fields(getAt(v, p)) \subseteq Segment
      /\ \A s \in Segment : s \in DOMAIN Fields(getAt(v, p)) <=> Append(p, s) \in DOMAIN t
  BY <1>1, <1>2, ShownBelow, ShownFields
<1>4. /\ Slots(t, p) \subseteq Segment
      /\ \A s \in Segment : s \in Slots(t, p) <=> Append(p, s) \in DOMAIN t
  BY <1>1, <1>2, SlotIsChild
<1> QED BY <1>2, <1>3, <1>4 DEF t

LEMMA RootHasValueAgrees ==
  ASSUME NEW v, IsValue(v)
  PROVE  rootHasValue(v) <=> RootHasValue(PathsOf(v))
<1> DEFINE t == PathsOf(v)
<1>1. WellFormed(t) /\ <<>> \in DOMAIN t
  BY ValueIsShown DEF WellFormed
<1>2. DOMAIN Fields(v) = Slots(t, <<>>) /\ IsNode(v) /\ LabelOf(v) = t[<<>>]
  BY <1>1, ValueFields, ReadValue, GetAtSteps
<1> HIDE DEF t
<1>3. Fields(v) = [s \in {} |-> NullValue] <=> DOMAIN Fields(v) = {}
  BY DEF Fields
<1>4. /\ v.kind = Null <=> t[<<>>] = Null
      /\ v.kind \in {Object, Array} <=> t[<<>>] \in {Object, Array}
  <2>1. v.kind = Null <=> v = NullValue
    BY <1>2 DEF IsNode, NodeShape, NullValue, Null, Object, Array
  <2> QED BY <1>2, <2>1, NodeLabels DEF IsNode
<1> QED BY <1>1, <1>2, <1>3, <1>4 DEF rootHasValue, RootHasValue, IsContainer, Exists, t

LEMMA NothingShown ==
  ASSUME NEW t, NEW p, \A r \in Path : p \o r \notin DOMAIN t
  PROVE  ShowsAt(NoValue, t, p)
  BY NothingBelowNothing DEF ShowsAt

LEMMA LeafValue ==
  ASSUME NEW x, NodeShape(x), DOMAIN Fields(x) = {}
  PROVE  IsValue(x) /\ PathsOf(x) = Leaf(LabelOf(x))
<1> DEFINE t == Leaf(LabelOf(x))
<1>1. WellFormed(t)
  BY NodeLabels, LeafWellFormed
<1>2. DOMAIN t = {<<>>} /\ t[<<>>] = LabelOf(x) /\ <<>> \in Path
  BY EmptyPath DEF Leaf
<1> HIDE DEF t
<1>3. ASSUME NEW s \in Segment PROVE ShowsAt(Found(x, s), t, Append(<<>>, s))
  <2>1. Append(<<>>, s) \in Path /\ Len(Append(<<>>, s)) = 1
    BY OneSegment, Zenon
  <2>2. \A r \in Path : Len(Append(<<>>, s) \o r) = 1 + Len(r) /\ Len(r) \in Nat
    BY <2>1, Joined, PathLen
  <2>3. \A r \in Path : Append(<<>>, s) \o r # <<>>
    BY <2>2, EmptyPath
  <2> QED BY <1>2, <2>3, NothingShown, FoundIs
<1>4. Shows(x, t)
  BY <1>2, <1>3, ShownByChildren DEF Shows
<1> QED BY <1>1, <1>4, ShownIsValue DEF t

LEMMA EmptyValues ==
  /\ IsValue(NullValue) /\ PathsOf(NullValue) = Leaf(Null)
  /\ \A s : /\ IsValue(emptyContainer(s)) /\ PathsOf(emptyContainer(s)) = Leaf(NewContainer(s))
            /\ NodeShape(emptyContainer(s)) /\ DOMAIN Fields(emptyContainer(s)) = {}
            /\ emptyContainer(s).kind = NewContainer(s)
<1>1. NodeShape(NullValue) /\ LabelOf(NullValue) = Null
  BY DEF NodeShape, LabelOf, NullValue, Null
<1>2. ASSUME NEW s
      PROVE  /\ NodeShape(emptyContainer(s)) /\ DOMAIN Fields(emptyContainer(s)) = {}
             /\ emptyContainer(s).kind = NewContainer(s) /\ LabelOf(emptyContainer(s)) = NewContainer(s)
  <2>1. CASE s.kind = "index"
    <3> DEFINE x == ArrayValue(<<>>)
    <3>1. emptyContainer(s) = x /\ NewContainer(s) = Array
      BY <2>1 DEF emptyContainer, NewContainer
    <3>2. x.kind = Array /\ x.arr = <<>> /\ Len(<<>>) = 0
      BY DEF ArrayValue
    <3>3. <<>> = [i \in 1..0 |-> x.arr[i]]
      OBVIOUS
    <3>4. NodeShape(x)
      BY <3>2, <3>3 DEF NodeShape, ArrayValue
    <3>5. DOMAIN x.arr = {}
      BY <3>2
    <3>6. Fields(x) = [z \in {Index(i - 1) : i \in DOMAIN x.arr} |-> x.arr[z.index + 1]]
      BY <3>2 DEF Fields, Array, Object
    <3>7. DOMAIN Fields(x) = {}
      BY <3>5, <3>6
    <3> HIDE DEF x
    <3> QED BY <3>1, <3>2, <3>4, <3>7, NodeLabels
  <2>2. CASE s.kind # "index"
    <3> DEFINE f == [k \in {} |-> NullValue]
               x == ObjectValue(f)
    <3>1. emptyContainer(s) = x /\ NewContainer(s) = Object
      BY <2>2 DEF emptyContainer, NewContainer
    <3>2. x.kind = Object /\ x.obj = f /\ DOMAIN f = {} /\ x = ObjectValue(x.obj)
      BY DEF ObjectValue
    <3>3. f = [k \in DOMAIN f |-> f[k]]
      OBVIOUS
    <3> HIDE DEF f, x
    <3>4. NodeShape(x)
      BY <3>2, <3>3 DEF NodeShape
    <3>5. Fields(x) = [z \in {Key(k) : k \in {}} |-> x.obj[z.key]]
      BY <3>2 DEF Fields
    <3>6. DOMAIN Fields(x) = {}
      BY <3>5
    <3> QED BY <3>1, <3>2, <3>4, <3>6, NodeLabels
  <2> QED BY <2>1, <2>2
<1> QED BY <1>1, <1>2, LeafValue, NoFields

-----------------------------------------------------------------------------
(***************************************************************************)
(* Changes to one node: an assignment to the map or the slice, nulls or a  *)
(* value appended to the slice, and a key deleted.                         *)
(***************************************************************************)
LEMMA SegmentIs ==
  ASSUME NEW s \in Segment
  PROVE  \/ /\ s.kind = "key" /\ s = Key(s.key) /\ s.key \in Keys /\ NewContainer(s) = Object
            /\ \A j : s # Index(j)
         \/ /\ s.kind = "index" /\ s = Index(s.index) /\ s.index \in Int /\ NewContainer(s) = Array
            /\ \A k : s # Key(k)
<1>1. CASE s \in [kind: {"key"}, key: Keys]
  BY <1>1 DEF NewContainer, Key, Index
<1>2. CASE s \in [kind: {"index"}, index: Int]
  BY <1>2 DEF NewContainer, Key, Index
<1> QED BY <1>1, <1>2 DEF Segment

LEMMA ArrayNode ==
  ASSUME NEW f, NEW n \in Nat, f = [i \in 1..n |-> f[i]]
  PROVE  /\ NodeShape(ArrayValue(f)) /\ ArrayValue(f).kind = Array /\ LabelOf(ArrayValue(f)) = Array
         /\ ArrayValue(f).arr = f /\ Len(f) = n /\ DOMAIN Fields(ArrayValue(f)) \subseteq Segment
         /\ \A j \in Int : Index(j) \in DOMAIN Fields(ArrayValue(f)) <=> j \in 0..(n - 1)
         /\ \A j \in 0..(n - 1) : Fields(ArrayValue(f))[Index(j)] = f[j + 1]
<1> DEFINE x == ArrayValue(f)
<1>1. x.kind = Array /\ x.arr = f
  BY DEF ArrayValue
<1>2. Len(f) = n
  <2> DEFINE S == {f[i] : i \in 1..n}
             m == Len(f)
  <2>1. f \in [1..n -> S]
    OBVIOUS
  <2>2. f \in Seq(S)
    BY <2>1, SeqDef
  <2>3. m \in Nat /\ DOMAIN f = 1..m /\ DOMAIN f = 1..n
    BY <2>1, <2>2, LenProperties
  <2> HIDE DEF m
  <2>4. m = n
    <3>1. m > 0 => m \in 1..n
      BY <2>3
    <3>2. n > 0 => n \in 1..m
      BY <2>3
    <3> QED BY <2>3, <3>1, <3>2
  <2> QED BY <2>4 DEF m
<1>3. NodeShape(x)
  BY <1>1, <1>2 DEF NodeShape
<1> HIDE DEF x
<1>4. LabelOf(x) = Array /\ DOMAIN Fields(x) \subseteq Segment
  BY <1>1, <1>3, NodeLabels, NodeFields
<1>5. /\ \A j \in Int : Index(j) \in DOMAIN Fields(x) <=> j \in 0..(Len(f) - 1)
      /\ \A j \in 0..(Len(f) - 1) : Fields(x)[Index(j)] = f[j + 1]
  BY <1>1, <1>3, NodeFields
<1> QED BY <1>1, <1>2, <1>3, <1>4, <1>5 DEF x

LEMMA ObjectNode ==
  ASSUME NEW f, f = [k \in DOMAIN f |-> f[k]], DOMAIN f \subseteq Keys
  PROVE  /\ NodeShape(ObjectValue(f)) /\ ObjectValue(f).kind = Object /\ LabelOf(ObjectValue(f)) = Object
         /\ ObjectValue(f).obj = f /\ DOMAIN Fields(ObjectValue(f)) \subseteq Segment
         /\ \A s \in DOMAIN Fields(ObjectValue(f)) : s = Key(s.key)
         /\ \A k \in Keys : Key(k) \in DOMAIN Fields(ObjectValue(f)) <=> k \in DOMAIN f
         /\ \A k \in DOMAIN f : Fields(ObjectValue(f))[Key(k)] = f[k]
<1> DEFINE x == ObjectValue(f)
<1>1. x.kind = Object /\ x.obj = f
  BY DEF ObjectValue
<1>2. NodeShape(x)
  BY <1>1 DEF NodeShape
<1> HIDE DEF x
<1>3. LabelOf(x) = Object /\ DOMAIN Fields(x) \subseteq Segment
  BY <1>1, <1>2, NodeLabels, NodeFields
<1>4. /\ \A k \in Keys : Key(k) \in DOMAIN Fields(x) <=> k \in DOMAIN f
      /\ \A k \in DOMAIN f : Fields(x)[Key(k)] = f[k]
  BY <1>1, <1>2, NodeFields
<1>5. \A s \in DOMAIN Fields(x) : s.kind = "key"
  BY <1>2, <1>3, NodeFields DEF SlotsOK
<1>6. \A s \in DOMAIN Fields(x) : s = Key(s.key)
  BY <1>3, <1>5, SegmentIs
<1> QED BY <1>1, <1>2, <1>3, <1>4, <1>6 DEF x

\* The slots of an array are indexes.
LEMMA ArraySlots ==
  ASSUME NEW x, NodeShape(x), x.kind = Array
  PROVE  \A s \in DOMAIN Fields(x) : s \in Segment /\ s = Index(s.index) /\ s.index \in Int
<1>1. LabelOf(x) = Array /\ DOMAIN Fields(x) \subseteq Segment /\ SlotsOK(LabelOf(x), DOMAIN Fields(x))
  BY NodeLabels, NodeFields
<1>2. \A s \in DOMAIN Fields(x) : s.kind = "index"
  BY <1>1 DEF SlotsOK
<1> QED BY <1>1, <1>2, SegmentIs

LEMMA PutNode ==
  ASSUME NEW x, NodeShape(x), NEW s \in Segment, x.kind = NewContainer(s),
         s.kind = "index" => s \in DOMAIN Fields(x), NEW c
  PROVE  /\ NodeShape(Put(x, s, c)) /\ LabelOf(Put(x, s, c)) = LabelOf(x)
         /\ DOMAIN Fields(Put(x, s, c)) = DOMAIN Fields(x) \cup {s}
         /\ \A z \in DOMAIN Fields(x) \cup {s} :
              Fields(Put(x, s, c))[z] = IF z = s THEN c ELSE Fields(x)[z]
<1>1. CASE s.kind = "key"
  <2>1. /\ s = Key(s.key) /\ s.key \in Keys /\ x.kind = Object /\ LabelOf(x) = Object
        /\ DOMAIN x.obj \subseteq Keys
    BY <1>1, SegmentIs, NodeLabels, NodeFields
  <2> DEFINE f == [k \in DOMAIN x.obj \cup {s.key} |-> IF k = s.key THEN c ELSE x.obj[k]]
             y == ObjectValue(f)
  <2>2. f = [k \in DOMAIN f |-> f[k]] /\ DOMAIN f \subseteq Keys
    BY <2>1
  <2>3. Put(x, s, c) = y
    BY <2>1 DEF Put
  <2>4. \A k : Key(k).key = k
    BY DEF Key
  <2>5. DOMAIN f = DOMAIN x.obj \cup {s.key} /\ \A k \in DOMAIN f : f[k] = IF k = s.key THEN c ELSE x.obj[k]
    OBVIOUS
  <2> HIDE DEF f
  <2>6. /\ NodeShape(y) /\ LabelOf(y) = Object /\ DOMAIN Fields(y) \subseteq Segment
        /\ \A z \in DOMAIN Fields(y) : z = Key(z.key)
        /\ \A k \in Keys : Key(k) \in DOMAIN Fields(y) <=> k \in DOMAIN f
        /\ \A k \in DOMAIN f : Fields(y)[Key(k)] = f[k]
    BY <2>2, ObjectNode
  <2>7. /\ \A k \in Keys : Key(k) \in DOMAIN Fields(x) <=> k \in DOMAIN x.obj
        /\ \A k \in DOMAIN x.obj : k \in Keys /\ Fields(x)[Key(k)] = x.obj[k]
        /\ DOMAIN Fields(x) \subseteq Segment
        /\ \A z \in DOMAIN Fields(x) : z.kind = "key"
    BY <2>1, NodeFields DEF SlotsOK
  <2>8. \A z \in DOMAIN Fields(x) : z = Key(z.key) /\ z.key \in Keys
    BY <2>7, SegmentIs
  <2>9. \A z \in DOMAIN Fields(y) : z = Key(z.key) /\ z.key \in Keys
    <3>1. \A z \in DOMAIN Fields(y) : z.kind = "key" /\ z \in Segment
      BY <2>6 DEF Key
    <3> QED BY <3>1, SegmentIs
  <2> HIDE DEF y
  <2>10. DOMAIN Fields(y) = DOMAIN Fields(x) \cup {s}
    <3>1. ASSUME NEW z \in DOMAIN Fields(y) PROVE z \in DOMAIN Fields(x) \cup {s}
      <4>1. z = Key(z.key) /\ z.key \in Keys /\ z.key \in DOMAIN f
        BY <2>6, <2>9
      <4> QED BY <2>1, <2>5, <2>7, <4>1
    <3>2. ASSUME NEW z \in DOMAIN Fields(x) \cup {s} PROVE z \in DOMAIN Fields(y)
      <4>1. z = Key(z.key) /\ z.key \in Keys
        BY <2>1, <2>8
      <4>2. z.key \in DOMAIN f
        BY <2>5, <2>7, <4>1
      <4> QED BY <2>6, <4>1, <4>2
    <3> QED BY <3>1, <3>2
  <2>11. ASSUME NEW z \in DOMAIN Fields(x) \cup {s}
         PROVE  Fields(y)[z] = IF z = s THEN c ELSE Fields(x)[z]
    <3>1. z = Key(z.key) /\ z.key \in Keys /\ z.key \in DOMAIN f
      BY <2>6, <2>9, <2>10
    <3>2. Fields(y)[z] = f[z.key]
      BY <2>6, <3>1
    <3>3. z # s => z.key # s.key /\ z.key \in DOMAIN x.obj /\ Fields(x)[z] = x.obj[z.key]
      BY <2>1, <2>7, <3>1
    <3> QED BY <2>5, <3>1, <3>2, <3>3
  <2> QED BY <2>1, <2>3, <2>6, <2>10, <2>11
<1>2. CASE s.kind = "index"
  <2> DEFINE n == Len(x.arr)
  <2>1. /\ s = Index(s.index) /\ s.index \in Int /\ x.kind = Array /\ LabelOf(x) = Array
        /\ s \in DOMAIN Fields(x)
    BY <1>2, SegmentIs, NodeLabels
  <2>2. /\ n \in Nat /\ DOMAIN x.arr = 1..n /\ x.arr = [i \in 1..n |-> x.arr[i]]
        /\ \A j \in Int : Index(j) \in DOMAIN Fields(x) <=> j \in 0..(n - 1)
        /\ \A j \in 0..(n - 1) : Fields(x)[Index(j)] = x.arr[j + 1]
    <3>1. x.arr = [i \in 1..n |-> x.arr[i]]
      BY <2>1 DEF NodeShape, NullValue, Null, Object, Array, ArrayValue
    <3> QED BY <2>1, <3>1, NodeFields
  <2> DEFINE f == [x.arr EXCEPT ![s.index + 1] = c]
             y == ArrayValue(f)
  <2>3. Put(x, s, c) = y
    BY <2>1 DEF Put, Array, Object
  <2> HIDE DEF n
  <2>4. s.index \in 0..(n - 1) /\ s.index + 1 \in 1..n
    BY <2>1, <2>2
  <2>5. f = [i \in 1..n |-> f[i]] /\ \A i \in 1..n : f[i] = IF i = s.index + 1 THEN c ELSE x.arr[i]
    BY <2>2, <2>4
  <2> HIDE DEF f
  <2>6. /\ NodeShape(y) /\ LabelOf(y) = Array /\ y.kind = Array
        /\ \A j \in Int : Index(j) \in DOMAIN Fields(y) <=> j \in 0..(n - 1)
        /\ \A j \in 0..(n - 1) : Fields(y)[Index(j)] = f[j + 1]
    BY <2>2, <2>5, ArrayNode
  <2> HIDE DEF y
  <2>7. \A z \in DOMAIN Fields(x) \cup DOMAIN Fields(y) : z = Index(z.index) /\ z.index \in Int
    BY <2>1, <2>6, ArraySlots
  <2>8. DOMAIN Fields(y) = DOMAIN Fields(x) /\ DOMAIN Fields(x) \cup {s} = DOMAIN Fields(x)
    <3>1. ASSUME NEW z \in DOMAIN Fields(x) PROVE z \in DOMAIN Fields(y)
      <4>1. z = Index(z.index) /\ z.index \in Int
        BY <2>7
      <4> QED BY <2>2, <2>6, <4>1
    <3>2. ASSUME NEW z \in DOMAIN Fields(y) PROVE z \in DOMAIN Fields(x)
      <4>1. z = Index(z.index) /\ z.index \in Int
        BY <2>7
      <4> QED BY <2>2, <2>6, <4>1
    <3> QED BY <2>1, <3>1, <3>2
  <2>9. ASSUME NEW z \in DOMAIN Fields(x) PROVE Fields(y)[z] = IF z = s THEN c ELSE Fields(x)[z]
    <3>1. z = Index(z.index) /\ z.index \in Int /\ z.index \in 0..(n - 1) /\ z.index + 1 \in 1..n
      BY <2>2, <2>7
    <3>2. Fields(y)[z] = f[z.index + 1] /\ Fields(x)[z] = x.arr[z.index + 1]
      BY <2>2, <2>6, <3>1
    <3>3. z = s <=> z.index + 1 = s.index + 1
      BY <2>1, <3>1
    <3> QED BY <2>5, <3>1, <3>2, <3>3
  <2> QED BY <2>1, <2>3, <2>6, <2>8, <2>9
<1> QED BY <1>1, <1>2, SegmentIs

LEMMA LongerArray ==
  ASSUME NEW x, NodeShape(x), x.kind = Array, NEW S, NEW g \in Seq(S), NEW c \in S,
         NEW k \in Nat, k = Len(g), k >= Len(x.arr),
         \A i \in 1..Len(x.arr) : g[i] = x.arr[i],
         \A i \in 1..k : i > Len(x.arr) => g[i] = c
  PROVE  /\ NodeShape(ArrayValue(g)) /\ LabelOf(ArrayValue(g)) = Array /\ ArrayValue(g).kind = Array
         /\ DOMAIN Fields(ArrayValue(g)) \subseteq Segment
         /\ DOMAIN Fields(x) \subseteq DOMAIN Fields(ArrayValue(g))
         /\ \A j \in Int : Index(j) \in DOMAIN Fields(ArrayValue(g)) <=> j \in 0..(k - 1)
         /\ \A z \in DOMAIN Fields(ArrayValue(g)) :
              Fields(ArrayValue(g))[z] = IF z \in DOMAIN Fields(x) THEN Fields(x)[z] ELSE c
<1> DEFINE y == ArrayValue(g)
           n == Len(x.arr)
<1>1. /\ n \in Nat
      /\ \A j \in Int : Index(j) \in DOMAIN Fields(x) <=> j \in 0..(n - 1)
      /\ \A j \in 0..(n - 1) : Fields(x)[Index(j)] = x.arr[j + 1]
  BY NodeFields
<1> HIDE DEF n
<1>2. k >= n /\ g = [i \in 1..k |-> g[i]]
  BY LenProperties DEF n
<1>3. /\ NodeShape(y) /\ LabelOf(y) = Array /\ y.kind = Array /\ DOMAIN Fields(y) \subseteq Segment
      /\ \A j \in Int : Index(j) \in DOMAIN Fields(y) <=> j \in 0..(k - 1)
      /\ \A j \in 0..(k - 1) : Fields(y)[Index(j)] = g[j + 1]
  BY <1>2, ArrayNode
<1> HIDE DEF y
<1>4. \A z \in DOMAIN Fields(x) \cup DOMAIN Fields(y) : z = Index(z.index) /\ z.index \in Int
  BY <1>3, ArraySlots
<1>5. ASSUME NEW z \in DOMAIN Fields(x) PROVE z \in DOMAIN Fields(y)
  <2>1. z = Index(z.index) /\ z.index \in Int /\ z.index \in 0..(n - 1)
    BY <1>1, <1>4
  <2>2. z.index \in 0..(k - 1)
    BY <1>1, <1>2, <2>1
  <2> QED BY <1>3, <2>1, <2>2
<1>6. ASSUME NEW z \in DOMAIN Fields(y)
      PROVE  Fields(y)[z] = IF z \in DOMAIN Fields(x) THEN Fields(x)[z] ELSE c
  <2>1. z = Index(z.index) /\ z.index \in Int /\ z.index \in 0..(k - 1)
    BY <1>3, <1>4
  <2>2. Fields(y)[z] = g[z.index + 1] /\ z.index + 1 \in 1..k
    <3>1. Fields(y)[Index(z.index)] = g[z.index + 1]
      BY <1>3, <2>1
    <3>2. z.index + 1 \in 1..k
      BY <2>1
    <3> QED BY <2>1, <3>1, <3>2
  <2>3. CASE z \in DOMAIN Fields(x)
    <3>1. z.index \in 0..(n - 1) /\ z.index + 1 \in 1..n
      BY <1>1, <2>1, <2>3
    <3>2. Fields(x)[z] = x.arr[z.index + 1] /\ g[z.index + 1] = x.arr[z.index + 1]
      BY <1>1, <2>1, <3>1 DEF n
    <3> QED BY <2>2, <2>3, <3>2
  <2>4. CASE z \notin DOMAIN Fields(x)
    <3>1. z.index \notin 0..(n - 1)
      BY <1>1, <2>1, <2>4
    <3>2. z.index + 1 > n
      BY <1>1, <2>1, <3>1
    <3> QED BY <2>2, <2>4, <3>2 DEF n
  <2> QED BY <2>3, <2>4
<1> QED BY <1>3, <1>5, <1>6 DEF y, n

LEMMA ArrayOf ==
  ASSUME NEW x, NodeShape(x), x.kind = Array, NEW c
  PROVE  LET S == {x.arr[i] : i \in 1..Len(x.arr)} \cup {c}
         IN  x.arr \in Seq(S) /\ x.arr = [i \in 1..Len(x.arr) |-> x.arr[i]] /\ Len(x.arr) \in Nat
<1> DEFINE n == Len(x.arr)
           S == {x.arr[i] : i \in 1..n} \cup {c}
<1>1. x.arr = [i \in 1..n |-> x.arr[i]] /\ n \in Nat
  BY DEF NodeShape, NullValue, Null, Object, Array, ArrayValue
<1> HIDE DEF n
<1>2. x.arr \in [1..n -> S]
  BY <1>1
<1>3. x.arr \in Seq(S)
  BY <1>1, <1>2, SeqDef
<1> QED BY <1>1, <1>3 DEF n

LEMMA AppendedNode ==
  ASSUME NEW x, NodeShape(x), x.kind = Array, NEW c
  PROVE  LET y == ArrayValue(Append(x.arr, c))
             s == Index(Len(x.arr))
         IN  /\ NodeShape(y) /\ LabelOf(y) = Array /\ Len(x.arr) \in Nat
             /\ DOMAIN Fields(y) = DOMAIN Fields(x) \cup {s} /\ s \notin DOMAIN Fields(x)
             /\ \A z \in DOMAIN Fields(y) :
                  Fields(y)[z] = IF z \in DOMAIN Fields(x) THEN Fields(x)[z] ELSE c
<1> DEFINE g == Append(x.arr, c)
           n == Len(x.arr)
           S == {x.arr[i] : i \in 1..n} \cup {c}
           y == ArrayValue(g)
           s == Index(n)
<1>1. x.arr \in Seq(S) /\ c \in S /\ n \in Nat
  BY ArrayOf
<1>2. /\ g \in Seq(S) /\ Len(g) = n + 1
      /\ \A i \in 1..n : g[i] = x.arr[i]
      /\ g[n + 1] = c
  BY <1>1, AppendProperties
<1> HIDE DEF g
<1> DEFINE k == n + 1
<1>4. /\ k \in Nat /\ k >= n /\ k = Len(g)
      /\ \A i \in 1..k : i > n => g[i] = c
  BY <1>1, <1>2
<1> HIDE DEF k, S
<1>5. /\ NodeShape(y) /\ LabelOf(y) = Array /\ y.kind = Array
      /\ DOMAIN Fields(x) \subseteq DOMAIN Fields(y)
      /\ \A j \in Int : Index(j) \in DOMAIN Fields(y) <=> j \in 0..(k - 1)
      /\ \A z \in DOMAIN Fields(y) :
           Fields(y)[z] = IF z \in DOMAIN Fields(x) THEN Fields(x)[z] ELSE c
  BY <1>1, <1>2, <1>4, LongerArray
<1>6. \A j \in Int : Index(j) \in DOMAIN Fields(x) <=> j \in 0..(n - 1)
  BY NodeFields
<1> HIDE DEF n, y
<1>7. \A z \in DOMAIN Fields(y) : z = Index(z.index) /\ z.index \in Int
  BY <1>5, ArraySlots
<1>8. s \in DOMAIN Fields(y) /\ s \notin DOMAIN Fields(x)
  BY <1>1, <1>5, <1>6 DEF k
<1>9. ASSUME NEW z \in DOMAIN Fields(y) PROVE z \in DOMAIN Fields(x) \cup {s}
  <2>1. z = Index(z.index) /\ z.index \in 0..(k - 1)
    BY <1>5, <1>7
  <2>2. z.index = n \/ z.index \in 0..(n - 1)
    BY <1>1, <2>1 DEF k
  <2> QED BY <1>6, <2>1, <2>2
<1> QED BY <1>1, <1>5, <1>8, <1>9 DEF g, n, y

LEMMA ExtendedNode ==
  ASSUME NEW x, NodeShape(x), NEW s \in Segment, x.kind = NewContainer(s),
         s.kind = "index" => s.index >= 0
  PROVE  LET y == Extended(x, s)
         IN  /\ NodeShape(y) /\ LabelOf(y) = LabelOf(x) /\ y.kind = x.kind
             /\ s.kind = "index" => s \in DOMAIN Fields(y)
             /\ DOMAIN Fields(x) \subseteq DOMAIN Fields(y)
             /\ DOMAIN Fields(y) \subseteq Segment
             /\ \A z \in DOMAIN Fields(y) : z \notin DOMAIN Fields(x) =>
                  s.kind = "index" /\ \E j \in 0..s.index : z = Index(j)
             /\ s.kind = "index" => \A j \in 0..s.index : Index(j) \in DOMAIN Fields(y)
             /\ \A z \in DOMAIN Fields(y) :
                  Fields(y)[z] = IF z \in DOMAIN Fields(x) THEN Fields(x)[z] ELSE NullValue
<1>1. CASE s.kind = "key"
  <2>1. x.kind = Object /\ s.kind # "index"
    BY <1>1, SegmentIs
  <2>2. Extended(x, s) = x
    BY <2>1 DEF Extended
  <2> QED BY <2>1, <2>2, NodeFields
<1>2. CASE s.kind = "index"
  <2> DEFINE n == Len(x.arr)
             m == IF s.index + 1 - n > 0 THEN s.index + 1 - n ELSE 0
             pad == [i \in 1..m |-> NullValue]
             S == {x.arr[i] : i \in 1..n} \cup {NullValue}
             g == x.arr \o pad
             y == ArrayValue(g)
  <2>1. /\ s = Index(s.index) /\ s.index \in Nat /\ x.kind = Array /\ LabelOf(x) = Array
    BY <1>2, SegmentIs, NodeLabels
  <2>2. x.arr \in Seq(S) /\ n \in Nat
    BY <2>1, ArrayOf
  <2> HIDE DEF n
  <2>3. m \in Nat /\ 1..m = 1..(s.index + 1 - n) /\ n + m - 1 >= s.index
        /\ (n + m - 1 > n - 1 => n + m - 1 = s.index)
    BY <2>1, <2>2
  <2>4. Extended(x, s) = y
    BY <2>1, <2>3 DEF Extended, Array, Object, n
  <2> HIDE DEF m
  <2>5. pad \in [1..m -> S]
    OBVIOUS
  <2>6. pad \in Seq(S) /\ Len(pad) = m
    <3> DEFINE k == Len(pad)
    <3>1. pad \in Seq(S)
      BY <2>3, <2>5, SeqDef
    <3>2. k \in Nat /\ DOMAIN pad = 1..k
      BY <3>1, LenProperties
    <3>3. DOMAIN pad = 1..m
      OBVIOUS
    <3>a. \A i \in Int : i \in 1..k <=> i \in 1..m
      BY <3>2, <3>3, Zenon
    <3> HIDE DEF k, pad
    <3>4. k > 0 => k \in 1..m
      BY <3>2, <3>a
    <3>5. m > 0 => m \in 1..k
      BY <2>3, <3>2, <3>a
    <3>6. k = m
      BY <2>3, <3>2, <3>4, <3>5
    <3> QED BY <3>1, <3>6 DEF k
  <2>7. \A i \in 1..m : pad[i] = NullValue
    OBVIOUS
  <2> HIDE DEF pad
  <2>8. /\ g \in Seq(S) /\ Len(g) = n + m
        /\ \A i \in 1..(n + m) : g[i] = IF i <= n THEN x.arr[i] ELSE pad[i - n]
    BY <2>2, <2>6, ConcatProperties DEF n
  <2> HIDE DEF g
  <2>9. /\ g = [i \in 1..(n + m) |-> g[i]]
        /\ \A i \in 1..n : g[i] = x.arr[i]
        /\ \A i \in 1..(n + m) : i > n => g[i] = NullValue
    <3>1. g = [i \in 1..(n + m) |-> g[i]]
      BY <2>8, LenProperties
    <3>2. ASSUME NEW i \in 1..n PROVE g[i] = x.arr[i]
      <4>1. i \in 1..(n + m) /\ i <= n
        BY <2>2, <2>3
      <4> QED BY <2>8, <4>1
    <3>3. ASSUME NEW i \in 1..(n + m), i > n PROVE g[i] = NullValue
      <4>1. i - n \in 1..m /\ ~(i <= n)
        BY <2>2, <2>3, <3>3
      <4> QED BY <2>7, <2>8, <4>1
    <3> QED BY <3>1, <3>2, <3>3
  <2> DEFINE k == n + m
  <2>a. k \in Nat /\ k >= n
    BY <2>2, <2>3
  <2> HIDE DEF k
  <2>b. /\ g \in Seq(S) /\ k = Len(g) /\ NullValue \in S
        /\ \A i \in 1..n : g[i] = x.arr[i]
        /\ \A i \in 1..k : i > n => g[i] = NullValue
    BY <2>8, <2>9 DEF k
  <2> HIDE DEF S
  <2>10. /\ NodeShape(y) /\ LabelOf(y) = Array /\ y.kind = Array /\ DOMAIN Fields(y) \subseteq Segment
         /\ DOMAIN Fields(x) \subseteq DOMAIN Fields(y)
         /\ \A j \in Int : Index(j) \in DOMAIN Fields(y) <=> j \in 0..(k - 1)
         /\ \A z \in DOMAIN Fields(y) :
              Fields(y)[z] = IF z \in DOMAIN Fields(x) THEN Fields(x)[z] ELSE NullValue
    BY <2>1, <2>a, <2>b, LongerArray DEF n
  <2>11. \A j \in Int : Index(j) \in DOMAIN Fields(x) <=> j \in 0..(n - 1)
    BY <2>1, NodeFields DEF n
  <2> HIDE DEF y
  <2>12. \A z \in DOMAIN Fields(y) : z = Index(z.index) /\ z.index \in Int
    BY <2>10, ArraySlots
  <2>13. ASSUME NEW z \in DOMAIN Fields(y), z \notin DOMAIN Fields(x)
         PROVE  \E j \in 0..s.index : z = Index(j)
    <3>1. z = Index(z.index) /\ z.index \in Int /\ z.index \in 0..(k - 1) /\ z.index \notin 0..(n - 1)
      BY <2>10, <2>11, <2>12, <2>13
    <3>2. z.index \in 0..s.index
      BY <2>1, <2>2, <2>3, <3>1 DEF k
    <3> QED BY <3>1, <3>2
  <2>14. ASSUME NEW j \in 0..s.index PROVE Index(j) \in DOMAIN Fields(y)
    <3>1. j \in 0..(k - 1)
      BY <2>1, <2>2, <2>3 DEF k
    <3> QED BY <2>10, <3>1
  <2>15. s \in DOMAIN Fields(y)
    BY <2>1, <2>14
  <2> QED BY <1>2, <2>1, <2>4, <2>10, <2>13, <2>14, <2>15
<1> QED BY <1>1, <1>2, SegmentIs

LEMMA WithoutKey ==
  ASSUME NEW x, NodeShape(x), x.kind = Object, NEW s \in Segment, s.kind = "key"
  PROVE  LET y == Without(x, s)
         IN  /\ NodeShape(y) /\ LabelOf(y) = Object
             /\ DOMAIN Fields(y) = DOMAIN Fields(x) \ {s}
             /\ \A z \in DOMAIN Fields(y) : Fields(y)[z] = Fields(x)[z]
<1> DEFINE f == [k \in DOMAIN x.obj \ {s.key} |-> x.obj[k]]
           y == ObjectValue(f)
<1>1. s = Key(s.key) /\ s.key \in Keys /\ DOMAIN x.obj \subseteq Keys /\ \A k : Key(k).key = k
  BY SegmentIs, NodeFields DEF Key
<1>2. Without(x, s) = y
  BY DEF Without
<1>3. f = [k \in DOMAIN f |-> f[k]] /\ DOMAIN f \subseteq Keys
  BY <1>1
<1>4. DOMAIN f = DOMAIN x.obj \ {s.key} /\ \A k \in DOMAIN f : f[k] = x.obj[k]
  OBVIOUS
<1> HIDE DEF f
<1>5. /\ NodeShape(y) /\ LabelOf(y) = Object /\ DOMAIN Fields(y) \subseteq Segment
      /\ \A z \in DOMAIN Fields(y) : z = Key(z.key)
      /\ \A k \in Keys : Key(k) \in DOMAIN Fields(y) <=> k \in DOMAIN f
      /\ \A k \in DOMAIN f : Fields(y)[Key(k)] = f[k]
  BY <1>3, ObjectNode
<1>6. /\ \A k \in Keys : Key(k) \in DOMAIN Fields(x) <=> k \in DOMAIN x.obj
      /\ \A k \in DOMAIN x.obj : k \in Keys /\ Fields(x)[Key(k)] = x.obj[k]
      /\ DOMAIN Fields(x) \subseteq Segment
      /\ \A z \in DOMAIN Fields(x) : z.kind = "key"
  BY NodeLabels, NodeFields DEF SlotsOK
<1> HIDE DEF y
<1>7. \A z \in DOMAIN Fields(x) \cup DOMAIN Fields(y) : z = Key(z.key) /\ z.key \in Keys
  <2>1. \A z \in DOMAIN Fields(x) \cup DOMAIN Fields(y) : z \in Segment /\ z.kind = "key"
    BY <1>5, <1>6 DEF Key
  <2> QED BY <2>1, SegmentIs
<1>8. ASSUME NEW z \in DOMAIN Fields(x) \cup DOMAIN Fields(y)
      PROVE  /\ z \in DOMAIN Fields(y) <=> z \in DOMAIN Fields(x) /\ z # s
             /\ z \in DOMAIN Fields(y) => Fields(y)[z] = Fields(x)[z]
  <2>1. z = Key(z.key) /\ z.key \in Keys
    BY <1>7
  <2>2. z \in DOMAIN Fields(y) <=> z.key \in DOMAIN f
    BY <1>5, <2>1
  <2>3. z \in DOMAIN Fields(x) <=> z.key \in DOMAIN x.obj
    BY <1>6, <2>1
  <2>4. z = s <=> z.key = s.key
    BY <1>1, <2>1
  <2>5. z \in DOMAIN Fields(y) => Fields(y)[z] = f[z.key] /\ Fields(x)[z] = x.obj[z.key]
    BY <1>4, <1>5, <1>6, <2>1, <2>2
  <2> QED BY <1>4, <2>2, <2>3, <2>4, <2>5
<1>9. DOMAIN Fields(y) = DOMAIN Fields(x) \ {s}
  BY <1>8
<1> QED BY <1>2, <1>5, <1>8, <1>9

-----------------------------------------------------------------------------
(***************************************************************************)
(* setAt.  Nodes and Outcomes are the functions that its definition        *)
(* chooses, Stand(root, p, n) is the node that it comes to after n         *)
(* segments, as long as none of them has failed.                           *)
(***************************************************************************)
Nodes(root, path) ==
  CHOOSE node : node = [n \in 0..(Len(path) - 1) |->
                          IF n = 0 THEN root
                          ELSE Descend(Extended(node[n - 1], path[n]), path[n], path[n + 1])]

OutcomeAt(root, path, value, n, deep) ==
  LET seg  == path[n + 1]
      base == Extended(Nodes(root, path)[n], seg)
  IN  IF n = Len(path) THEN Outcome("ok", value)
      ELSE IF seg.kind = "index" /\ seg.index < 0 THEN Outcome("indexOutOfRange", Nodes(root, path)[n])
      ELSE IF Nodes(root, path)[n].kind # emptyContainer(seg).kind
      THEN Outcome("typeConflict", Nodes(root, path)[n])
      ELSE IF deep.err # "ok" THEN Outcome(deep.err, base)
      ELSE Outcome("ok", Put(base, seg, deep.node))

Outcomes(root, path, value) ==
  CHOOSE outcome : outcome = [n \in 0..Len(path) |-> OutcomeAt(root, path, value, n, outcome[n + 1])]

LEMMA SetAtOutcome ==
  ASSUME NEW root, NEW p, NEW value
  PROVE  setAt(root, p, value) = Outcomes(root, p, value)[0]
  BY DEF setAt, Outcomes, OutcomeAt, Nodes

LEMMA NodesSteps ==
  ASSUME NEW root, NEW p \in Path
  PROVE  Nodes(root, p) = [n \in 0..(Len(p) - 1) |->
                             IF n = 0 THEN root
                             ELSE Descend(Extended(Nodes(root, p)[n - 1], p[n]), p[n], p[n + 1])]
<1> DEFINE Solves(f, m) == f = [n \in 0..m |->
                                  IF n = 0 THEN root
                                  ELSE Descend(Extended(f[n - 1], p[n]), p[n], p[n + 1])]
           bad == {m \in Nat : ~ \E f : Solves(f, m)}
<1>1. ASSUME bad # {} PROVE FALSE
  <2>1. PICK m \in bad : \A n \in bad : m <= n
    BY <1>1, LeastNatural
  <2>2. CASE m = 0
    <3> DEFINE f == [n \in 0..0 |-> root]
    <3>1. \A n \in 0..0 : root = IF n = 0 THEN root
                                 ELSE Descend(Extended(f[n - 1], p[n]), p[n], p[n + 1])
      OBVIOUS
    <3>2. Solves(f, 0)
      BY <3>1, ZenonT(30)
    <3> QED BY <2>1, <2>2, <3>2
  <2>3. CASE m # 0
    <3>1. m - 1 \in Nat /\ m - 1 \notin bad
      <4>1. m \in Nat
        BY <2>1
      <4> HIDE DEF bad
      <4> QED BY <2>1, <2>3, <4>1
    <3>2. PICK f : Solves(f, m - 1)
      BY <3>1
    <3> DEFINE g == [n \in 0..m |->
                       IF n = m THEN Descend(Extended(f[m - 1], p[m]), p[m], p[m + 1]) ELSE f[n]]
    <3>3. ASSUME NEW n \in 0..m
          PROVE  g[n] = IF n = 0 THEN root
                        ELSE Descend(Extended(g[n - 1], p[n]), p[n], p[n + 1])
      <4>1. CASE n = m
        <5>1. m - 1 \in 0..m /\ m - 1 # m
          BY <2>1, <3>1
        <5> QED BY <2>3, <4>1, <5>1
      <4>2. CASE n # m
        <5>1. n \in 0..(m - 1) /\ (n # 0 => n - 1 \in 0..m /\ n - 1 # m)
          BY <2>1, <3>1, <4>2
        <5>2. f[n] = IF n = 0 THEN root ELSE Descend(Extended(f[n - 1], p[n]), p[n], p[n + 1])
          BY <3>2, <5>1
        <5> QED BY <4>2, <5>1, <5>2
      <4> QED BY <4>1, <4>2
    <3>4. Solves(g, m)
      <4> HIDE DEF Solves
      <4>1. g = [n \in 0..m |-> g[n]]
        OBVIOUS
      <4> HIDE DEF g
      <4> QED BY <3>3, <4>1, ZenonT(30) DEF Solves
    <3> QED BY <2>1, <3>4
  <2> QED BY <2>2, <2>3
<1>2. Len(p) \in Nat
  BY PathLen
<1> DEFINE last == Len(p) - 1
           Step(f) == [n \in 0..last |->
                         IF n = 0 THEN root ELSE Descend(Extended(f[n - 1], p[n]), p[n], p[n + 1])]
<1>3. \E f : f = Step(f)
  <2>1. CASE last \in Nat
    BY <1>1, <2>1
  <2>2. CASE last \notin Nat
    <3> DEFINE f == [n \in {} |-> root]
    <3>1. 0..last = {}
      BY <1>2, <2>2
    <3> HIDE DEF last
    <3>2. f = Step(f)
      BY <3>1
    <3> QED BY <3>2
  <2> QED BY <2>1, <2>2
<1> QED BY <1>3, Zenon DEF Nodes

\* One turn of the recursions that go back from the end of a path.
Turn(call, root, path, value, n, deep) ==
  IF call = "setAt" THEN OutcomeAt(root, path, value, n, deep)
  ELSE IF n = Len(path) THEN value
  ELSE Put(getAt(root, Prefix(path, n)), path[n + 1], deep)

AllTurns(f, call, root, path, value) ==
  f = [n \in 0..Len(path) |-> Turn(call, root, path, value, n, f[n + 1])]

LEMMA TurnsExist ==
  ASSUME NEW call, NEW root, NEW p \in Path, NEW value
  PROVE  \E f : AllTurns(f, call, root, p, value)
<1> DEFINE L == Len(p)
           F(n, deep) == Turn(call, root, p, value, n, deep)
           Solves(f, m) == f = [n \in (L - m)..L |-> F(n, f[n + 1])]
           bad == {m \in Nat : ~ \E f : Solves(f, m)}
<1>0. L \in Nat
  BY PathLen
<1>9. \A d, e : F(L, d) = F(L, e)
  BY DEF OutcomeAt, Turn
<1> HIDE DEF L, F
<1>1. ASSUME bad # {} PROVE FALSE
  <2>1. PICK m \in bad : \A n \in bad : m <= n
    BY <1>1, LeastNatural
  <2>2. CASE m = 0
    <3> DEFINE f == [n \in L..L |-> F(L, 0)]
    <3>1. \A n \in L..L : F(L, 0) = F(n, f[n + 1])
      BY <1>0, <1>9
    <3>2. L - 0 = L
      BY <1>0
    <3>3. f = [n \in L..L |-> F(n, f[n + 1])]
      <4> HIDE DEF f
      <4>1. f = [n \in L..L |-> F(L, 0)]
        BY DEF f
      <4> QED BY <3>1, <4>1, ZenonT(30)
    <3>4. Solves(f, 0)
      BY <3>2, <3>3
    <3> QED BY <2>1, <2>2, <3>4
  <2>3. CASE m # 0
    <3>1. m - 1 \in Nat /\ m - 1 \notin bad /\ m \in Nat
      <4>1. m \in Nat
        BY <2>1
      <4> HIDE DEF bad
      <4> QED BY <2>1, <2>3, <4>1
    <3>2. PICK f : Solves(f, m - 1)
      BY <3>1
    <3> DEFINE k == L - m
               g == [n \in k..L |-> IF n = k THEN F(k, f[k + 1]) ELSE f[n]]
    <3>3. L - (m - 1) = k + 1 /\ k \in Int
      BY <1>0, <3>1
    <3>4. f = [n \in (k + 1)..L |-> F(n, f[n + 1])]
      BY <3>2, <3>3
    <3> HIDE DEF k, Solves
    <3>5. k + 1 \in k..L /\ k + 1 # k /\ k \in k..L
      BY <1>0, <2>3, <3>1, <3>3 DEF k
    <3>6. ASSUME NEW n \in k..L PROVE g[n] = F(n, g[n + 1])
      <4>1. CASE n = k
        BY <3>5, <4>1
      <4>2. CASE n = L /\ n # k
        <5>1. n \in (k + 1)..L
          BY <1>0, <3>3, <4>2
        <5>2. f[n] = F(n, f[n + 1])
          BY <3>4, <5>1
        <5> QED BY <1>9, <4>2, <5>2
      <4>3. CASE n # L /\ n # k
        <5>1. n \in (k + 1)..L /\ n + 1 \in k..L /\ n + 1 # k
          BY <1>0, <3>3, <4>3
        <5>2. f[n] = F(n, f[n + 1])
          BY <3>4, <5>1
        <5> QED BY <4>3, <5>1, <5>2
      <4> QED BY <4>1, <4>2, <4>3
    <3>7. Solves(g, m)
      <4>1. g = [n \in k..L |-> g[n]]
        OBVIOUS
      <4> HIDE DEF g
      <4>2. g = [n \in k..L |-> F(n, g[n + 1])]
        BY <3>6, <4>1, ZenonT(30)
      <4> QED BY <4>2 DEF k, Solves
    <3> QED BY <2>1, <3>7
  <2> QED BY <2>2, <2>3
<1>2. L - L = 0
  BY <1>0
<1>3. \E f : f = [n \in 0..L |-> F(n, f[n + 1])]
  BY <1>0, <1>1, <1>2
<1> QED BY <1>3 DEF F, L, AllTurns

LEMMA OutcomesSteps ==
  ASSUME NEW root, NEW p \in Path, NEW value
  PROVE  Outcomes(root, p, value) =
           [n \in 0..Len(p) |-> OutcomeAt(root, p, value, n, Outcomes(root, p, value)[n + 1])]
<1>1. \A n, deep : Turn("setAt", root, p, value, n, deep) = OutcomeAt(root, p, value, n, deep)
  BY DEF Turn
<1>2. PICK f : AllTurns(f, "setAt", root, p, value)
  BY TurnsExist
<1>3. f = [n \in 0..Len(p) |-> OutcomeAt(root, p, value, n, f[n + 1])]
  BY <1>1, <1>2, ZenonT(30) DEF AllTurns
<1>4. \E g : g = [n \in 0..Len(p) |-> OutcomeAt(root, p, value, n, g[n + 1])]
  BY <1>3
<1> QED BY <1>4, Zenon DEF Outcomes

Stand(root, p, n) ==
  LET x == getAt(root, Prefix(p, n))
  IN  IF x # NoValue /\ (n = 0 \/ x # NullValue) THEN x ELSE emptyContainer(p[n + 1])

LEMMA StandIs ==
  ASSUME NEW root, IsValue(root), NEW p \in Path, NEW n \in 0..(Len(p) - 1)
  PROVE  LET x == Stand(root, p, n)
             t == PathsOf(root)
             q == Prefix(p, n)
         IN  /\ q \in Path /\ p[n + 1] \in Segment /\ Prefix(p, n + 1) = Append(q, p[n + 1])
             /\ n + 1 \in 1..Len(p) /\ n \in 0..Len(p) /\ (n + 1) - 1 = n
             /\ NodeShape(x) /\ DOMAIN Fields(x) \subseteq Segment
             /\ \A c \in {Object, Array} : x.kind = c <=> Standing(t, p, n + 1) = c
             /\ \A z \in Segment : /\ Found(x, z) = getAt(root, Append(q, z))
                                   /\ z \in DOMAIN Fields(x) <=> Append(q, z) \in DOMAIN t
<1> DEFINE q == Prefix(p, n)
           t == PathsOf(root)
           x == getAt(root, q)
           y == Stand(root, p, n)
           e == emptyContainer(p[n + 1])
<1>1. Len(p) \in Nat /\ n + 1 \in 1..Len(p) /\ n \in 0..Len(p) /\ (n + 1) - 1 = n
  BY PathLen
<1>2. q \in Path /\ p[n + 1] \in Segment /\ Prefix(p, n + 1) = Append(q, p[n + 1])
  BY <1>1, PrefixStep
<1>3. WellFormed(t) /\ Shows(root, t) /\ t = PathsOf(root)
  BY ValueIsShown
<1>4. /\ x = NoValue <=> q \notin DOMAIN t
      /\ q \in DOMAIN t => IsNode(x) /\ LabelOf(x) = t[q]
      /\ x = NullValue <=> q \in DOMAIN t /\ t[q] = Null
  BY <1>2, ReadValue
<1>5. y = IF x # NoValue /\ (n = 0 \/ x # NullValue) THEN x ELSE e
  BY DEF Stand
<1>6. /\ NodeShape(e) /\ DOMAIN Fields(e) = {} /\ e.kind = NewContainer(p[n + 1])
      /\ LabelOf(e) = NewContainer(p[n + 1]) /\ NewContainer(p[n + 1]) \in {Object, Array}
  <2>1. NodeShape(e) /\ DOMAIN Fields(e) = {} /\ e.kind = NewContainer(p[n + 1])
    BY EmptyValues
  <2>2. NewContainer(p[n + 1]) \in {Object, Array}
    BY ContainerLabels
  <2> QED BY <2>1, <2>2, NodeLabels
<1>7. Standing(t, p, n + 1) = IF q \in DOMAIN t /\ (n + 1 = 1 \/ t[q] # Null) THEN t[q]
                              ELSE NewContainer(p[n + 1])
  BY <1>1 DEF Standing
<1>8. n + 1 = 1 <=> n = 0
  BY <1>1
<1> HIDE DEF q, t, x, y, e
<1>9. NodeShape(y) /\ LabelOf(y) = Standing(t, p, n + 1)
  BY <1>4, <1>5, <1>6, <1>7, <1>8 DEF IsNode
<1>10. \A c \in {Object, Array} : y.kind = c <=> Standing(t, p, n + 1) = c
  BY <1>9, NodeLabels
<1>11. DOMAIN Fields(y) \subseteq Segment
  BY <1>9, NodeFields
<1>12. ASSUME NEW z \in Segment
       PROVE  /\ Found(y, z) = getAt(root, Append(q, z))
              /\ z \in DOMAIN Fields(y) <=> Append(q, z) \in DOMAIN t
  <2>1. getAt(root, Append(q, z)) = Found(x, z) /\ Append(q, z) \in Path
    BY <1>2, GetAtSteps, LongerPath DEF x
  <2>2. Found(y, z) = Found(x, z)
    BY <1>4, <1>5, <1>6, FoundIs, NoFields
  <2>3. getAt(root, Append(q, z)) = NoValue <=> Append(q, z) \notin DOMAIN t
    BY <2>1, ReadValue DEF t
  <2>4. z \in DOMAIN Fields(y) => Found(y, z) # NoValue
    <3>1. CASE y = x
      <4>1. CASE IsNode(y)
        BY <4>1, FoundIs DEF IsNode
      <4>2. CASE ~IsNode(y)
        BY <1>4, <3>1, <4>2, NoFields
      <4> QED BY <4>1, <4>2
    <3>2. CASE y # x
      BY <1>5, <1>6, <3>2
    <3> QED BY <3>1, <3>2
  <2> QED BY <2>1, <2>2, <2>3, <2>4, FoundIs
<1> QED BY <1>1, <1>2, <1>9, <1>10, <1>11, <1>12 DEF q, t, x, y

LEMMA StepAgrees ==
  ASSUME NEW root, IsValue(root), NEW p \in Path, NEW n \in 0..(Len(p) - 1)
  PROVE  LET x == Stand(root, p, n)
             s == p[n + 1]
         IN  StepError(PathsOf(root), p, n + 1) =
               IF s.kind = "index" /\ s.index < 0 THEN "indexOutOfRange"
               ELSE IF x.kind # emptyContainer(s).kind THEN "typeConflict"
               ELSE "ok"
<1> DEFINE x == Stand(root, p, n)
           t == PathsOf(root)
           s == p[n + 1]
<1>1. \A c \in {Object, Array} : x.kind = c <=> Standing(t, p, n + 1) = c
  BY StandIs
<1>2. emptyContainer(s).kind = NewContainer(s) /\ NewContainer(s) \in {Object, Array}
  BY EmptyValues, ContainerLabels
<1> HIDE DEF x, t
<1>3. x.kind # emptyContainer(s).kind <=> Standing(t, p, n + 1) # NewContainer(s)
  BY <1>1, <1>2
<1> QED BY <1>3 DEF StepError, t, x

\* The node in which setAt goes on is the one that Stand says.
LEMMA StandNext ==
  ASSUME NEW root, IsValue(root), NEW p \in Path, NEW n \in 1..(Len(p) - 1),
         StepError(PathsOf(root), p, n) = "ok"
  PROVE  Descend(Extended(Stand(root, p, n - 1), p[n]), p[n], p[n + 1]) = Stand(root, p, n)
<1> DEFINE x == Stand(root, p, n - 1)
           s == p[n]
           b == Extended(x, s)
           c == getAt(root, Prefix(p, n))
<1>1. Len(p) \in Nat /\ n - 1 \in 0..(Len(p) - 1) /\ (n - 1) + 1 = n /\ n # 0
  BY PathLen
<1>2. /\ s \in Segment /\ NodeShape(x) /\ DOMAIN Fields(x) \subseteq Segment
      /\ \A k \in {Object, Array} : x.kind = k <=> Standing(PathsOf(root), p, n) = k
      /\ Found(x, s) = getAt(root, Append(Prefix(p, n - 1), s))
      /\ Prefix(p, n) = Append(Prefix(p, n - 1), s)
  BY <1>1, StandIs
<1>3. /\ s.kind = "index" => s.index \in Nat
      /\ Standing(PathsOf(root), p, n) = NewContainer(s)
  BY <1>1, StepFits
<1>4. x.kind = NewContainer(s) /\ (s.kind = "index" => s.index >= 0)
  BY <1>2, <1>3, ContainerLabels
<1>5. Found(x, s) = c
  BY <1>2
<1> HIDE DEF x, s, c
<1>6. /\ DOMAIN Fields(x) \subseteq DOMAIN Fields(b)
      /\ \A z \in DOMAIN Fields(b) :
           Fields(b)[z] = IF z \in DOMAIN Fields(x) THEN Fields(x)[z] ELSE NullValue
  BY <1>2, <1>4, ExtendedNode
<1> HIDE DEF b
<1>7. Descend(b, s, p[n + 1]) =
        IF s \in DOMAIN Fields(b) /\ Fields(b)[s] # NullValue THEN Fields(b)[s]
        ELSE emptyContainer(p[n + 1])
  BY DEF Descend
<1>8. Stand(root, p, n) = IF c # NoValue /\ c # NullValue THEN c ELSE emptyContainer(p[n + 1])
  BY <1>1 DEF Stand, c
<1>9. ASSUME s \in DOMAIN Fields(x) PROVE Descend(b, s, p[n + 1]) = Stand(root, p, n)
  <2>1. c = Fields(x)[s] /\ s \in DOMAIN Fields(b) /\ Fields(b)[s] = c
    BY <1>5, <1>6, <1>9, FoundIs
  <2>2. c # NoValue
    <3>1. Append(Prefix(p, n - 1), s) \in DOMAIN PathsOf(root) /\ Append(Prefix(p, n - 1), s) \in Path
      BY <1>1, <1>2, <1>9, StandIs, LongerPath DEF x
    <3> QED BY <1>2, <1>5, <3>1, ReadValue
  <2> QED BY <1>7, <1>8, <2>1, <2>2
<1>10. ASSUME s \notin DOMAIN Fields(x) PROVE Descend(b, s, p[n + 1]) = Stand(root, p, n)
  <2>1. c = NoValue
    BY <1>5, <1>10, FoundIs
  <2>2. s \in DOMAIN Fields(b) => Fields(b)[s] = NullValue
    BY <1>6, <1>10
  <2> QED BY <1>7, <1>8, <2>1, <2>2
<1> QED BY <1>9, <1>10, Zenon DEF b, x, s

LEMMA NodesStand ==
  ASSUME NEW root, IsValue(root), NEW p \in Path, NEW n \in 0..(Len(p) - 1),
         \A m \in 1..n : StepError(PathsOf(root), p, m) = "ok"
  PROVE  Nodes(root, p)[n] = Stand(root, p, n)
<1> DEFINE bad == {m \in Nat : m <= n /\ Nodes(root, p)[m] # Stand(root, p, m)}
<1>0. Len(p) \in Nat /\ n \in Nat /\ n <= Len(p) - 1
  BY PathLen
<1>1. \A m \in 0..(Len(p) - 1) :
        Nodes(root, p)[m] = IF m = 0 THEN root
                            ELSE Descend(Extended(Nodes(root, p)[m - 1], p[m]), p[m], p[m + 1])
  BY NodesSteps
<1>2. ASSUME bad # {} PROVE FALSE
  <2>1. PICK m \in bad : \A k \in bad : m <= k
    BY <1>2, LeastNatural
  <2>2. m \in Nat /\ m <= n /\ Nodes(root, p)[m] # Stand(root, p, m) /\ m \in 0..(Len(p) - 1)
    BY <1>0, <2>1
  <2>3. CASE m = 0
    <3>1. Prefix(p, 0) = <<>> /\ getAt(root, <<>>) = root
      BY WholePrefix, GetAtSteps
    <3>2. root # NoValue
      <4>1. <<>> \in Path /\ <<>> \in DOMAIN PathsOf(root)
        BY EmptyPath, ValueIsShown DEF WellFormed
      <4> QED BY <3>1, <4>1, ReadValue
    <3> QED BY <1>1, <2>2, <2>3, <3>1, <3>2 DEF Stand
  <2>4. CASE m # 0
    <3>1. m - 1 \in Nat /\ m - 1 \notin bad /\ m \in 1..n /\ m \in 1..(Len(p) - 1)
      <4>1. m - 1 \in Nat /\ m \in 1..n /\ m \in 1..(Len(p) - 1)
        BY <1>0, <2>2, <2>4
      <4> HIDE DEF bad
      <4> QED BY <2>1, <4>1
    <3>2. Nodes(root, p)[m - 1] = Stand(root, p, m - 1)
      BY <1>0, <2>2, <3>1
    <3>3. Descend(Extended(Stand(root, p, m - 1), p[m]), p[m], p[m + 1]) = Stand(root, p, m)
      BY <3>1, StandNext
    <3> QED BY <1>1, <2>2, <2>4, <3>2, <3>3
  <2> QED BY <2>3, <2>4
<1> QED BY <1>0, <1>2

\* Storing a child, where the node and its other children are as they should be.
LEMMA PutShown ==
  ASSUME NEW x, NodeShape(x), NEW s \in Segment, x.kind = NewContainer(s),
         s.kind = "index" => s \in DOMAIN Fields(x), NEW c,
         NEW t, NEW q \in DOMAIN t, q \in Path, t[q] = NewContainer(s),
         ShowsAt(c, t, Append(q, s)), Append(q, s) \in DOMAIN t,
         \A z \in Segment : z # s =>
           ShowsAt(Found(x, z), t, Append(q, z)) /\ (z \in DOMAIN Fields(x) => Append(q, z) \in DOMAIN t)
  PROVE  ShowsAt(Put(x, s, c), t, q)
<1> DEFINE y == Put(x, s, c)
<1>1. /\ NodeShape(y) /\ LabelOf(y) = LabelOf(x)
      /\ DOMAIN Fields(y) = DOMAIN Fields(x) \cup {s}
      /\ \A z \in DOMAIN Fields(x) \cup {s} : Fields(y)[z] = IF z = s THEN c ELSE Fields(x)[z]
  BY PutNode
<1>2. LabelOf(x) = NewContainer(s)
  BY ContainerLabels, NodeLabels
<1>3. DOMAIN Fields(x) \subseteq Segment
  BY NodeFields
<1> HIDE DEF y
<1>4. ASSUME NEW z \in Segment PROVE ShowsAt(Found(y, z), t, Append(q, z))
  <2>1. CASE z = s
    BY <1>1, <2>1, FoundIs
  <2>2. CASE z # s
    <3>1. Found(y, z) = Found(x, z)
      BY <1>1, <2>2, FoundIs
    <3> QED BY <2>2, <3>1
  <2> QED BY <2>1, <2>2
<1>5. ASSUME NEW z \in DOMAIN Fields(y) PROVE Append(q, z) \in DOMAIN t
  BY <1>1, <1>3
<1> QED BY <1>1, <1>2, <1>4, <1>5, ShownByChildren DEF y

\* A path that leaves p after n segments.
LEMMA BesidePath ==
  ASSUME NEW p \in Path, NEW n \in 0..(Len(p) - 1), NEW z \in Segment, z # p[n + 1], NEW r \in Path
  PROVE  LET u == Append(Prefix(p, n), z) \o r
         IN  /\ u \in Path /\ Len(u) = n + 1 + Len(r) /\ u[n + 1] = z
             /\ \A i \in 1..n : u[i] = p[i]
             /\ ~IsPrefix(p, u) /\ ~IsPrefix(u, p)
<1> DEFINE q == Prefix(p, n)
           v == Append(q, z)
           u == v \o r
<1>1. Len(p) \in Nat /\ Len(r) \in Nat /\ n \in 0..Len(p)
  BY PathLen
<1>2. q \in Path /\ Len(q) = n /\ \A i \in 1..n : q[i] = p[i]
  BY <1>1, PrefixOf
<1> HIDE DEF q
<1>3. v \in Path /\ Len(v) = n + 1 /\ v[n + 1] = z /\ \A i \in 1..n : v[i] = p[i]
  BY <1>2, LongerPath
<1> HIDE DEF v
<1>4. /\ u \in Path /\ Len(u) = Len(v) + Len(r)
      /\ \A i \in 1..(Len(v) + Len(r)) : u[i] = IF i <= Len(v) THEN v[i] ELSE r[i - Len(v)]
  BY <1>3, Joined
<1> HIDE DEF u
<1>5. Len(u) = n + 1 + Len(r) /\ u[n + 1] = z /\ \A i \in 1..n : u[i] = p[i]
  <2>1. n + 1 \in 1..(Len(v) + Len(r)) /\ \A i \in 1..n : i \in 1..(Len(v) + Len(r)) /\ i <= Len(v)
    BY <1>1, <1>3
  <2> QED BY <1>1, <1>3, <1>4, <2>1
<1>6. n + 1 \in 1..Len(p) /\ n + 1 \in 1..Len(u)
  BY <1>1, <1>5
<1>7. ~IsPrefix(p, u) /\ ~IsPrefix(u, p)
  BY <1>4, <1>5, <1>6, IsPrefixOf
<1> QED BY <1>4, <1>5, <1>7 DEF u, v, q

PaddedWith(p, n, z) == p[n + 1].kind = "index" /\ \E j \in 0..p[n + 1].index : z = Index(j)

LEMMA OpenedBeside ==
  ASSUME NEW t, NEW p \in Path, NEW n \in 0..(Len(p) - 1),
         NEW z \in Segment, z # p[n + 1], NEW r \in Path
  PROVE  LET u == Append(Prefix(p, n), z) \o r
         IN  /\ u \in DOMAIN Opened(t, p) <=> u \in DOMAIN t \/ (r = <<>> /\ PaddedWith(p, n, z))
             /\ u \in DOMAIN Opened(t, p) =>
                  Opened(t, p)[u] = IF u \in DOMAIN t THEN t[u] ELSE Null
<1> DEFINE q == Prefix(p, n)
           u == Append(q, z) \o r
           onPath == {Prefix(p, m) : m \in 0..(Len(p) - 1)}
           padded == UNION {Padding(p, m) : m \in 1..Len(p)}
<1>1. Len(p) \in Nat /\ Len(r) \in Nat /\ n \in 0..Len(p) /\ n + 1 \in 1..Len(p) /\ (n + 1) - 1 = n
  BY PathLen
<1>2. q \in Path /\ Append(q, z) \in Path
  BY <1>1, PrefixOf, LongerPath
<1>3. /\ u \in Path /\ Len(u) = n + 1 + Len(r) /\ u[n + 1] = z
      /\ \A i \in 1..n : u[i] = p[i]
      /\ ~IsPrefix(p, u) /\ ~IsPrefix(u, p)
  BY BesidePath
<1>4. r = <<>> => u = Append(q, z)
  BY <1>2, JoinEmpty
<1> HIDE DEF u
<1>5. u \notin onPath
  <2>1. ASSUME NEW m \in 0..(Len(p) - 1) PROVE IsPrefix(Prefix(p, m), p)
    <3>1. m \in 0..Len(p)
      BY <1>1
    <3> QED BY <3>1, PrefixOf, PrefixIsPrefix
  <2> QED BY <1>3, <2>1
<1>6. ASSUME NEW m \in 1..Len(p), u \in Padding(p, m) PROVE r = <<>> /\ PaddedWith(p, n, z)
  <2>1. p[m].kind = "index" /\ \E j \in 0..p[m].index : u = Append(Prefix(p, m - 1), Index(j))
    BY <1>6, PaddingNode
  <2>2. PICK j \in 0..p[m].index : u = Append(Prefix(p, m - 1), Index(j))
    BY <2>1
  <2>3. m - 1 \in 0..Len(p) /\ j \in Int /\ Index(j) \in Segment
    BY <1>1, IndexSegment
  <2>4. Prefix(p, m - 1) \in Path /\ Len(Prefix(p, m - 1)) = m - 1 /\ \A i \in 1..(m - 1) : Prefix(p, m - 1)[i] = p[i]
    BY <2>3, PrefixOf
  <2>5. Len(u) = m - 1 + 1 /\ u[m - 1 + 1] = Index(j) /\ \A i \in 1..(m - 1) : u[i] = p[i]
    BY <2>2, <2>3, <2>4, LongerPath
  <2>6. m = n + 1
    <3>1. m - 1 > n => n + 1 \in 1..(m - 1)
      BY <1>1
    <3>2. ~(m - 1 > n)
      BY <1>3, <2>5, <3>1
    <3> QED BY <1>1, <1>3, <2>5, <3>2
  <2>7. Len(r) = 0 /\ z = Index(j)
    BY <1>1, <1>3, <2>5, <2>6
  <2> QED BY <2>1, <2>6, <2>7, EmptyPath DEF PaddedWith
<1>7. ASSUME r = <<>>, PaddedWith(p, n, z) PROVE u \in padded
  <2>1. u \in Padding(p, n + 1)
    BY <1>1, <1>4, <1>7 DEF PaddedWith, Padding
  <2> QED BY <1>1, <2>1
<1>8. u \in padded <=> r = <<>> /\ PaddedWith(p, n, z)
  BY <1>6, <1>7
<1>9. /\ DOMAIN Opened(t, p) = DOMAIN t \cup onPath \cup padded
      /\ \A x \in DOMAIN Opened(t, p) : x \notin onPath =>
           Opened(t, p)[x] = IF x \in DOMAIN t THEN t[x] ELSE Null
  <2> HIDE DEF padded
  <2> QED BY DEF Opened, padded
<1> HIDE DEF onPath, padded
<1> QED BY <1>5, <1>8, <1>9 DEF u, q

\* What stands in a slot of the longer slice: the child that was there, a null
\* appended to it, or nothing.
LEMMA PaddedChild ==
  ASSUME NEW t, NEW G, NEW v \in Path, NEW old, ShowsAt(old, t, v), NEW pad \in BOOLEAN,
         \A r \in Path :
           /\ v \o r \in DOMAIN G <=> v \o r \in DOMAIN t \/ (r = <<>> /\ pad)
           /\ v \o r \in DOMAIN G => G[v \o r] = IF v \o r \in DOMAIN t THEN t[v \o r] ELSE Null
  PROVE  ShowsAt(IF v \in DOMAIN t THEN old ELSE IF pad THEN NullValue ELSE NoValue, G, v)
<1>1. v \o <<>> = v /\ <<>> \in Path
  BY JoinEmpty, EmptyPath
<1>2. CASE v \in DOMAIN t
  <2>1. \A r \in Path : /\ v \o r \in DOMAIN G <=> v \o r \in DOMAIN t
                        /\ v \o r \in DOMAIN G => G[v \o r] = t[v \o r]
    BY <1>1, <1>2
  <2>2. ShowsAt(old, G, v)
    BY <2>1 DEF ShowsAt
  <2> QED BY <1>2, <2>2
<1>3. CASE v \notin DOMAIN t
  <2>1. old = NoValue
    BY <1>3, ShownTop
  <2>2. \A r \in Path : v \o r \notin DOMAIN t
    <3>1. ShowsAt(NoValue, t, v)
      BY <2>1
    <3> QED BY <3>1, NothingBelowNothing, NodeLabels DEF ShowsAt, IsNode
  <2>3. CASE pad
    <3>1. \A r \in Path : v \o r \in DOMAIN G <=> r = <<>>
      BY <2>2, <2>3
    <3>2. \A r \in Path : v \o r \in DOMAIN G => G[v \o r] = Null
      BY <2>2
    <3>3. IsNode(NullValue) /\ LabelOf(NullValue) = Null /\ getAt(NullValue, <<>>) = NullValue
      <4>1. NodeShape(NullValue) /\ LabelOf(NullValue) = Null
        BY DEF NodeShape, LabelOf, NullValue, Null
      <4> QED BY <4>1, NoFields, GetAtSteps DEF IsNode
    <3>4. \A r \in Path : r # <<>> => getAt(NullValue, r) = NoValue
      <4>1. Shows(NullValue, Leaf(Null))
        BY EmptyValues, ValueIsShown
      <4>2. DOMAIN Leaf(Null) = {<<>>}
        BY DEF Leaf
      <4> QED BY <4>1, <4>2, ShownEach
    <3>5. ShowsAt(NullValue, G, v)
      BY <3>1, <3>2, <3>3, <3>4 DEF ShowsAt
    <3> QED BY <1>3, <2>3, <3>5
  <2>4. CASE ~pad
    <3>1. \A r \in Path : v \o r \notin DOMAIN G
      BY <2>2, <2>4
    <3>2. ShowsAt(NoValue, G, v)
      BY <3>1, NothingShown
    <3> QED BY <1>3, <2>4, <3>2
  <2> QED BY <2>3, <2>4
<1> QED BY <1>2, <1>3

\* One turn of a setAt that succeeds: the node that the child is stored in.
LEMMA SetAtTurn ==
  ASSUME NEW root, IsValue(root), NEW p \in Path, NEW n \in 0..(Len(p) - 1), NEW w, WellFormed(w),
         SetSucceeds(PathsOf(root), p), NEW c,
         ShowsAt(c, Graft(Opened(PathsOf(root), p), p, w), Prefix(p, n + 1))
  PROVE  ShowsAt(Put(Extended(Stand(root, p, n), p[n + 1]), p[n + 1], c),
                 Graft(Opened(PathsOf(root), p), p, w), Prefix(p, n))
<1> DEFINE t == PathsOf(root)
           o == Opened(t, p)
           G == Graft(o, p, w)
           q == Prefix(p, n)
           s == p[n + 1]
           x == Stand(root, p, n)
           b == Extended(x, s)
<1>1. /\ q \in Path /\ s \in Segment /\ Prefix(p, n + 1) = Append(q, s)
      /\ n + 1 \in 1..Len(p) /\ n \in 0..Len(p) /\ (n + 1) - 1 = n
      /\ NodeShape(x) /\ DOMAIN Fields(x) \subseteq Segment
      /\ \A k \in {Object, Array} : x.kind = k <=> Standing(t, p, n + 1) = k
      /\ \A z \in Segment : /\ Found(x, z) = getAt(root, Append(q, z))
                            /\ z \in DOMAIN Fields(x) <=> Append(q, z) \in DOMAIN t
  BY StandIs
<1>2. WellFormed(t) /\ Rooted(t) /\ Shows(root, t) /\ Rooted(w) /\ Len(p) \in Nat
  BY ValueIsShown, WellFormedChildren, PathLen
<1>3. StepError(t, p, n + 1) = "ok"
  BY <1>1 DEF SetSucceeds
<1>4. /\ s.kind = "index" => s.index \in Nat
      /\ Standing(t, p, n + 1) = NewContainer(s)
  BY <1>1, <1>3, StepFits
<1>5. x.kind = NewContainer(s) /\ (s.kind = "index" => s.index >= 0)
  BY <1>1, <1>4, ContainerLabels
<1>6. /\ WellFormed(o) /\ Rooted(o) /\ PlaceFor(o, p)
      /\ q \in DOMAIN o /\ o[q] = NewContainer(s)
  BY <1>1, <1>2, OpenedWellFormed, OpenedDomain, WellFormedChildren
<1>7. /\ \A u \in Path : u \in DOMAIN G <=> IF IsPrefix(p, u) THEN Rest(p, u) \in DOMAIN w ELSE u \in DOMAIN o
      /\ \A u \in DOMAIN G : G[u] = IF IsPrefix(p, u) THEN w[Rest(p, u)] ELSE o[u]
      /\ p \in DOMAIN G /\ Rooted(G)
  BY <1>2, <1>6, GraftDomain, GraftRooted
<1>8. ~IsPrefix(p, q)
  <2>1. Len(q) = n /\ n < Len(p)
    BY <1>1, PrefixOf
  <2> QED BY <1>1, <1>2, <2>1, IsPrefixOf
<1>9. q \in DOMAIN G /\ G[q] = NewContainer(s)
  BY <1>1, <1>6, <1>7, <1>8
<1>10. Append(q, s) \in DOMAIN G
  <2>1. n + 1 \in 0..Len(p)
    BY <1>1, <1>2
  <2> HIDE DEF G
  <2>2. Prefix(p, n + 1) \in DOMAIN G
    BY <1>7, <2>1 DEF Rooted
  <2> QED BY <1>1, <2>2
<1>11. /\ NodeShape(b) /\ b.kind = x.kind
       /\ s.kind = "index" => s \in DOMAIN Fields(b)
       /\ DOMAIN Fields(x) \subseteq DOMAIN Fields(b)
       /\ DOMAIN Fields(b) \subseteq Segment
       /\ \A z \in DOMAIN Fields(b) : z \notin DOMAIN Fields(x) =>
            s.kind = "index" /\ \E j \in 0..s.index : z = Index(j)
       /\ s.kind = "index" => \A j \in 0..s.index : Index(j) \in DOMAIN Fields(b)
       /\ \A z \in DOMAIN Fields(b) :
            Fields(b)[z] = IF z \in DOMAIN Fields(x) THEN Fields(x)[z] ELSE NullValue
  BY <1>1, <1>5, ExtendedNode
<1>12. ASSUME NEW z \in Segment, z # s, NEW r \in Path
       PROVE  LET u == Append(q, z) \o r
              IN  /\ u \in DOMAIN G <=> u \in DOMAIN t \/ (r = <<>> /\ PaddedWith(p, n, z))
                  /\ u \in DOMAIN G => G[u] = IF u \in DOMAIN t THEN t[u] ELSE Null
  <2> DEFINE u == Append(q, z) \o r
  <2>1. u \in Path /\ ~IsPrefix(p, u)
    BY <1>12, BesidePath
  <2>2. /\ u \in DOMAIN o <=> u \in DOMAIN t \/ (r = <<>> /\ PaddedWith(p, n, z))
        /\ u \in DOMAIN o => o[u] = IF u \in DOMAIN t THEN t[u] ELSE Null
    BY <1>12, OpenedBeside
  <2> HIDE DEF u, G, o, t
  <2>3. (u \in DOMAIN G <=> u \in DOMAIN o) /\ (u \in DOMAIN G => G[u] = o[u])
    BY <1>7, <2>1
  <2>4. /\ u \in DOMAIN G <=> u \in DOMAIN t \/ (r = <<>> /\ PaddedWith(p, n, z))
        /\ u \in DOMAIN G => G[u] = IF u \in DOMAIN t THEN t[u] ELSE Null
    BY <2>2, <2>3
  <2> QED BY <2>4 DEF u
<1>13. \A z \in Segment : PaddedWith(p, n, z) => z \in DOMAIN Fields(b)
  BY <1>11 DEF PaddedWith
<1>14. \A z \in DOMAIN Fields(b) : z \notin DOMAIN Fields(x) => PaddedWith(p, n, z)
  BY <1>11 DEF PaddedWith
<1>15. \A z \in Segment : ShowsAt(getAt(root, Append(q, z)), t, Append(q, z)) /\ Append(q, z) \in Path
  BY <1>1, <1>2, LongerPath, ShownBelow
<1> HIDE DEF t, o, G, q, s, x, b
<1>16. ASSUME NEW z \in Segment, z # s
       PROVE  /\ ShowsAt(Found(b, z), G, Append(q, z))
              /\ z \in DOMAIN Fields(b) => Append(q, z) \in DOMAIN G
  <2> DEFINE v == Append(q, z)
  <2>1. v \o <<>> = v /\ v \in Path /\ <<>> \in Path
    BY <1>15, JoinEmpty, EmptyPath
  <2>2. v \in DOMAIN G <=> v \in DOMAIN t \/ PaddedWith(p, n, z)
    BY <1>12, <1>16, <2>1
  <2>3. z \in DOMAIN Fields(b) => v \in DOMAIN G
    BY <1>1, <1>14, <1>16, <2>2
  <2>4. Found(b, z) = IF v \in DOMAIN t THEN getAt(root, v)
                      ELSE IF PaddedWith(p, n, z) THEN NullValue ELSE NoValue
    <3>1. v \in DOMAIN t <=> z \in DOMAIN Fields(x)
      BY <1>1
    <3>2. CASE v \in DOMAIN t
      BY <1>1, <1>11, <3>1, <3>2, FoundIs
    <3>3. CASE v \notin DOMAIN t
      BY <1>11, <1>13, <1>14, <3>1, <3>3, FoundIs
    <3> QED BY <3>2, <3>3
  <2>5. ShowsAt(getAt(root, v), t, v) /\ PaddedWith(p, n, z) \in BOOLEAN
    BY <1>15 DEF PaddedWith
  <2>6. \A r \in Path :
          /\ v \o r \in DOMAIN G <=> v \o r \in DOMAIN t \/ (r = <<>> /\ PaddedWith(p, n, z))
          /\ v \o r \in DOMAIN G => G[v \o r] = IF v \o r \in DOMAIN t THEN t[v \o r] ELSE Null
    BY <1>12, <1>16
  <2> HIDE DEF v
  <2>7. ShowsAt(Found(b, z), G, v)
    BY <2>1, <2>4, <2>5, <2>6, PaddedChild
  <2> QED BY <2>3, <2>7 DEF v
<1>17. ShowsAt(c, G, Append(q, s))
  BY <1>1 DEF G, o, t, q, s
<1>18. ShowsAt(Put(b, s, c), G, q)
  BY <1>1, <1>5, <1>9, <1>10, <1>11, <1>16, <1>17, PutShown
<1> QED BY <1>18 DEF b, x, G, o, t, q, s

LEMMA OutcomeTurn ==
  ASSUME NEW root, IsValue(root), NEW p \in Path, NEW value, NEW n \in 0..(Len(p) - 1),
         \A m \in 1..n : StepError(PathsOf(root), p, m) = "ok"
  PROVE  LET x    == Stand(root, p, n)
             s    == p[n + 1]
             step == StepError(PathsOf(root), p, n + 1)
             deep == Outcomes(root, p, value)[n + 1]
         IN  Outcomes(root, p, value)[n] =
               IF step # "ok" THEN Outcome(step, x)
               ELSE IF deep.err # "ok" THEN Outcome(deep.err, Extended(x, s))
               ELSE Outcome("ok", Put(Extended(x, s), s, deep.node))
<1> DEFINE x == Stand(root, p, n)
           s == p[n + 1]
           step == StepError(PathsOf(root), p, n + 1)
           deep == Outcomes(root, p, value)[n + 1]
<1>1. Len(p) \in Nat /\ n \in 0..Len(p) /\ n # Len(p)
  BY PathLen
<1>2. Outcomes(root, p, value)[n] = OutcomeAt(root, p, value, n, deep)
  BY <1>1, OutcomesSteps
<1>3. Nodes(root, p)[n] = x
  BY NodesStand
<1>4. step = IF s.kind = "index" /\ s.index < 0 THEN "indexOutOfRange"
             ELSE IF x.kind # emptyContainer(s).kind THEN "typeConflict"
             ELSE "ok"
  BY StepAgrees
<1> HIDE DEF x, s, step, deep
<1>5. OutcomeAt(root, p, value, n, deep) =
        IF s.kind = "index" /\ s.index < 0 THEN Outcome("indexOutOfRange", x)
        ELSE IF x.kind # emptyContainer(s).kind THEN Outcome("typeConflict", x)
        ELSE IF deep.err # "ok" THEN Outcome(deep.err, Extended(x, s))
        ELSE Outcome("ok", Put(Extended(x, s), s, deep.node))
  BY <1>1, <1>3 DEF OutcomeAt, s
<1>6. Outcomes(root, p, value)[n] =
        IF step # "ok" THEN Outcome(step, x)
        ELSE IF deep.err # "ok" THEN Outcome(deep.err, Extended(x, s))
        ELSE Outcome("ok", Put(Extended(x, s), s, deep.node))
  BY <1>2, <1>4, <1>5
<1> QED BY <1>6 DEF x, s, step, deep

LEMMA SetAtSucceeds ==
  ASSUME NEW root, IsValue(root), NEW p \in Path, NEW value, IsValue(value),
         SetSucceeds(PathsOf(root), p)
  PROVE  /\ setAt(root, p, value).err = "ok"
         /\ Shows(setAt(root, p, value).node, Graft(Opened(PathsOf(root), p), p, PathsOf(value)))
<1> DEFINE t == PathsOf(root)
           w == PathsOf(value)
           G == Graft(Opened(t, p), p, w)
           L == Len(p)
           out == Outcomes(root, p, value)
           Good(n) == out[n].err = "ok" /\ ShowsAt(out[n].node, G, Prefix(p, n))
           bad == {m \in Nat : m <= L /\ ~Good(L - m)}
<1>1. L \in Nat /\ WellFormed(t) /\ WellFormed(w) /\ Shows(value, w) /\ Rooted(w)
  BY PathLen, ValueIsShown, WellFormedChildren
<1>2. \A m \in 1..L : StepError(t, p, m) = "ok"
  BY DEF SetSucceeds
<1>3. \A e, x : Outcome(e, x).err = e /\ Outcome(e, x).node = x
  BY DEF Outcome
<1>4. Good(L)
  <2>1. L \in 0..L
    BY <1>1
  <2>2. out[L] = OutcomeAt(root, p, value, L, out[L + 1])
    BY <2>1, OutcomesSteps
  <2>3. out[L] = Outcome("ok", value)
    BY <2>2 DEF OutcomeAt
  <2>4. Rooted(Opened(t, p))
    BY <1>1, OpenedWellFormed, WellFormedChildren
  <2>5. /\ \A u \in Path : IsPrefix(p, u) => (u \in DOMAIN G <=> Rest(p, u) \in DOMAIN w)
        /\ \A u \in DOMAIN G : IsPrefix(p, u) => G[u] = w[Rest(p, u)]
    BY <1>1, <2>4, GraftDomain
  <2>6. \A r \in Path : p \o r \in Path /\ IsPrefix(p, p \o r) /\ Rest(p, p \o r) = r
    BY Joined
  <2> HIDE DEF G, w, out, t
  <2>7. \A r \in Path : /\ p \o r \in DOMAIN G <=> r \in DOMAIN w
                        /\ p \o r \in DOMAIN G => G[p \o r] = w[r]
    BY <2>5, <2>6
  <2>8. ShowsAt(value, G, p)
    BY <1>1, <2>7, ShownEach DEF ShowsAt
  <2>9. Prefix(p, L) = p
    BY WholePrefix
  <2> QED BY <1>3, <2>3, <2>8, <2>9
<1>5. ASSUME NEW n \in 0..(L - 1), Good(n + 1) PROVE Good(n)
  <2> DEFINE s == p[n + 1]
             x == Stand(root, p, n)
             y == Put(Extended(x, s), s, out[n + 1].node)
  <2>1. \A m \in 1..n : StepError(t, p, m) = "ok"
    BY <1>1, <1>2
  <2>2. StepError(t, p, n + 1) = "ok"
    BY <1>1, <1>2
  <2>3. out[n] = Outcome("ok", y)
    BY <1>5, <2>1, <2>2, OutcomeTurn
  <2>4. ShowsAt(y, G, Prefix(p, n))
    BY <1>1, <1>5, SetAtTurn
  <2> QED BY <1>3, <2>3, <2>4
<1> HIDE DEF Good, L
<1>6. ASSUME bad # {} PROVE FALSE
  <2>1. PICK m \in bad : \A n \in bad : m <= n
    BY <1>6, LeastNatural
  <2>2. m \in Nat /\ m <= L /\ ~Good(L - m)
    BY <2>1
  <2>3. m # 0
    BY <1>1, <1>4, <2>2
  <2>4. m - 1 \in Nat /\ m - 1 \notin bad /\ m - 1 <= L
    <3>1. m - 1 \in Nat /\ ~(m <= m - 1)
      BY <2>2, <2>3
    <3> HIDE DEF bad
    <3> QED BY <1>1, <2>1, <2>2, <3>1
  <2>5. Good(L - (m - 1)) /\ L - (m - 1) = (L - m) + 1 /\ L - m \in 0..(L - 1)
    BY <1>1, <2>2, <2>3, <2>4
  <2> QED BY <1>5, <2>2, <2>5
<1>7. L - L = 0
  BY <1>1
<1>8. Good(0)
  BY <1>1, <1>6, <1>7
<1>9. Prefix(p, 0) = <<>>
  BY WholePrefix
<1> QED BY <1>8, <1>9, SetAtOutcome DEF Good, Shows

\* The first segment that fails.
LEMMA FirstFailing ==
  ASSUME NEW t, NEW p \in Path, ~SetSucceeds(t, p)
  PROVE  \E k \in 0..(Len(p) - 1) :
           /\ \A m \in 1..k : StepError(t, p, m) = "ok"
           /\ StepError(t, p, k + 1) # "ok" /\ SetError(t, p) = StepError(t, p, k + 1)
<1> DEFINE failing == {n \in 1..Len(p) : StepError(t, p, n) # "ok"}
           first   == CHOOSE n \in failing : \A m \in failing : n <= m
<1>1. Len(p) \in Nat
  BY PathLen
<1>2. failing \in SUBSET Nat /\ failing # {}
  BY DEF SetSucceeds
<1>3. PICK least \in failing : \A n \in failing : least <= n
  BY <1>2, LeastNatural
<1>4. first \in failing /\ \A m \in failing : first <= m
  BY <1>3
<1>5. SetError(t, p) = StepError(t, p, first)
  BY DEF SetError
<1> HIDE DEF first
<1>6. first \in 1..Len(p) /\ StepError(t, p, first) # "ok" /\ first - 1 \in 0..(Len(p) - 1)
  BY <1>1, <1>4
<1>7. ASSUME NEW m \in 1..(first - 1) PROVE StepError(t, p, m) = "ok"
  <2>1. m \in 1..Len(p) /\ ~(first <= m)
    BY <1>1, <1>6
  <2> QED BY <1>4, <2>1
<1>8. (first - 1) + 1 = first
  BY <1>6
<1> DEFINE k == first - 1
<1>9. /\ k \in 0..(Len(p) - 1) /\ \A m \in 1..k : StepError(t, p, m) = "ok"
      /\ StepError(t, p, k + 1) # "ok" /\ SetError(t, p) = StepError(t, p, k + 1)
  BY <1>5, <1>6, <1>7, <1>8
<1> QED BY <1>9

\* The slice at the root with the nulls that a setAt appends to it before it
\* fails.
LEMMA RootExtended ==
  ASSUME NEW root, IsValue(root), NEW p \in Path, p # <<>>, StepError(PathsOf(root), p, 1) = "ok"
  PROVE  Shows(Extended(root, p[1]), PaddedRoot(PathsOf(root), p))
<1> DEFINE t == PathsOf(root)
           u == PaddedRoot(t, p)
           s == p[1]
           b == Extended(root, s)
<1>1. WellFormed(t) /\ Rooted(t) /\ Shows(root, t)
  BY ValueIsShown, WellFormedChildren
<1>2. 0 \in 0..(Len(p) - 1) /\ 1 \in 1..Len(p) /\ 0 + 1 = 1 /\ s \in Segment
  BY PathLen, EmptyPath
<1>3. Stand(root, p, 0) = root /\ Prefix(p, 0) = <<>>
  <2>1. Prefix(p, 0) = <<>> /\ getAt(root, <<>>) = root /\ <<>> \in Path
    BY WholePrefix, GetAtSteps, EmptyPath
  <2>2. <<>> \in DOMAIN t
    BY <1>1 DEF Rooted
  <2>3. root # NoValue
    BY <2>1, <2>2, ReadValue
  <2> QED BY <2>1, <2>3 DEF Stand
<1>4. /\ NodeShape(root) /\ DOMAIN Fields(root) \subseteq Segment
      /\ \A c \in {Object, Array} : root.kind = c <=> Standing(t, p, 1) = c
      /\ \A z \in Segment : /\ Found(root, z) = getAt(root, Append(<<>>, z))
                            /\ z \in DOMAIN Fields(root) <=> Append(<<>>, z) \in DOMAIN t
  <2> DEFINE x == Stand(root, p, 0)
  <2>1. /\ NodeShape(x) /\ DOMAIN Fields(x) \subseteq Segment
        /\ \A c \in {Object, Array} : x.kind = c <=> Standing(t, p, 0 + 1) = c
        /\ \A z \in Segment : /\ Found(x, z) = getAt(root, Append(Prefix(p, 0), z))
                              /\ z \in DOMAIN Fields(x) <=> Append(Prefix(p, 0), z) \in DOMAIN t
    BY <1>2, StandIs
  <2> HIDE DEF t
  <2> QED BY <1>2, <1>3, <2>1
<1>5. (s.kind = "index" => s.index \in Nat) /\ Standing(t, p, 1) = NewContainer(s)
  BY <1>2, StepFits
<1>6. root.kind = NewContainer(s) /\ (s.kind = "index" => s.index >= 0)
  BY <1>4, <1>5, ContainerLabels
<1>7. /\ NodeShape(b) /\ LabelOf(b) = LabelOf(root)
      /\ DOMAIN Fields(root) \subseteq DOMAIN Fields(b)
      /\ DOMAIN Fields(b) \subseteq Segment
      /\ \A z \in DOMAIN Fields(b) : z \notin DOMAIN Fields(root) => PaddedWith(p, 0, z)
      /\ \A z \in Segment : PaddedWith(p, 0, z) => z \in DOMAIN Fields(b)
      /\ \A z \in DOMAIN Fields(b) :
           Fields(b)[z] = IF z \in DOMAIN Fields(root) THEN Fields(root)[z] ELSE NullValue
  BY <1>2, <1>4, <1>6, ExtendedNode DEF PaddedWith
<1>8. /\ DOMAIN u = DOMAIN t \cup Padding(p, 1)
      /\ \A q \in DOMAIN u : u[q] = IF q \in DOMAIN t THEN t[q] ELSE Null
  BY DEF PaddedRoot
<1>9. Padding(p, 1) = {Append(<<>>, z) : z \in {y \in Segment : PaddedWith(p, 0, y)}}
  <2>1. Prefix(p, 1 - 1) = <<>> /\ p[0 + 1] = s
    BY <1>3
  <2>2. CASE s.kind = "index"
    <3>1. s.index \in Int /\ \A j \in 0..s.index : Index(j) \in Segment
      BY <1>5, <2>2, IndexSegment
    <3>2. Padding(p, 1) = {Append(<<>>, Index(j)) : j \in 0..s.index}
      BY <2>1, <2>2 DEF Padding
    <3>3. {y \in Segment : PaddedWith(p, 0, y)} = {Index(j) : j \in 0..s.index}
      BY <2>1, <2>2, <3>1 DEF PaddedWith
    <3> QED BY <3>2, <3>3
  <2>3. CASE s.kind # "index"
    BY <2>1, <2>3 DEF Padding, PaddedWith
  <2> QED BY <2>2, <2>3
<1>10. <<>> \in DOMAIN u /\ u[<<>>] = t[<<>>] /\ LabelOf(b) = u[<<>>] /\ <<>> \in Path
  <2>1. <<>> \in DOMAIN t /\ getAt(root, <<>>) = root
    BY <1>1, GetAtSteps DEF Rooted
  <2> QED BY <1>1, <1>7, <1>8, <2>1, ShownEach, EmptyPath
<1> HIDE DEF u, t, b, s
<1>11. ASSUME NEW z \in Segment PROVE ShowsAt(Found(b, z), u, Append(<<>>, z))
  <2> DEFINE v == Append(<<>>, z)
  <2>1. v \in Path /\ Len(v) = 1 /\ v[1] = z /\ v = <<z>>
    BY OneSegment
  <2>2. ShowsAt(Found(root, z), t, v)
    BY <1>1, <1>4, <2>1, ShownBelow
  <2>3. Found(b, z) = IF v \in DOMAIN t THEN Found(root, z)
                      ELSE IF PaddedWith(p, 0, z) THEN NullValue ELSE NoValue
    <3>1. v \in DOMAIN t <=> z \in DOMAIN Fields(root)
      BY <1>4
    <3>2. CASE v \in DOMAIN t
      BY <1>7, <3>1, <3>2, FoundIs
    <3>3. CASE v \notin DOMAIN t
      BY <1>7, <3>1, <3>3, FoundIs
    <3> QED BY <3>2, <3>3
  <2>4. ASSUME NEW r \in Path
        PROVE  /\ v \o r \in DOMAIN u <=> v \o r \in DOMAIN t \/ (r = <<>> /\ PaddedWith(p, 0, z))
               /\ v \o r \in DOMAIN u => u[v \o r] = IF v \o r \in DOMAIN t THEN t[v \o r] ELSE Null
    <3>1. v \o r \in Padding(p, 1) <=> r = <<>> /\ PaddedWith(p, 0, z)
      <4>1. /\ Len(v \o r) = 1 + Len(r) /\ Len(r) \in Nat
            /\ \A i \in 1..(1 + Len(r)) : (v \o r)[i] = IF i <= 1 THEN v[i] ELSE r[i - 1]
        BY <2>1, Joined, PathLen
      <4>2. (v \o r)[1] = z
        BY <2>1, <4>1
      <4>3. \A y \in Segment : Len(Append(<<>>, y)) = 1 /\ Append(<<>>, y)[1] = y
        BY OneSegment
      <4>4. v \o <<>> = v
        BY <2>1, JoinEmpty
      <4>5. ASSUME v \o r \in Padding(p, 1) PROVE r = <<>> /\ PaddedWith(p, 0, z)
        <5>1. PICK y \in Segment : PaddedWith(p, 0, y) /\ v \o r = Append(<<>>, y)
          BY <1>9, <4>5
        <5>2. Len(v \o r) = 1 /\ (v \o r)[1] = y
          BY <4>3, <5>1
        <5>3. y = z /\ Len(r) = 0
          BY <4>1, <4>2, <5>2
        <5> QED BY <5>1, <5>3, EmptyPath
      <4>6. ASSUME r = <<>>, PaddedWith(p, 0, z) PROVE v \o r \in Padding(p, 1)
        BY <1>9, <4>4, <4>6
      <4> QED BY <4>5, <4>6
    <3> QED BY <1>8, <3>1
  <2>5. PaddedWith(p, 0, z) \in BOOLEAN
    BY DEF PaddedWith
  <2> HIDE DEF v
  <2>6. ShowsAt(Found(b, z), u, v)
    BY <2>1, <2>2, <2>3, <2>4, <2>5, PaddedChild
  <2> QED BY <2>6 DEF v
<1>12. ASSUME NEW z \in DOMAIN Fields(b) PROVE Append(<<>>, z) \in DOMAIN u
  BY <1>4, <1>7, <1>8, <1>9
<1>13. ShowsAt(b, u, <<>>)
  BY <1>7, <1>10, <1>11, <1>12, ShownByChildren
<1> QED BY <1>13 DEF Shows, b, u, t, s

LEMMA SetAtFails ==
  ASSUME NEW root, IsValue(root), NEW p \in Path, NEW value, ~SetSucceeds(PathsOf(root), p)
  PROVE  /\ setAt(root, p, value).err = SetError(PathsOf(root), p)
         /\ Shows(setAt(root, p, value).node, PaddedRoot(PathsOf(root), p))
<1> DEFINE t == PathsOf(root)
           e == SetError(t, p)
           out == Outcomes(root, p, value)
<1>1. PICK k \in 0..(Len(p) - 1) :
        /\ \A m \in 1..k : StepError(t, p, m) = "ok"
        /\ StepError(t, p, k + 1) # "ok" /\ e = StepError(t, p, k + 1)
  BY FirstFailing
<1>2. Len(p) \in Nat /\ k \in Nat /\ k < Len(p) /\ p # <<>>
  BY <1>1, PathLen, EmptyPath
<1>3. \A x, y : Outcome(x, y).err = x /\ Outcome(x, y).node = y
  BY DEF Outcome
<1>4. out[k] = Outcome(e, Stand(root, p, k))
  BY <1>1, OutcomeTurn
<1>5. ASSUME NEW n \in 0..(k - 1), out[n + 1].err = e
      PROVE  out[n] = Outcome(e, Extended(Stand(root, p, n), p[n + 1]))
  <2>1. n \in 0..(Len(p) - 1) /\ n + 1 \in 1..k
    BY <1>2
  <2>2. \A m \in 1..n : StepError(t, p, m) = "ok"
    BY <1>1, <1>2
  <2>3. StepError(t, p, n + 1) = "ok" /\ e # "ok"
    BY <1>1, <2>1
  <2> QED BY <1>5, <2>1, <2>2, <2>3, OutcomeTurn
<1> DEFINE bad == {m \in Nat : m <= k /\ out[k - m].err # e}
<1> HIDE DEF out, e
<1>6. ASSUME bad # {} PROVE FALSE
  <2>1. PICK m \in bad : \A n \in bad : m <= n
    BY <1>6, LeastNatural
  <2>2. m \in Nat /\ m <= k /\ out[k - m].err # e
    BY <2>1
  <2>3. k - 0 = k /\ out[k].err = e
    BY <1>2, <1>3, <1>4
  <2>4. m # 0
    BY <2>2, <2>3
  <2>5. m - 1 \in Nat /\ m - 1 \notin bad /\ m - 1 <= k
    <3>1. m - 1 \in Nat /\ ~(m <= m - 1)
      BY <2>2, <2>4
    <3> HIDE DEF bad
    <3> QED BY <1>2, <2>1, <2>2, <3>1
  <2>6. out[k - (m - 1)].err = e /\ k - (m - 1) = (k - m) + 1 /\ k - m \in 0..(k - 1)
    BY <1>2, <2>2, <2>4, <2>5
  <2>7. out[k - m] = Outcome(e, Extended(Stand(root, p, k - m), p[(k - m) + 1]))
    BY <1>5, <2>6
  <2> QED BY <1>3, <2>2, <2>7
<1>7. Stand(root, p, 0) = root
  <2>1. Prefix(p, 0) = <<>> /\ getAt(root, <<>>) = root /\ <<>> \in Path
    BY WholePrefix, GetAtSteps, EmptyPath
  <2>2. <<>> \in DOMAIN t
    BY ValueIsShown DEF WellFormed
  <2>3. root # NoValue
    BY <2>1, <2>2, ReadValue
  <2> QED BY <2>1, <2>3 DEF Stand
<1>8. CASE k = 0
  <2>1. out[0] = Outcome(e, root)
    BY <1>4, <1>7, <1>8
  <2>2. PaddedRoot(t, p) = t
    BY <1>1, <1>8 DEF PaddedRoot
  <2>3. Shows(root, t)
    BY ValueIsShown
  <2> QED BY <1>3, <2>1, <2>2, <2>3, SetAtOutcome DEF out, e
<1>9. CASE k # 0
  <2>1. 0 \in 0..(k - 1) /\ 0 + 1 = 1 /\ 1 \in 1..k /\ k - 1 \in Nat /\ k - 1 <= k /\ k - (k - 1) = 1
    BY <1>2, <1>9
  <2>2. out[1].err = e
    <3>1. k - 1 \notin bad
      BY <1>6
    <3> QED BY <2>1, <3>1
  <2>3. out[0] = Outcome(e, Extended(root, p[1]))
    BY <1>5, <1>7, <2>1, <2>2
  <2>4. StepError(t, p, 1) = "ok"
    BY <1>1, <2>1
  <2>5. Shows(Extended(root, p[1]), PaddedRoot(t, p))
    BY <1>2, <2>4, RootExtended
  <2> QED BY <1>3, <2>3, <2>5, SetAtOutcome DEF out, e
<1> QED BY <1>8, <1>9

\* setAt writes the tree of SetAt, or fails with its error.
THEOREM SetAtAgrees ==
  ASSUME NEW root, IsValue(root), NEW p \in Path, NEW value, IsValue(value)
  PROVE  LET result == setAt(root, p, value)
         IN  /\ result.err = SetError(PathsOf(root), p)
             /\ IsValue(result.node)
             /\ PathsOf(result.node) = SetAt(PathsOf(root), p, PathsOf(value))
<1> DEFINE t == PathsOf(root)
           w == PathsOf(value)
<1>1. WellFormed(t) /\ WellFormed(w) /\ WellFormed(SetAt(t, p, w))
  BY ValueIsShown, SetAtWellFormed
<1>2. setAt(root, p, value).err = SetError(t, p) /\ Shows(setAt(root, p, value).node, SetAt(t, p, w))
  <2>1. CASE SetSucceeds(t, p)
    BY <2>1, SetAtSucceeds DEF SetAt, SetError
  <2>2. CASE ~SetSucceeds(t, p)
    BY <2>2, SetAtFails DEF SetAt
  <2> QED BY <2>1, <2>2
<1> QED BY <1>1, <1>2, ShownIsValue

LEMMA SetIntoAgrees ==
  ASSUME NEW root, IsValue(root), NEW p \in Path, NEW value, IsValue(value)
  PROVE  LET result == SetInto(root, p, value)
         IN  /\ result.err = SetError(PathsOf(root), p)
             /\ IsValue(result.node)
             /\ PathsOf(result.node) = SetAt(PathsOf(root), p, PathsOf(value))
<1>1. CASE p = <<>>
  <2>1. Len(p) = 0 /\ 0 \in 0..Len(p)
    BY <1>1, EmptyPath
  <2>2. Outcomes(root, p, value)[0] = OutcomeAt(root, p, value, 0, Outcomes(root, p, value)[0 + 1])
    BY <2>1, OutcomesSteps
  <2>3. setAt(root, p, value) = Outcome("ok", value)
    BY <2>1, <2>2, SetAtOutcome DEF OutcomeAt
  <2> QED BY <1>1, <2>3, SetAtAgrees DEF SetInto
<1>2. CASE p # <<>>
  BY <1>2, SetAtAgrees DEF SetInto
<1> QED BY <1>1, <1>2

-----------------------------------------------------------------------------
(***************************************************************************)
(* deleteAt: the parent changed in place, and written back.                *)
(***************************************************************************)
Changes(root, path, value) ==
  CHOOSE changed : changed =
    [n \in 0..Len(path) |-> IF n = Len(path) THEN value
                            ELSE Put(getAt(root, Prefix(path, n)), path[n + 1], changed[n + 1])]

LEMMA ChangesSteps ==
  ASSUME NEW root, NEW p \in Path, NEW value
  PROVE  /\ Alias(root, p, value) = Changes(root, p, value)[0]
         /\ Changes(root, p, value)[Len(p)] = value
         /\ \A n \in 0..(Len(p) - 1) :
              Changes(root, p, value)[n] =
                Put(getAt(root, Prefix(p, n)), p[n + 1], Changes(root, p, value)[n + 1])
<1> DEFINE F(n, deep) == IF n = Len(p) THEN value ELSE Put(getAt(root, Prefix(p, n)), p[n + 1], deep)
           C == Changes(root, p, value)
<1>1. \A n, deep : Turn("alias", root, p, value, n, deep) = F(n, deep)
  BY DEF Turn
<1> HIDE DEF F
<1>2. PICK f : AllTurns(f, "alias", root, p, value)
  BY TurnsExist
<1>3. f = [n \in 0..Len(p) |-> F(n, f[n + 1])]
  BY <1>1, <1>2, ZenonT(30) DEF AllTurns
<1>4. \E g : g = [n \in 0..Len(p) |-> F(n, g[n + 1])]
  BY <1>3
<1>5. \E g : g = [n \in 0..Len(p) |-> IF n = Len(p) THEN value
                                      ELSE Put(getAt(root, Prefix(p, n)), p[n + 1], g[n + 1])]
  BY <1>4 DEF F
<1>6. C = [n \in 0..Len(p) |-> IF n = Len(p) THEN value
                               ELSE Put(getAt(root, Prefix(p, n)), p[n + 1], C[n + 1])]
  BY <1>5, Zenon DEF Changes
<1>7. Len(p) \in Nat
  BY PathLen
<1>8. Alias(root, p, value) = C[0]
  BY DEF Alias, Changes
<1> HIDE DEF C
<1>9. C[Len(p)] = value /\ \A n \in 0..(Len(p) - 1) : C[n] = Put(getAt(root, Prefix(p, n)), p[n + 1], C[n + 1])
  BY <1>6, <1>7
<1> QED BY <1>8, <1>9 DEF C

\* A node inside a Value is changed, and nothing beside its path.
LEMMA AliasShown ==
  ASSUME NEW root, IsValue(root), NEW p \in DOMAIN PathsOf(root), NEW value,
         NEW u, p \in DOMAIN u, ShowsAt(value, u, p),
         \A q \in Path : ~IsPrefix(p, q) =>
           /\ q \in DOMAIN u <=> q \in DOMAIN PathsOf(root)
           /\ q \in DOMAIN u => u[q] = PathsOf(root)[q]
  PROVE  Shows(Alias(root, p, value), u)
<1> DEFINE t == PathsOf(root)
           L == Len(p)
           out == Changes(root, p, value)
           Good(n) == ShowsAt(out[n], u, Prefix(p, n)) /\ Prefix(p, n) \in DOMAIN u
           bad == {m \in Nat : m <= L /\ ~Good(L - m)}
<1>1. WellFormed(t) /\ Rooted(t) /\ ChildrenFit(t) /\ Shows(root, t) /\ p \in Path /\ L \in Nat
  BY ValueIsShown, WellFormedChildren, PathLen DEF Rooted
<1>2. Good(L)
  BY <1>1, ChangesSteps, WholePrefix
<1>3. ASSUME NEW n \in 0..(L - 1), Good(n + 1) PROVE Good(n)
  <2> DEFINE q == Prefix(p, n)
             s == p[n + 1]
             x == getAt(root, q)
  <2>1. n + 1 \in 1..L /\ n \in 0..L /\ (n + 1) - 1 = n /\ n + 1 \in 0..L
    BY <1>1
  <2>2. q \in Path /\ s \in Segment /\ Prefix(p, n + 1) = Append(q, s) /\ Append(q, s) \in Path
    BY <1>1, <2>1, PrefixStep, PrefixOf
  <2>3. q \in DOMAIN t /\ Append(q, s) \in DOMAIN t
    BY <1>1, <2>1, <2>2 DEF Rooted
  <2>4. t[q] = NewContainer(s)
    BY <1>1, <2>2, <2>3 DEF ChildrenFit, Holds
  <2>5. NodeShape(x) /\ LabelOf(x) = t[q]
    BY <1>1, <2>2, <2>3, ReadValue DEF IsNode
  <2>6. x.kind = NewContainer(s)
    BY <2>4, <2>5, NodeLabels, ContainerLabels
  <2>7. /\ DOMAIN Fields(x) \subseteq Segment
        /\ \A z \in Segment : z \in DOMAIN Fields(x) <=> Append(q, z) \in DOMAIN t
    BY <1>1, <2>2, <2>3, ShownBelow, ShownFields
  <2>8. ~IsPrefix(p, q)
    BY <1>1, <2>1, PrefixOf, IsPrefixOf
  <2>9. q \in DOMAIN u /\ u[q] = NewContainer(s)
    BY <2>2, <2>3, <2>4, <2>8
  <2>10. ASSUME NEW z \in Segment, z # s
         PROVE  /\ ShowsAt(Found(x, z), u, Append(q, z))
                /\ z \in DOMAIN Fields(x) => Append(q, z) \in DOMAIN u
    <3> DEFINE v == Append(q, z)
    <3>1. v \in Path /\ v \o <<>> = v /\ <<>> \in Path
      BY <2>2, LongerPath, JoinEmpty, EmptyPath
    <3>2. \A r \in Path : v \o r \in Path /\ ~IsPrefix(p, v \o r)
      BY <1>1, <2>10, BesidePath
    <3>3. \A r \in Path : /\ v \o r \in DOMAIN u <=> v \o r \in DOMAIN t
                          /\ v \o r \in DOMAIN u => u[v \o r] = t[v \o r]
      BY <3>2
    <3>4. ShowsAt(Found(x, z), t, v)
      BY <1>1, <2>2, <2>10, ShownBelow, ShownChild
    <3>5. v \in DOMAIN u <=> v \in DOMAIN t
      BY <3>1, <3>3
    <3> HIDE DEF v, t
    <3>6. ShowsAt(Found(x, z), u, v)
      BY <3>3, <3>4 DEF ShowsAt
    <3> QED BY <2>7, <2>10, <3>5, <3>6 DEF v
  <2>11. ShowsAt(out[n + 1], u, Append(q, s)) /\ Append(q, s) \in DOMAIN u
    BY <1>3, <2>2
  <2>12. out[n] = Put(x, s, out[n + 1])
    BY <1>1, ChangesSteps
  <2>13. s \in DOMAIN Fields(x)
    BY <2>2, <2>3, <2>7
  <2> HIDE DEF q, s, x, out
  <2>14. ShowsAt(Put(x, s, out[n + 1]), u, q)
    BY <2>2, <2>5, <2>6, <2>9, <2>10, <2>11, <2>13, PutShown
  <2> QED BY <2>9, <2>12, <2>14 DEF q
<1> HIDE DEF Good, L
<1>4. ASSUME bad # {} PROVE FALSE
  <2>1. PICK m \in bad : \A n \in bad : m <= n
    BY <1>4, LeastNatural
  <2>2. m \in Nat /\ m <= L /\ ~Good(L - m)
    BY <2>1
  <2>3. L - 0 = L
    BY <1>1
  <2>4. m # 0
    BY <1>2, <2>2, <2>3
  <2>5. m - 1 \in Nat /\ m - 1 \notin bad /\ m - 1 <= L
    <3>1. m - 1 \in Nat /\ ~(m <= m - 1)
      BY <2>2, <2>4
    <3> HIDE DEF bad
    <3> QED BY <1>1, <2>1, <2>2, <3>1
  <2>6. Good(L - (m - 1)) /\ L - (m - 1) = (L - m) + 1 /\ L - m \in 0..(L - 1)
    BY <1>1, <2>2, <2>4, <2>5
  <2> QED BY <1>3, <2>2, <2>6
<1>5. L - L = 0
  BY <1>1
<1>6. Good(0)
  BY <1>1, <1>4, <1>5
<1>7. Prefix(p, 0) = <<>> /\ Alias(root, p, value) = out[0]
  BY <1>1, WholePrefix, ChangesSteps
<1> QED BY <1>6, <1>7 DEF Good, Shows

LEMMA CutDomain ==
  ASSUME NEW t, WellFormed(t), NEW p \in DOMAIN t, p # <<>>
  PROVE  /\ \A u \in Path : ~IsPrefix(p, u) =>
              /\ u \in DOMAIN Cut(t, p) <=> u \in DOMAIN t
              /\ u \in DOMAIN Cut(t, p) => Cut(t, p)[u] = t[u]
         /\ \A r \in Path : p \o r \in DOMAIN Cut(t, p) <=> Last(p).kind = "index" /\ r = <<>>
         /\ Last(p).kind = "index" => Cut(t, p)[p] = Null
<1>1. p \in Path /\ Rooted(t) /\ DOMAIN t \subseteq Path
  BY WellFormedChildren DEF Rooted
<1>2. Last(p).kind = "key" <=> Last(p).kind # "index"
  BY <1>1, FrontLast, SegmentKinds
<1>3. \A r \in Path : p \o r \in Path /\ IsPrefix(p, p \o r) /\ Rest(p, p \o r) = r
  BY <1>1, Joined
<1>4. CASE Last(p).kind = "key"
  <2>1. /\ DOMAIN Cut(t, p) = DOMAIN t \ Under(t, p)
        /\ \A u \in DOMAIN Cut(t, p) : Cut(t, p)[u] = t[u]
    BY <1>4 DEF Cut, Prune
  <2>2. \A u \in Path : u \in DOMAIN Cut(t, p) <=> u \in DOMAIN t /\ ~IsPrefix(p, u)
    BY <2>1 DEF Under
  <2> QED BY <1>2, <1>3, <1>4, <2>1, <2>2
<1>5. CASE Last(p).kind = "index"
  <2> DEFINE n == Leaf(Null)
  <2>1. Rooted(n) /\ DOMAIN n = {<<>>} /\ n[<<>>] = Null
    <3>1. Null \in Labels
      BY DEF Labels
    <3> QED BY <3>1, LeafWellFormed, WellFormedChildren DEF Leaf
  <2>2. Cut(t, p) = Graft(t, p, n)
    BY <1>2, <1>5 DEF Cut
  <2> HIDE DEF n
  <2>3. /\ \A u \in Path : u \in DOMAIN Cut(t, p) <=>
             IF IsPrefix(p, u) THEN Rest(p, u) \in DOMAIN n ELSE u \in DOMAIN t
        /\ \A u \in DOMAIN Cut(t, p) : Cut(t, p)[u] = IF IsPrefix(p, u) THEN n[Rest(p, u)] ELSE t[u]
    BY <1>1, <2>1, <2>2, GraftDomain
  <2>4. IsPrefix(p, p) /\ Rest(p, p) = <<>>
    BY <1>1, PrefixSelf
  <2> QED BY <1>1, <1>3, <1>5, <2>1, <2>3, <2>4
<1> QED BY <1>2, <1>4, <1>5

LEMMA WithoutShown ==
  ASSUME NEW root, IsValue(root), NEW p \in DOMAIN PathsOf(root), p # <<>>
  PROVE  ShowsAt(Without(getAt(root, Front(p)), Last(p)), Cut(PathsOf(root), p), Front(p))
<1> DEFINE t == PathsOf(root)
           C == Cut(t, p)
           q == Front(p)
           s == Last(p)
           x == getAt(root, q)
           n == Len(p) - 1
<1>1. WellFormed(t) /\ Rooted(t) /\ ChildrenFit(t) /\ Shows(root, t) /\ p \in Path
  BY ValueIsShown, WellFormedChildren DEF Rooted
<1>2. /\ q \in Path /\ s \in Segment /\ p = Append(q, s)
      /\ n \in 0..(Len(p) - 1) /\ Prefix(p, n) = q /\ p[n + 1] = s
  BY <1>1, FrontLast, PathLen
<1>3. q \in DOMAIN t /\ t[q] = NewContainer(s)
  BY <1>1, <1>2 DEF ChildrenFit, Holds
<1>4. NodeShape(x) /\ LabelOf(x) = t[q]
  BY <1>1, <1>2, <1>3, ReadValue DEF IsNode
<1>5. x.kind = NewContainer(s)
  BY <1>3, <1>4, NodeLabels, ContainerLabels
<1>6. /\ DOMAIN Fields(x) \subseteq Segment
      /\ \A z \in Segment : z \in DOMAIN Fields(x) <=> Append(q, z) \in DOMAIN t
  BY <1>1, <1>2, <1>3, ShownBelow, ShownFields
<1>7. /\ \A u \in Path : ~IsPrefix(p, u) =>
           (u \in DOMAIN C <=> u \in DOMAIN t) /\ (u \in DOMAIN C => C[u] = t[u])
      /\ \A r \in Path : p \o r \in DOMAIN C <=> s.kind = "index" /\ r = <<>>
      /\ s.kind = "index" => C[p] = Null
  BY <1>1, CutDomain
<1>8. q \in DOMAIN C /\ C[q] = NewContainer(s)
  <2>1. ~IsPrefix(p, q)
    <3> HIDE DEF q, s
    <3>1. ~IsPrefix(Append(q, s), q)
      BY <1>2, LongerNotPrefix
    <3> QED BY <1>2, <3>1
  <2> QED BY <1>2, <1>3, <1>7, <2>1
<1> HIDE DEF C, n, x, t
<1>9. ASSUME NEW z \in Segment, z # s
      PROVE  /\ ShowsAt(Found(x, z), C, Append(q, z))
             /\ z \in DOMAIN Fields(x) => Append(q, z) \in DOMAIN C
  <2> DEFINE v == Append(q, z)
  <2>1. v \in Path /\ v \o <<>> = v /\ <<>> \in Path
    BY <1>2, LongerPath, JoinEmpty, EmptyPath
  <2>2. \A r \in Path : v \o r \in Path /\ ~IsPrefix(p, v \o r)
    <3>1. \A r \in Path : LET u == Append(Prefix(p, n), z) \o r IN u \in Path /\ ~IsPrefix(p, u)
      BY <1>1, <1>2, <1>9, BesidePath
    <3> QED BY <1>2, <3>1
  <2>3. \A r \in Path : /\ v \o r \in DOMAIN C <=> v \o r \in DOMAIN t
                        /\ v \o r \in DOMAIN C => C[v \o r] = t[v \o r]
    BY <1>7, <2>2
  <2>4. ShowsAt(Found(x, z), t, v)
    BY <1>1, <1>2, ShownBelow, ShownChild DEF x
  <2>5. v \in DOMAIN C <=> v \in DOMAIN t
    BY <2>1, <2>3
  <2> HIDE DEF v
  <2>6. ShowsAt(Found(x, z), C, v)
    BY <2>3, <2>4 DEF ShowsAt
  <2> QED BY <1>6, <2>5, <2>6 DEF v
<1>10. CASE s.kind = "index"
  <2>1. Without(x, s) = Put(x, s, NullValue)
    BY <1>10 DEF Without
  <2>2. p \in DOMAIN C /\ s \in DOMAIN Fields(x)
    <3>1. <<>> \in Path /\ p \o <<>> = p
      BY <1>1, EmptyPath, JoinEmpty
    <3> QED BY <1>2, <1>6, <1>7, <1>10, <3>1 DEF t
  <2>3. ShowsAt(NullValue, C, p)
    <3>1. Shows(NullValue, Leaf(Null)) /\ DOMAIN Leaf(Null) = {<<>>} /\ Leaf(Null)[<<>>] = Null
      BY EmptyValues, ValueIsShown DEF Leaf
    <3>2. p \o <<>> = p
      BY <1>1, JoinEmpty
    <3> QED BY <1>7, <1>10, <3>1, <3>2, ShownEach DEF ShowsAt
  <2> HIDE DEF q, s
  <2>4. ShowsAt(Put(x, s, NullValue), C, q)
    BY <1>2, <1>4, <1>5, <1>8, <1>9, <2>2, <2>3, PutShown
  <2> QED BY <2>1, <2>4 DEF q, s, x, C, t
<1>11. CASE s.kind = "key"
  <2> DEFINE y == Without(x, s)
  <2>1. x.kind = Object
    BY <1>5, <1>11 DEF NewContainer
  <2>2. /\ NodeShape(y) /\ LabelOf(y) = Object
        /\ DOMAIN Fields(y) = DOMAIN Fields(x) \ {s}
        /\ \A z \in DOMAIN Fields(y) : Fields(y)[z] = Fields(x)[z]
    BY <1>2, <1>4, <1>11, <2>1, WithoutKey
  <2> HIDE DEF y, q, s
  <2>3. ASSUME NEW z \in Segment PROVE ShowsAt(Found(y, z), C, Append(q, z))
    <3>1. CASE z = s
      <4>1. Found(y, z) = NoValue
        BY <2>2, <3>1, FoundIs
      <4>2. \A r \in Path : p \o r \notin DOMAIN C
        BY <1>7, <1>11
      <4> QED BY <1>2, <3>1, <4>1, <4>2, NothingShown
    <3>2. CASE z # s
      <4>1. Found(y, z) = Found(x, z)
        BY <2>2, <3>2, FoundIs
      <4> QED BY <1>9, <3>2, <4>1
    <3> QED BY <3>1, <3>2
  <2>4. \A z \in DOMAIN Fields(y) : Append(q, z) \in DOMAIN C
    BY <1>6, <1>9, <2>2
  <2>5. LabelOf(y) = C[q]
    BY <1>5, <1>8, <2>1, <2>2
  <2>6. ShowsAt(y, C, q)
    BY <1>2, <1>8, <2>2, <2>3, <2>4, <2>5, ShownByChildren
  <2> QED BY <2>6 DEF y, q, s, x, C, t
<1> QED BY <1>2, <1>10, <1>11, SegmentIs

\* deleteAt writes the tree of DeleteAt, or fails with the error of its checks.
THEOREM DeleteAtAgrees ==
  ASSUME NEW root, IsValue(root), NEW p \in Path, p # <<>>
  PROVE  LET t      == PathsOf(root)
             result == deleteAt(root, p)
         IN  IF DeleteCheck(t, p) # "ok" THEN result = Outcome(DeleteCheck(t, p), root)
             ELSE /\ result.err = SetError(Cut(t, p), Front(p))
                  /\ IsValue(result.node) /\ PathsOf(result.node) = DeleteAt(t, p)
<1> DEFINE t == PathsOf(root)
           C == Cut(t, p)
           q == Front(p)
           s == Last(p)
           x == getAt(root, q)
           cut == Without(x, s)
           check == DeleteCheck(t, p)
<1>1. WellFormed(t) /\ Rooted(t) /\ Shows(root, t)
  BY ValueIsShown, WellFormedChildren
<1>2. q \in Path /\ s \in Segment /\ p = Append(q, s)
  BY FrontLast
<1>3. /\ x = NoValue <=> q \notin DOMAIN t
      /\ x.kind = Array <=> q \in DOMAIN t /\ t[q] = Array
      /\ x.kind = Object <=> q \in DOMAIN t /\ t[q] = Object
  BY <1>2, ReadValue
<1>4. emptyContainer(s).kind = NewContainer(s) /\ NewContainer(s) \in {Object, Array}
  BY EmptyValues, ContainerLabels
<1> HIDE DEF t, q, s, x
<1>5. q \in DOMAIN t => (s \in DOMAIN Fields(x) <=> p \in DOMAIN t)
  <2>1. ShowsAt(x, t, q)
    BY <1>1, <1>2, ShownBelow DEF x
  <2> QED BY <1>2, <2>1, ShownFields
<1>6. check = IF x = NoValue THEN "notFound"
              ELSE IF x.kind # emptyContainer(s).kind THEN "typeConflict"
              ELSE IF s \notin DOMAIN Fields(x)
              THEN IF s.kind = "key" THEN "notFound" ELSE "indexOutOfRange"
              ELSE "ok"
  <2>1. check = IF q \notin DOMAIN t THEN "notFound"
                ELSE IF t[q] # NewContainer(s) THEN "typeConflict"
                ELSE IF p \in DOMAIN t THEN "ok"
                ELSE IF s.kind = "key" THEN "notFound"
                ELSE "indexOutOfRange"
    BY DEF DeleteCheck, Exists, q, s
  <2>2. q \in DOMAIN t => (x.kind # emptyContainer(s).kind <=> t[q] # NewContainer(s))
    BY <1>3, <1>4
  <2> QED BY <1>3, <1>5, <2>1, <2>2
<1>7. deleteAt(root, p) =
        IF check # "ok" THEN Outcome(check, root)
        ELSE IF q = <<>> THEN Outcome("ok", cut)
        ELSE setAt(Alias(root, q, cut), q, cut)
  <2>1. deleteAt(root, p) =
          IF x = NoValue THEN Outcome("notFound", root)
          ELSE IF x.kind # emptyContainer(s).kind THEN Outcome("typeConflict", root)
          ELSE IF s \notin DOMAIN Fields(x)
          THEN Outcome(IF s.kind = "key" THEN "notFound" ELSE "indexOutOfRange", root)
          ELSE IF q = <<>> THEN Outcome("ok", cut)
          ELSE setAt(Alias(root, q, cut), q, cut)
    BY DEF deleteAt, x, q, s
  <2> HIDE DEF cut, check
  <2> QED BY <1>6, <2>1
<1>8. CASE check = "ok"
  <2>1. p \in DOMAIN t
    BY <1>8, CheckedDelete
  <2>2. WellFormed(C) /\ q \in DOMAIN C
    BY <1>1, <2>1, CutWellFormed DEF q
  <2>3. ShowsAt(cut, C, q)
    BY <2>1, WithoutShown DEF q, s, x, t
  <2>4. CASE q = <<>>
    <3>1. IsValue(cut) /\ PathsOf(cut) = C
      BY <2>2, <2>3, <2>4, ShownIsValue DEF Shows
    <3>2. SetError(C, q) = "ok"
      <4>1. SetSucceeds(C, q)
        BY <2>4, EmptyPath DEF SetSucceeds
      <4> QED BY <4>1 DEF SetError
    <3>3. DeleteAt(t, p) = C
      BY <2>4 DEF DeleteAt, q
    <3> QED BY <1>7, <1>8, <2>4, <3>1, <3>2, <3>3 DEF Outcome, t, q
  <2>5. CASE q # <<>>
    <3> DEFINE changed == Alias(root, q, cut)
    <3>1. \A u \in Path : ~IsPrefix(q, u) =>
            (u \in DOMAIN C <=> u \in DOMAIN t) /\ (u \in DOMAIN C => C[u] = t[u])
      <4>1. \A u \in Path : IsPrefix(p, u) => IsPrefix(q, u)
        BY <1>2, LongerNotPrefix, PrefixTransitive
      <4> QED BY <1>1, <2>1, <4>1, CutDomain
    <3>2. q \in DOMAIN t
      BY <1>1, <1>2, <2>1, WellFormedChildren DEF ChildrenFit, Holds, t
    <3>3. Shows(changed, C)
      <4> HIDE DEF C, cut
      <4> QED BY <2>2, <2>3, <3>1, <3>2, AliasShown DEF t
    <3>4. IsValue(changed) /\ PathsOf(changed) = C
      BY <2>2, <3>3, ShownIsValue
    <3>5. IsValue(cut) /\ PathsOf(cut) = Sub(C, q)
      <4>1. Rooted(C) /\ WellFormed(Sub(C, q)) /\ q \in Path
        BY <1>2, <2>2, SubWellFormed, WellFormedChildren
      <4> QED BY <2>3, <4>1, ShownSub, ShownIsValue
    <3> HIDE DEF changed, cut, C
    <3>6. /\ setAt(changed, q, cut).err = SetError(C, q)
          /\ IsValue(setAt(changed, q, cut).node)
          /\ PathsOf(setAt(changed, q, cut).node) = SetAt(C, q, Sub(C, q))
      <4>1. q \in Path
        BY <1>2
      <4>2. /\ setAt(changed, q, cut).err = SetError(PathsOf(changed), q)
            /\ IsValue(setAt(changed, q, cut).node)
            /\ PathsOf(setAt(changed, q, cut).node) = SetAt(PathsOf(changed), q, PathsOf(cut))
        BY <3>4, <3>5, <4>1, SetAtAgrees
      <4> QED BY <3>4, <3>5, <4>2
    <3>7. DeleteAt(t, p) = SetAt(C, q, Sub(C, q))
      BY <2>5 DEF DeleteAt, q, C
    <3>8. deleteAt(root, p) = setAt(changed, q, cut)
      BY <1>7, <1>8, <2>5 DEF changed, cut
    <3> QED BY <1>8, <3>6, <3>7, <3>8 DEF t, q, C
  <2> QED BY <2>4, <2>5
<1>9. CASE check # "ok"
  BY <1>7, <1>9 DEF t
<1> QED BY <1>8, <1>9

-----------------------------------------------------------------------------
(***************************************************************************)
(* appendAt: a longer slice, set in the place of the one that was there.   *)
(***************************************************************************)
LEMMA AppendedValue ==
  ASSUME NEW root, IsValue(root), NEW p \in DOMAIN PathsOf(root), PathsOf(root)[p] = Array,
         NEW value, IsValue(value)
  PROVE  LET y == ArrayValue(Append(getAt(root, p).arr, value))
         IN  IsValue(y) /\ PathsOf(y) = Appended(PathsOf(root), p, PathsOf(value))
<1> DEFINE t == PathsOf(root)
           w == PathsOf(value)
           x == getAt(root, p)
           y == ArrayValue(Append(x.arr, value))
           n == Length(t, p)
           s == Index(n)
           sub == Sub(t, p)
           G == Graft(sub, <<s>>, w)
<1>1. WellFormed(t) /\ Rooted(t) /\ WellFormed(w) /\ Rooted(w) /\ Shows(value, w) /\ p \in Path
  BY ValueIsShown, WellFormedChildren DEF Rooted
<1>2. NodeShape(x) /\ x.kind = Array /\ LabelOf(x) = Array /\ x # NoValue
  BY <1>1, ReadValue DEF IsNode
<1>3. WellFormed(sub) /\ Rooted(sub) /\ Shows(x, sub)
  BY <1>1, <1>2, SubValue, ValueIsShown, WellFormedChildren
<1>4. n \in Nat /\ \A j \in Nat : Index(j) \in DOMAIN Fields(x) <=> j < n
  <2>1. DOMAIN Fields(x) = Slots(t, p)
    BY ValueFields
  <2>2. n \in Nat
    BY <1>1, SlotsFinite
  <2>3. \A j \in Nat : Index(j) \in Slots(t, p) <=> j < n
    BY <1>1, ArrayLength
  <2> QED BY <2>1, <2>2, <2>3
<1> HIDE DEF n, t, x
<1>5. Len(x.arr) = n
  <2>1. /\ Len(x.arr) \in Nat
        /\ \A j \in Int : Index(j) \in DOMAIN Fields(x) <=> j \in 0..(Len(x.arr) - 1)
    BY <1>2, NodeFields
  <2> DEFINE a == Len(x.arr)
  <2> HIDE DEF a
  <2>2. a \in Nat /\ \A j \in Int : j \in 0..(a - 1) <=> j \in 0..(n - 1)
    <3>1. a \in Nat /\ \A j \in Int : Index(j) \in DOMAIN Fields(x) <=> j \in 0..(a - 1)
      BY <2>1 DEF a
    <3>2. \A j \in Int : j \in Nat /\ j < n <=> j \in 0..(n - 1)
      BY <1>4
    <3>3. \A j \in Int : j \in 0..(a - 1) => j \in Nat
      OBVIOUS
    <3>4. \A j \in Int : j \in 0..(n - 1) => j \in 0..(a - 1)
      BY <1>4, <3>1, <3>2
    <3>5. \A j \in Int : j \in 0..(a - 1) => j \in 0..(n - 1)
      BY <1>4, <3>1, <3>2, <3>3
    <3> QED BY <3>1, <3>4, <3>5
  <2>3. a = n
    BY <1>4, <2>2, SameLength
  <2> QED BY <2>3 DEF a
<1>6. /\ NodeShape(y) /\ LabelOf(y) = Array
      /\ DOMAIN Fields(y) = DOMAIN Fields(x) \cup {s} /\ s \notin DOMAIN Fields(x)
      /\ \A z \in DOMAIN Fields(y) : Fields(y)[z] = IF z \in DOMAIN Fields(x) THEN Fields(x)[z] ELSE value
  BY <1>2, <1>5, AppendedNode
<1>7. s \in Segment /\ n \in Int
  BY <1>4, IndexSegment
<1>8. <<s>> \in Path /\ Len(<<s>>) = 1 /\ <<s>>[1] = s /\ <<s>> = Append(<<>>, s)
  BY <1>7, OneSegment
<1>9. WellFormed(G) /\ <<s>> \in DOMAIN G
  <2>1. PlaceFor(sub, <<s>>)
    <3>1. /\ DOMAIN Fields(x) \subseteq Segment
          /\ \A z \in Segment : z \in DOMAIN Fields(x) <=> Append(<<>>, z) \in DOMAIN sub
      BY <1>3, EmptyPath, ShownFields DEF Rooted, Shows
    <3>2. sub[<<>>] = Array /\ <<>> \in DOMAIN sub
      BY <1>2, <1>3, EmptyPath, ShownTop DEF Rooted, Shows
    <3>3. Holds(sub, <<>>, s)
      <4>1. NewContainer(s) = Array /\ s.kind = "index" /\ s.index = n
        BY <1>7, IndexSegment DEF NewContainer
      <4>2. \A j \in 0..n : j < n => Index(j) \in Segment /\ Append(<<>>, Index(j)) \in DOMAIN sub
        BY <1>4, <3>1, IndexSegment
      <4> QED BY <1>4, <3>2, <4>1, <4>2 DEF Holds
    <3>4. \A q \in Path, z \in Segment : <<s>> = Append(q, z) => q = <<>> /\ z = s
      BY <1>7, <1>8, EmptyPath, SameExtended
    <3> QED BY <3>3, <3>4 DEF PlaceFor
  <2> QED BY <1>1, <1>3, <1>8, <2>1, GraftWellFormed
<1>10. /\ \A q \in Path : q \in DOMAIN G <=>
            IF IsPrefix(<<s>>, q) THEN Rest(<<s>>, q) \in DOMAIN w ELSE q \in DOMAIN sub
       /\ \A q \in DOMAIN G : G[q] = IF IsPrefix(<<s>>, q) THEN w[Rest(<<s>>, q)] ELSE sub[q]
  BY <1>1, <1>3, <1>8, GraftDomain
<1> HIDE DEF y, s, sub, G, w
<1>11. <<>> \in DOMAIN G /\ G[<<>>] = Array /\ <<>> \in Path
  <2>1. ~IsPrefix(<<s>>, <<>>)
    BY <1>8, EmptyPath, IsPrefixOf
  <2>2. <<>> \in DOMAIN sub /\ sub[<<>>] = Array
    BY <1>2, <1>3, EmptyPath, ShownTop DEF Rooted, Shows
  <2> QED BY <1>10, <2>1, <2>2, EmptyPath
<1>12. ASSUME NEW z \in Segment PROVE ShowsAt(Found(y, z), G, Append(<<>>, z))
  <2>1. CASE z = s
    <3>1. Found(y, z) = value
      BY <1>6, <2>1, FoundIs
    <3>2. \A r \in Path : <<s>> \o r \in Path /\ IsPrefix(<<s>>, <<s>> \o r) /\ Rest(<<s>>, <<s>> \o r) = r
      BY <1>8, Joined
    <3> DEFINE v == <<s>>
    <3> HIDE DEF v
    <3>3. \A r \in Path : (v \o r \in DOMAIN G <=> r \in DOMAIN w) /\ (v \o r \in DOMAIN G => G[v \o r] = w[r])
      BY <1>10, <3>2 DEF v
    <3>4. ShowsAt(value, G, v)
      BY <1>1, <3>3, ShownEach DEF ShowsAt
    <3> QED BY <1>8, <2>1, <3>1, <3>4 DEF v
  <2>2. CASE z # s
    <3> DEFINE v == Append(<<>>, z)
    <3>1. Found(y, z) = Found(x, z)
      BY <1>6, <2>2, FoundIs
    <3>2. \A r \in Path : v \o r \in Path /\ ~IsPrefix(<<s>>, v \o r)
      <4>1. 0 \in 0..(Len(<<s>>) - 1) /\ <<s>>[0 + 1] = s /\ Prefix(<<s>>, 0) = <<>>
        BY <1>8, WholePrefix
      <4> DEFINE o == <<s>>
      <4> HIDE DEF o
      <4>2. \A r \in Path : LET u == Append(Prefix(o, 0), z) \o r IN u \in Path /\ ~IsPrefix(o, u)
        BY <1>8, <2>2, <4>1, BesidePath DEF o
      <4> QED BY <4>1, <4>2 DEF o
    <3>3. \A r \in Path : /\ v \o r \in DOMAIN G <=> v \o r \in DOMAIN sub
                          /\ v \o r \in DOMAIN G => G[v \o r] = sub[v \o r]
      BY <1>10, <3>2
    <3>4. ShowsAt(Found(x, z), sub, v)
      BY <1>3, EmptyPath, ShownChild DEF Shows
    <3> HIDE DEF v
    <3>5. ShowsAt(Found(x, z), G, v)
      BY <3>3, <3>4 DEF ShowsAt
    <3> QED BY <3>1, <3>5 DEF v
  <2> QED BY <2>1, <2>2
<1>13. ASSUME NEW z \in DOMAIN Fields(y) PROVE Append(<<>>, z) \in DOMAIN G
  <2>1. CASE z = s
    BY <1>8, <1>9, <2>1
  <2>2. CASE z # s
    <3>1. z \in DOMAIN Fields(x) /\ z \in Segment
      BY <1>2, <1>6, <2>2, NodeFields
    <3>2. Append(<<>>, z) \in DOMAIN sub /\ Append(<<>>, z) \in Path
      BY <1>3, <3>1, EmptyPath, ShownFields, LongerPath DEF Rooted, Shows
    <3>3. ~IsPrefix(<<s>>, Append(<<>>, z))
      <4>1. Append(<<>>, z)[1] = z
        BY <3>1, OneSegment
      <4> QED BY <1>8, <2>2, <3>2, <4>1, IsPrefixOf
    <3> QED BY <1>10, <3>2, <3>3
  <2> QED BY <2>1, <2>2
<1>14. Shows(y, G)
  BY <1>6, <1>11, <1>12, <1>13, ShownByChildren DEF Shows
<1>15. G = Appended(t, p, w)
  BY DEF Appended, G, sub, s, n
<1> QED BY <1>9, <1>14, <1>15, ShownIsValue DEF y, x, t, w

\* AppendValue writes the tree of SetAt, or fails with the error of its checks.
THEOREM AppendAtAgrees ==
  ASSUME NEW root, IsValue(root), NEW p \in Path, NEW value, IsValue(value)
  PROVE  LET t      == PathsOf(root)
             result == appendAt(root, p, value)
         IN  IF AppendCheck(t, p) # "ok" THEN result = Outcome(AppendCheck(t, p), root)
             ELSE /\ result.err = SetError(t, p)
                  /\ IsValue(result.node)
                  /\ PathsOf(result.node) = SetAt(t, p, Appended(t, p, PathsOf(value)))
<1> DEFINE t == PathsOf(root)
           x == getAt(root, p)
           y == ArrayValue(Append(x.arr, value))
           result == appendAt(root, p, value)
<1>1. (x = NoValue <=> p \notin DOMAIN t) /\ (x.kind = Array <=> p \in DOMAIN t /\ t[p] = Array)
  BY ReadValue
<1>2. result = IF x = NoValue THEN Outcome("notFound", root)
               ELSE IF x.kind # Array THEN Outcome("typeConflict", root)
               ELSE SetInto(root, p, y)
  BY DEF appendAt
<1>3. AppendCheck(t, p) = IF p \notin DOMAIN t THEN "notFound"
                          ELSE IF t[p] # Array THEN "typeConflict" ELSE "ok"
  BY DEF AppendCheck, Exists
<1> HIDE DEF t, x, y, result
<1>4. CASE AppendCheck(t, p) = "ok"
  <2>1. p \in DOMAIN t /\ t[p] = Array
    BY <1>3, <1>4
  <2>2. IsValue(y) /\ PathsOf(y) = Appended(t, p, PathsOf(value))
    BY <2>1, AppendedValue DEF t, x, y
  <2>3. /\ SetInto(root, p, y).err = SetError(t, p)
        /\ IsValue(SetInto(root, p, y).node)
        /\ PathsOf(SetInto(root, p, y).node) = SetAt(t, p, PathsOf(y))
    BY <2>2, SetIntoAgrees DEF t
  <2>4. result = SetInto(root, p, y)
    BY <1>1, <1>2, <2>1
  <2> QED BY <1>4, <2>2, <2>3, <2>4 DEF t, result
<1>5. CASE AppendCheck(t, p) # "ok"
  BY <1>1, <1>2, <1>3, <1>5 DEF t, result
<1> QED BY <1>4, <1>5

-----------------------------------------------------------------------------
(***************************************************************************)
(* The recursions over the paths of a Value, mergeNodes and evaluateNode:  *)
(* what they return for a path depends on what they return for the paths   *)
(* of its children, so a function as they define it exists.                *)
(***************************************************************************)
MergedAt(dst, src, q, merged) ==
  LET old == getAt(dst, q)
      new == getAt(src, q)
  IN  IF old.kind # Object \/ new.kind # Object THEN new
      ELSE ObjectValue([k \in DOMAIN old.obj \cup DOMAIN new.obj |->
             IF k \notin DOMAIN new.obj THEN old.obj[k]
             ELSE IF k \notin DOMAIN old.obj THEN new.obj[k]
             ELSE merged[Append(q, Key(k))]])

EvaluatedAt(value, env, q, evaluated) ==
  LET node     == getAt(value, q)
      child(s) == evaluated[Append(q, s)]
  IN  IF IsTemplate(node) THEN getAt(env, Ref[node.scalar])
      ELSE IF \E s \in DOMAIN Fields(node) : child(s) = NoValue THEN NoValue
      ELSE IF node.kind = Object THEN ObjectValue([k \in DOMAIN node.obj |-> child(Key(k))])
      ELSE IF node.kind = Array THEN ArrayValue([i \in DOMAIN node.arr |-> child(Index(i - 1))])
      ELSE node

\* What is returned for the path q of v, given what is returned for longer ones.
NodeAt(call, v, w, q, f) ==
  IF call = "mergeNodes" THEN MergedAt(w, v, q, f) ELSE EvaluatedAt(v, w, q, f)

AllNodes(f, call, v, w) == f = [q \in PathsIn(v) |-> NodeAt(call, v, w, q, f)]

LEMMA ChildPaths ==
  ASSUME NEW v, IsValue(v), NEW q \in PathsIn(v), NEW s \in DOMAIN Fields(getAt(v, q))
  PROVE  /\ q \in Path /\ s \in Segment
         /\ Append(q, s) \in PathsIn(v) /\ Len(Append(q, s)) = Len(q) + 1
<1>1. q \in Path /\ NodeShape(getAt(v, q)) /\ NextPaths(v, PathsIn(v)) \subseteq PathsIn(v)
  BY DEF IsValue, IsNode
<1>2. s \in Segment
  BY <1>1, NodeFields
<1>3. Append(q, s) \in NextPaths(v, PathsIn(v))
  BY DEF NextPaths
<1> QED BY <1>1, <1>2, <1>3, LongerPath

LEMMA NodeAtSame ==
  ASSUME NEW call, NEW v, IsValue(v), NEW w, NEW q \in PathsIn(v), NEW f, NEW g,
         \A s \in DOMAIN Fields(getAt(v, q)) : f[Append(q, s)] = g[Append(q, s)]
  PROVE  NodeAt(call, v, w, q, f) = NodeAt(call, v, w, q, g)
<1> DEFINE node == getAt(v, q)
           old  == getAt(w, q)
<1>1. NodeShape(node)
  BY DEF IsValue, IsNode
<1>2. ASSUME node.kind = Object, NEW k \in DOMAIN node.obj
      PROVE  f[Append(q, Key(k))] = g[Append(q, Key(k))]
  BY <1>1, <1>2, NodeFields
<1>3. ASSUME node.kind = Array, NEW i \in DOMAIN node.arr
      PROVE  f[Append(q, Index(i - 1))] = g[Append(q, Index(i - 1))]
  <2>1. i - 1 \in 0..(Len(node.arr) - 1) /\ i - 1 \in Int
    BY <1>1, <1>3, NodeFields, OneLess
  <2>2. Index(i - 1) \in DOMAIN Fields(node)
    BY <1>1, <1>3, <2>1, NodeFields
  <2> QED BY <2>2
<1>4. MergedAt(w, v, q, f) = MergedAt(w, v, q, g)
  <2> DEFINE D == DOMAIN old.obj \cup DOMAIN node.obj
             F(h) == [k \in D |-> IF k \notin DOMAIN node.obj THEN old.obj[k]
                                  ELSE IF k \notin DOMAIN old.obj THEN node.obj[k]
                                  ELSE h[Append(q, Key(k))]]
  <2>1. CASE node.kind = Object
    <3>1. F(f) = F(g)
      BY <1>2, <2>1
    <3>2. \A h : MergedAt(w, v, q, h) = IF old.kind # Object \/ node.kind # Object THEN node
                                        ELSE ObjectValue(F(h))
      BY DEF MergedAt
    <3> HIDE DEF F
    <3> QED BY <3>1, <3>2
  <2>2. CASE node.kind # Object
    BY <2>2 DEF MergedAt
  <2> QED BY <2>1, <2>2
<1>5. EvaluatedAt(v, w, q, f) = EvaluatedAt(v, w, q, g)
  <2> DEFINE O(h) == [k \in DOMAIN node.obj |-> h[Append(q, Key(k))]]
             A(h) == [i \in DOMAIN node.arr |-> h[Append(q, Index(i - 1))]]
             Fails(h) == \E s \in DOMAIN Fields(node) : h[Append(q, s)] = NoValue
             R(h) == IF IsTemplate(node) THEN getAt(w, Ref[node.scalar])
                     ELSE IF Fails(h) THEN NoValue
                     ELSE IF node.kind = Object THEN ObjectValue(O(h))
                     ELSE IF node.kind = Array THEN ArrayValue(A(h))
                     ELSE node
  <2>1. \A h : EvaluatedAt(v, w, q, h) = R(h)
    BY DEF EvaluatedAt
  <2>2. Fails(f) <=> Fails(g)
    OBVIOUS
  <2>3. node.kind = Object => O(f) = O(g)
    BY <1>2
  <2>4. node.kind = Array => A(f) = A(g)
    BY <1>3
  <2> HIDE DEF O, A, Fails
  <2>5. R(f) = R(g)
    BY <2>2, <2>3, <2>4
  <2> HIDE DEF R
  <2> QED BY <2>1, <2>5
<1> QED BY <1>4, <1>5 DEF NodeAt

LEMMA NodesExist ==
  ASSUME NEW call, NEW v, IsValue(v), NEW w
  PROVE  \E f : AllNodes(f, call, v, w)
<1> DEFINE P == PathsIn(v)
           N(q, f) == NodeAt(call, v, w, q, f)
<1>1. P \in SUBSET Path /\ IsFiniteSet(P) /\ P # {}
  BY DEF IsValue
<1>2. PICK longest \in P : \A r \in P : Len(r) <= Len(longest)
  BY <1>1, LongestPath
<1> DEFINE D == Len(longest)
           S(m) == {q \in P : Len(q) > D - m}
           Solves(f, m) == f = [q \in S(m) |-> N(q, f)]
           bad == {m \in Nat : ~ \E f : Solves(f, m)}
<1>3. D \in Nat /\ \A q \in P : Len(q) \in Nat /\ Len(q) <= D
  BY <1>1, <1>2, PathLen
<1>4. ASSUME NEW q \in P, NEW f, NEW g, \A r \in P : Len(r) = Len(q) + 1 => f[r] = g[r]
      PROVE  N(q, f) = N(q, g)
  <2>1. \A s \in DOMAIN Fields(getAt(v, q)) : f[Append(q, s)] = g[Append(q, s)]
    BY <1>4, ChildPaths
  <2> QED BY <2>1, NodeAtSame
<1> HIDE DEF P, N, D
<1>5. ASSUME bad # {} PROVE FALSE
  <2>1. PICK m \in bad : \A n \in bad : m <= n
    BY <1>5, LeastNatural
  <2>2. CASE m = 0
    <3> DEFINE f == [q \in {} |-> NullValue]
    <3>1. S(0) = {}
      BY <1>3
    <3>2. Solves(f, 0)
      BY <3>1
    <3> QED BY <2>1, <2>2, <3>2
  <2>3. CASE m # 0
    <3>1. m - 1 \in Nat /\ m - 1 \notin bad /\ m \in Nat
      <4>1. m \in Nat
        BY <2>1
      <4> HIDE DEF bad
      <4> QED BY <2>1, <2>3, <4>1
    <3>2. PICK f : Solves(f, m - 1)
      BY <3>1
    <3> DEFINE B == S(m - 1)
               g == [q \in S(m) |-> IF q \in B THEN f[q] ELSE N(q, f)]
    <3>3. f = [q \in B |-> N(q, f)]
      BY <3>2
    <3>4. \A q \in S(m), r \in P : Len(r) = Len(q) + 1 => r \in B
      BY <1>3, <3>1
    <3>5. B \subseteq S(m) /\ S(m) \subseteq P
      BY <1>3, <3>1
    <3> HIDE DEF B, S
    <3>6. ASSUME NEW q \in S(m) PROVE g[q] = N(q, g)
      <4>1. \A r \in P : Len(r) = Len(q) + 1 => f[r] = g[r]
        BY <3>4, <3>5
      <4> HIDE DEF g
      <4>2. N(q, f) = N(q, g)
        BY <1>4, <3>5, <4>1
      <4>3. g[q] = N(q, f)
        BY <3>3 DEF g
      <4> QED BY <4>2, <4>3
    <3>7. Solves(g, m)
      <4>1. g = [q \in S(m) |-> g[q]]
        OBVIOUS
      <4> HIDE DEF g
      <4>2. g = [q \in S(m) |-> N(q, g)]
        BY <3>6, <4>1, ZenonT(30)
      <4> QED BY <4>2
    <3> QED BY <2>1, <3>7
  <2> QED BY <2>2, <2>3
<1>6. D + 1 \in Nat /\ S(D + 1) = P
  BY <1>3
<1> HIDE DEF S
<1>7. PICK f : f = [q \in S(D + 1) |-> N(q, f)]
  BY <1>5, <1>6
<1>8. f = [q \in P |-> N(q, f)]
  BY <1>6, <1>7
<1> QED BY <1>8 DEF AllNodes, P, N

-----------------------------------------------------------------------------
(***************************************************************************)
(* mergeNodes and mergeAt.                                                 *)
(***************************************************************************)
Merged(dst, src) ==
  CHOOSE merged : merged = [q \in PathsIn(src) |-> MergedAt(dst, src, q, merged)]

LEMMA MergedSteps ==
  ASSUME NEW dst, NEW src, IsValue(src)
  PROVE  /\ mergeNodes(dst, src) = Merged(dst, src)[<<>>]
         /\ \A q \in PathsIn(src) : Merged(dst, src)[q] = MergedAt(dst, src, q, Merged(dst, src))
<1>1. \A q, f : NodeAt("mergeNodes", src, dst, q, f) = MergedAt(dst, src, q, f)
  BY DEF NodeAt
<1>2. PICK f : AllNodes(f, "mergeNodes", src, dst)
  BY NodesExist
<1>3. f = [q \in PathsIn(src) |-> MergedAt(dst, src, q, f)]
  BY <1>1, <1>2, ZenonT(30) DEF AllNodes
<1>4. \E g : g = [q \in PathsIn(src) |-> MergedAt(dst, src, q, g)]
  BY <1>3
<1>5. Merged(dst, src) = [q \in PathsIn(src) |-> MergedAt(dst, src, q, Merged(dst, src))]
  BY <1>4, Zenon DEF Merged
<1>6. mergeNodes(dst, src) = Merged(dst, src)[<<>>]
  BY DEF mergeNodes, Merged, MergedAt
<1> QED BY <1>5, <1>6

LEMMA PrefixThere ==
  ASSUME NEW t, Rooted(t), NEW u \in DOMAIN t, NEW r \in Path, IsPrefix(r, u)
  PROVE  r \in DOMAIN t
<1>1. u \in Path
  BY DEF Rooted
<1>2. Len(r) \in 0..Len(u) /\ r = Prefix(u, Len(r))
  BY <1>1, PrefixIsPrefix
<1> QED BY <1>2 DEF Rooted

\* Down to q, and at q when all is TRUE, objects meet objects.
Meet(td, ts, q, all) ==
  \A r \in DOMAIN ts : IsPrefix(r, q) /\ (all \/ r # q) => ts[r] = Object /\ r \in DOMAIN td /\ td[r] = Object

LEMMA MergedDomain ==
  ASSUME NEW td, WellFormed(td), NEW ts, WellFormed(ts)
  PROVE  /\ \A u \in Path : u \in DOMAIN MergeNodes(td, ts) <=>
              u \in DOMAIN ts \/ (u \in DOMAIN td /\ Meet(td, ts, u, TRUE))
         /\ \A u \in DOMAIN MergeNodes(td, ts) :
              MergeNodes(td, ts)[u] = IF u \in DOMAIN ts THEN ts[u] ELSE td[u]
<1>1. Rooted(ts) /\ Rooted(td)
  BY WellFormedChildren
<1>2. /\ DOMAIN MergeNodes(td, ts) = DOMAIN ts \cup {q \in DOMAIN td : Survives(td, ts, q)}
      /\ \A u \in DOMAIN MergeNodes(td, ts) :
           MergeNodes(td, ts)[u] = IF u \in DOMAIN ts THEN ts[u] ELSE td[u]
  BY DEF MergeNodes
<1>3. ASSUME NEW u \in DOMAIN td PROVE Survives(td, ts, u) <=> Meet(td, ts, u, TRUE)
  <2>1. u \in Path /\ \A r \in DOMAIN ts : r \in Path /\ (IsPrefix(r, u) => r \in DOMAIN td)
    BY <1>1, PrefixThere DEF Rooted
  <2> QED BY <1>1, <2>1, SurvivesPrefixes DEF Meet
<1> QED BY <1>2, <1>3

\* A child of a node where objects meet, or the children of one.
LEMMA MeetBelow ==
  ASSUME NEW td, NEW ts, Rooted(ts), NEW q \in DOMAIN ts, Meet(td, ts, q, TRUE), NEW z \in Segment
  PROVE  /\ Meet(td, ts, Append(q, z), FALSE)
         /\ Append(q, z) \notin DOMAIN ts => \A r \in Path : Meet(td, ts, Append(q, z) \o r, TRUE)
<1> DEFINE v == Append(q, z)
<1>1. q \in Path /\ v \in Path /\ \A r \in DOMAIN ts : r \in Path
  BY LongerPath DEF Rooted
<1>2. \A r \in Path : IsPrefix(r, v) <=> r = v \/ IsPrefix(r, q)
  BY <1>1, PrefixOfExtended
<1>3. ASSUME v \notin DOMAIN ts, NEW r \in Path, NEW a \in DOMAIN ts, IsPrefix(a, v \o r)
      PROVE  IsPrefix(a, q)
  <2>1. v \o r \in Path /\ IsPrefix(v, v \o r) /\ a \in Path
    BY <1>1, Joined
  <2>2. IsPrefix(a, v) \/ IsPrefix(v, a)
    BY <1>1, <1>3, <2>1, PrefixesOrdered
  <2>3. ~IsPrefix(v, a)
    BY <1>1, <1>3, PrefixThere
  <2>4. a # v
    BY <1>3
  <2> HIDE DEF v
  <2> QED BY <1>2, <2>1, <2>2, <2>3, <2>4
<1> HIDE DEF v
<1>4. Meet(td, ts, v, FALSE)
  BY <1>1, <1>2 DEF Meet
<1>5. v \notin DOMAIN ts => \A r \in Path : Meet(td, ts, v \o r, TRUE)
  BY <1>3 DEF Meet
<1> QED BY <1>4, <1>5 DEF v

\* One turn of mergeNodes.
LEMMA MergedTurn ==
  ASSUME NEW dst, IsValue(dst), NEW src, IsValue(src), NEW q \in DOMAIN PathsOf(src),
         Meet(PathsOf(dst), PathsOf(src), q, FALSE), NEW f,
         \A z \in Segment :
           Append(q, z) \in DOMAIN PathsOf(src) /\ Meet(PathsOf(dst), PathsOf(src), Append(q, z), FALSE) =>
             ShowsAt(f[Append(q, z)], MergeNodes(PathsOf(dst), PathsOf(src)), Append(q, z))
  PROVE  ShowsAt(MergedAt(dst, src, q, f), MergeNodes(PathsOf(dst), PathsOf(src)), q)
<1> DEFINE td == PathsOf(dst)
           ts == PathsOf(src)
           M == MergeNodes(td, ts)
           old == getAt(dst, q)
           new == getAt(src, q)
<1>1. /\ WellFormed(td) /\ Rooted(td) /\ ChildrenFit(td) /\ Shows(dst, td)
      /\ WellFormed(ts) /\ Rooted(ts) /\ ChildrenFit(ts) /\ Shows(src, ts)
  BY ValueIsShown, WellFormedChildren
<1>2. /\ \A u \in Path : u \in DOMAIN M <=> u \in DOMAIN ts \/ (u \in DOMAIN td /\ Meet(td, ts, u, TRUE))
      /\ \A u \in DOMAIN M : M[u] = IF u \in DOMAIN ts THEN ts[u] ELSE td[u]
  BY <1>1, MergedDomain
<1>3. q \in Path /\ q \in DOMAIN ts /\ q \in DOMAIN M
  BY <1>1, <1>2 DEF Rooted
<1>4. /\ old.kind = Object <=> q \in DOMAIN td /\ td[q] = Object
      /\ new.kind = Object <=> ts[q] = Object
      /\ q \in DOMAIN td => NodeShape(old)
      /\ NodeShape(new)
      /\ ShowsAt(old, td, q) /\ ShowsAt(new, ts, q)
  BY <1>1, <1>3, ReadValue, ShownBelow DEF IsNode
<1>5. CASE old.kind # Object \/ new.kind # Object
  <2>1. MergedAt(dst, src, q, f) = new
    BY <1>5 DEF MergedAt
  <2> HIDE DEF M, td, ts, old, new
  <2>2. \A r \in Path : q \o r \in Path /\ IsPrefix(q, q \o r)
    BY <1>3, Joined
  <2>3. \A r \in Path : ~Meet(td, ts, q \o r, TRUE)
    BY <1>3, <1>4, <1>5, <2>2 DEF Meet
  <2>4. \A r \in Path : /\ q \o r \in DOMAIN M <=> q \o r \in DOMAIN ts
                        /\ q \o r \in DOMAIN M => M[q \o r] = ts[q \o r]
    BY <1>2, <2>2, <2>3
  <2>5. ShowsAt(new, M, q)
    BY <1>4, <2>4 DEF ShowsAt
  <2> QED BY <2>1, <2>5 DEF M, td, ts
<1>6. CASE old.kind = Object /\ new.kind = Object
  <2> DEFINE g == [k \in DOMAIN old.obj \cup DOMAIN new.obj |->
                     IF k \notin DOMAIN new.obj THEN old.obj[k]
                     ELSE IF k \notin DOMAIN old.obj THEN new.obj[k]
                     ELSE f[Append(q, Key(k))]]
             y == ObjectValue(g)
  <2>1. MergedAt(dst, src, q, f) = y
    BY <1>6 DEF MergedAt
  <2>2. /\ q \in DOMAIN td /\ td[q] = Object /\ ts[q] = Object /\ NodeShape(old)
        /\ Meet(td, ts, q, TRUE)
    <3>1. q \in DOMAIN td /\ td[q] = Object /\ ts[q] = Object
      BY <1>4, <1>6
    <3> HIDE DEF td, ts, old
    <3> QED BY <1>4, <3>1 DEF Meet, td, ts
  <2>3. /\ \A k \in Keys : Key(k) \in DOMAIN Fields(old) <=> k \in DOMAIN old.obj
        /\ \A k \in DOMAIN old.obj : k \in Keys /\ Fields(old)[Key(k)] = old.obj[k]
    BY <1>6, <2>2, NodeFields
  <2>4. /\ \A k \in Keys : Key(k) \in DOMAIN Fields(new) <=> k \in DOMAIN new.obj
        /\ \A k \in DOMAIN new.obj : k \in Keys /\ Fields(new)[Key(k)] = new.obj[k]
    BY <1>4, <1>6, NodeFields
  <2>5. /\ g = [k \in DOMAIN g |-> g[k]] /\ DOMAIN g = DOMAIN old.obj \cup DOMAIN new.obj
        /\ DOMAIN g \subseteq Keys
        /\ \A k \in DOMAIN g : g[k] = IF k \notin DOMAIN new.obj THEN old.obj[k]
                                      ELSE IF k \notin DOMAIN old.obj THEN new.obj[k]
                                      ELSE f[Append(q, Key(k))]
    BY <2>3, <2>4
  <2>6. /\ \A z \in Segment : z \in DOMAIN Fields(old) <=> Append(q, z) \in DOMAIN td
        /\ \A z \in Segment : z \in DOMAIN Fields(new) <=> Append(q, z) \in DOMAIN ts
    BY <1>3, <1>4, <2>2, ShownFields
  <2> HIDE DEF g
  <2>7. /\ NodeShape(y) /\ LabelOf(y) = Object
        /\ DOMAIN Fields(y) \subseteq Segment
        /\ \A z \in DOMAIN Fields(y) : z = Key(z.key)
        /\ \A k \in Keys : Key(k) \in DOMAIN Fields(y) <=> k \in DOMAIN g
        /\ \A k \in DOMAIN g : Fields(y)[Key(k)] = g[k]
    BY <2>5, ObjectNode
  <2>8. M[q] = Object
    BY <1>2, <1>3, <2>2
  <2> HIDE DEF y, M, td, ts, old, new
  <2>9. ASSUME NEW z \in Segment
        PROVE  /\ ShowsAt(Found(y, z), M, Append(q, z))
               /\ z \in DOMAIN Fields(y) => Append(q, z) \in DOMAIN M
    <3> DEFINE v == Append(q, z)
    <3>1. v \in Path /\ <<>> \in Path /\ v \o <<>> = v
      BY <1>3, LongerPath, EmptyPath, JoinEmpty
    <3>2. \A r \in Path : v \o r \in Path /\ IsPrefix(v, v \o r)
      BY <3>1, Joined
    <3>3. /\ v \notin DOMAIN ts => \A r \in Path : v \o r \notin DOMAIN ts
          /\ v \notin DOMAIN td => \A r \in Path : v \o r \notin DOMAIN td
      BY <1>1, <3>1, <3>2, PrefixThere
    <3>4. /\ Meet(td, ts, v, FALSE)
          /\ v \notin DOMAIN ts => \A r \in Path : Meet(td, ts, v \o r, TRUE)
      BY <1>1, <1>3, <2>2, MeetBelow
    <3>5. ShowsAt(Found(old, z), td, v) /\ ShowsAt(Found(new, z), ts, v)
      BY <1>3, <1>4, ShownChild
    <3>6. z \in DOMAIN Fields(y) <=> v \in DOMAIN td \/ v \in DOMAIN ts
      <4>1. CASE z.kind = "key"
        <5>1. z = Key(z.key) /\ z.key \in Keys
          BY <4>1, SegmentIs
        <5> QED BY <2>3, <2>4, <2>5, <2>6, <2>7, <5>1
      <4>2. CASE z.kind = "index"
        <5>1. NewContainer(z) # Object /\ \A k : z # Key(k)
          BY <4>2, SegmentIs DEF NewContainer, Object, Array
        <5>2. v \notin DOMAIN td /\ v \notin DOMAIN ts
          BY <1>1, <1>3, <2>2, <5>1 DEF ChildrenFit, Holds
        <5>3. z \notin DOMAIN Fields(y)
          BY <2>7, <5>1
        <5> QED BY <5>2, <5>3
      <4> QED BY <4>1, <4>2, SegmentIs
    <3>7. Found(y, z) = IF v \notin DOMAIN ts THEN Found(old, z)
                        ELSE IF v \notin DOMAIN td THEN Found(new, z)
                        ELSE f[v]
      <4>1. CASE v \in DOMAIN td \/ v \in DOMAIN ts
        <5>1. z = Key(z.key) /\ z.key \in Keys
          BY <2>7, <3>6, <4>1, SegmentIs
        <5> DEFINE k == z.key
        <5> HIDE DEF k
        <5>2. z = Key(k) /\ k \in Keys
          BY <5>1 DEF k
        <5>3. /\ k \in DOMAIN old.obj <=> v \in DOMAIN td
              /\ k \in DOMAIN new.obj <=> v \in DOMAIN ts
              /\ k \in DOMAIN g
          BY <2>3, <2>4, <2>5, <2>6, <4>1, <5>2
        <5>4. Found(y, z) = g[k]
          BY <2>7, <3>6, <4>1, <5>2, <5>3, FoundIs
        <5>5. /\ k \in DOMAIN old.obj => Found(old, z) = old.obj[k]
              /\ k \in DOMAIN new.obj => Found(new, z) = new.obj[k]
          BY <2>3, <2>4, <5>2, FoundIs
        <5> QED BY <2>5, <4>1, <5>2, <5>3, <5>4, <5>5
      <4>2. CASE v \notin DOMAIN td /\ v \notin DOMAIN ts
        <5>1. z \notin DOMAIN Fields(y) /\ z \notin DOMAIN Fields(old)
          BY <2>6, <3>6, <4>2
        <5> QED BY <4>2, <5>1, FoundIs
      <4> QED BY <4>1, <4>2
    <3>8. v \in DOMAIN td \/ v \in DOMAIN ts => v \in DOMAIN M
      BY <1>2, <3>1, <3>4
    <3> HIDE DEF v
    <3>9. CASE v \notin DOMAIN ts
      <4>1. \A r \in Path : /\ v \o r \in DOMAIN M <=> v \o r \in DOMAIN td
                            /\ v \o r \in DOMAIN M => M[v \o r] = td[v \o r]
        BY <1>2, <3>2, <3>3, <3>4, <3>9
      <4>2. ShowsAt(Found(old, z), M, v)
        BY <3>5, <4>1 DEF ShowsAt
      <4> QED BY <3>6, <3>7, <3>8, <3>9, <4>2 DEF v
    <3>10. CASE v \in DOMAIN ts /\ v \notin DOMAIN td
      <4>1. \A r \in Path : /\ v \o r \in DOMAIN M <=> v \o r \in DOMAIN ts
                            /\ v \o r \in DOMAIN M => M[v \o r] = ts[v \o r]
        BY <1>2, <3>2, <3>3, <3>10
      <4>2. ShowsAt(Found(new, z), M, v)
        BY <3>5, <4>1 DEF ShowsAt
      <4> QED BY <3>6, <3>7, <3>8, <3>10, <4>2 DEF v
    <3>11. CASE v \in DOMAIN ts /\ v \in DOMAIN td
      <4>1. ShowsAt(f[v], M, v)
        BY <3>4, <3>11 DEF v, M, td, ts
      <4> QED BY <3>6, <3>7, <3>8, <3>11, <4>1 DEF v
    <3> QED BY <3>9, <3>10, <3>11
  <2>10. \A z \in DOMAIN Fields(y) : Append(q, z) \in DOMAIN M
    BY <2>7, <2>9
  <2>11. ShowsAt(y, M, q)
    BY <1>3, <2>7, <2>8, <2>9, <2>10, ShownByChildren
  <2> QED BY <2>1, <2>11 DEF M, td, ts
<1> QED BY <1>5, <1>6

\* mergeNodes makes the tree of MergeNodes.
THEOREM MergeNodesAgrees ==
  ASSUME NEW dst, IsValue(dst), NEW src, IsValue(src)
  PROVE  /\ IsValue(mergeNodes(dst, src))
         /\ PathsOf(mergeNodes(dst, src)) = MergeNodes(PathsOf(dst), PathsOf(src))
<1> DEFINE td == PathsOf(dst)
           ts == PathsOf(src)
           M == MergeNodes(td, ts)
           m == Merged(dst, src)
           bad == {q \in DOMAIN ts : Meet(td, ts, q, FALSE) /\ ~ShowsAt(m[q], M, q)}
<1>1. WellFormed(td) /\ WellFormed(ts) /\ WellFormed(M) /\ Rooted(ts) /\ Shows(src, ts)
  BY ValueIsShown, MergeNodesWellFormed, WellFormedChildren
<1>2. PathsIn(src) = DOMAIN ts
  BY <1>1, ShownIsValue
<1>3. mergeNodes(dst, src) = m[<<>>] /\ \A q \in DOMAIN ts : m[q] = MergedAt(dst, src, q, m)
  BY <1>2, MergedSteps
<1>4. bad \in SUBSET Path /\ IsFiniteSet(bad)
  BY <1>1, FS_Subset DEF Rooted
<1> HIDE DEF m, M
<1>5. ASSUME bad # {} PROVE FALSE
  <2>1. PICK q \in bad : \A r \in bad : Len(r) <= Len(q)
    BY <1>4, <1>5, LongestPath
  <2>2. q \in DOMAIN ts /\ q \in Path /\ Len(q) \in Nat
    BY <1>4, <2>1, PathLen
  <2>3. ASSUME NEW z \in Segment, Append(q, z) \in DOMAIN ts, Meet(td, ts, Append(q, z), FALSE)
        PROVE  ShowsAt(m[Append(q, z)], M, Append(q, z))
    <3>1. Len(Append(q, z)) = Len(q) + 1
      BY <2>2, LongerPath
    <3>2. Append(q, z) \notin bad
      <4>1. ~(Len(Append(q, z)) <= Len(q))
        BY <2>2, <3>1
      <4> HIDE DEF bad
      <4> QED BY <2>1, <4>1
    <3> QED BY <2>3, <3>2
  <2>4. ShowsAt(MergedAt(dst, src, q, m), M, q)
    BY <2>1, <2>2, <2>3, MergedTurn DEF M
  <2> QED BY <1>3, <2>1, <2>2, <2>4
<1>6. <<>> \in DOMAIN ts /\ Meet(td, ts, <<>>, FALSE)
  <2>1. \A r \in Path : IsPrefix(r, <<>>) => r = <<>>
    BY EmptyPath, IsPrefixOf, PathLen
  <2>2. <<>> \in DOMAIN ts /\ DOMAIN ts \subseteq Path
    BY <1>1 DEF Rooted
  <2> QED BY <2>1, <2>2 DEF Meet
<1>7. Shows(mergeNodes(dst, src), M)
  BY <1>3, <1>5, <1>6 DEF Shows
<1> QED BY <1>1, <1>7, ShownIsValue DEF M

\* Loading with DeepMerge writes the tree of MergeAt, or fails as Set would.
THEOREM MergeAtAgrees ==
  ASSUME NEW root, IsValue(root), NEW p \in Path, NEW value, IsValue(value)
  PROVE  LET result == mergeAt(root, p, value)
         IN  /\ result.err = SetError(PathsOf(root), p)
             /\ IsValue(result.node)
             /\ PathsOf(result.node) = MergeAt(PathsOf(root), p, PathsOf(value))
<1> DEFINE t == PathsOf(root)
           w == PathsOf(value)
           x == getAt(root, p)
           merged == IF x = NoValue THEN value ELSE mergeNodes(x, value)
<1>1. WellFormed(t) /\ WellFormed(w) /\ Rooted(t)
  BY ValueIsShown, WellFormedChildren
<1>2. /\ IsValue(merged)
      /\ PathsOf(merged) = IF p \in DOMAIN t THEN MergeNodes(Sub(t, p), w) ELSE w
  <2>1. CASE x = NoValue
    BY <2>1, ReadValue
  <2>2. CASE x # NoValue
    <3>1. IsValue(x) /\ PathsOf(x) = Sub(t, p) /\ p \in DOMAIN t
      BY <2>2, SubValue
    <3> HIDE DEF x, t
    <3>2. IsValue(mergeNodes(x, value)) /\ PathsOf(mergeNodes(x, value)) = MergeNodes(PathsOf(x), w)
      BY <3>1, MergeNodesAgrees
    <3> QED BY <2>2, <3>1, <3>2
  <2> QED BY <2>1, <2>2
<1>3. mergeAt(root, p, value) = SetInto(root, p, merged)
  BY DEF mergeAt
<1> HIDE DEF merged
<1>4. /\ SetInto(root, p, merged).err = SetError(t, p)
      /\ IsValue(SetInto(root, p, merged).node)
      /\ PathsOf(SetInto(root, p, merged).node) = SetAt(t, p, PathsOf(merged))
  BY <1>2, SetIntoAgrees
<1>5. SetAt(t, p, PathsOf(merged)) = MergeAt(t, p, w)
  <2>1. CASE p = <<>>
    <3>1. p \in DOMAIN t
      BY <1>1, <2>1 DEF Rooted
    <3>2. x = root
      BY <2>1, GetAtSteps
    <3>3. Sub(t, p) = t
      BY <3>1, <3>2, ReadValue, SubValue
    <3>4. SetInto(root, p, merged).node = merged
      BY <2>1 DEF SetInto, Outcome
    <3> QED BY <1>2, <1>4, <2>1, <3>1, <3>3, <3>4 DEF MergeAt
  <2>2. CASE p # <<>>
    BY <1>2, <2>2 DEF MergeAt, Exists
  <2> QED BY <2>1, <2>2
<1> QED BY <1>3, <1>4, <1>5

-----------------------------------------------------------------------------
(***************************************************************************)
(* evaluateNode and containsEvaluation.                                    *)
(***************************************************************************)
EvaluatedNodes(value, env) ==
  CHOOSE evaluated : evaluated = [q \in PathsIn(value) |-> EvaluatedAt(value, env, q, evaluated)]

LEMMA EvaluatedSteps ==
  ASSUME NEW value, IsValue(value), NEW env
  PROVE  /\ evaluateNode(value, env) = EvaluatedNodes(value, env)[<<>>]
         /\ \A q \in PathsIn(value) :
              EvaluatedNodes(value, env)[q] = EvaluatedAt(value, env, q, EvaluatedNodes(value, env))
<1>1. \A q, f : NodeAt("evaluateNode", value, env, q, f) = EvaluatedAt(value, env, q, f)
  BY DEF NodeAt
<1>2. PICK f : AllNodes(f, "evaluateNode", value, env)
  BY NodesExist
<1>3. f = [q \in PathsIn(value) |-> EvaluatedAt(value, env, q, f)]
  BY <1>1, <1>2, ZenonT(30) DEF AllNodes
<1>4. \E g : g = [q \in PathsIn(value) |-> EvaluatedAt(value, env, q, g)]
  BY <1>3
<1>5. EvaluatedNodes(value, env) =
        [q \in PathsIn(value) |-> EvaluatedAt(value, env, q, EvaluatedNodes(value, env))]
  BY <1>4, Zenon DEF EvaluatedNodes
<1>6. evaluateNode(value, env) = EvaluatedNodes(value, env)[<<>>]
  BY DEF evaluateNode, EvaluatedNodes, EvaluatedAt
<1> QED BY <1>5, <1>6

LEMMA TemplateNode ==
  ASSUME NEW value, IsValue(value), NEW q \in DOMAIN PathsOf(value)
  PROVE  /\ IsTemplate(getAt(value, q)) <=> q \in TemplatesOf(PathsOf(value))
         /\ q \in TemplatesOf(PathsOf(value)) =>
              getAt(value, q).scalar = PathsOf(value)[q] /\ Ref[PathsOf(value)[q]] \in Path
<1> DEFINE t == PathsOf(value)
           x == getAt(value, q)
<1>1. NodeShape(x) /\ LabelOf(x) = t[q]
  <2>1. q \in Path
    BY ValueIsShown DEF WellFormed
  <2> QED BY <2>1, ReadValue DEF IsNode
<1>2. Templates \subseteq Scalars /\ \A h \in Templates : Ref[h] \in Path
  BY TemplatesAssumption
<1>3. t[q] \in Scalars <=> x.kind = "scalar"
  BY <1>1, NodeLabels
<1>4. x.kind = "scalar" => t[q] = x.scalar
  BY <1>1, NodeLabels
<1> QED BY <1>2, <1>3, <1>4 DEF IsTemplate, TemplatesOf

\* A container built again from what its children have become.
LEMMA RebuiltNode ==
  ASSUME NEW value, NEW env, NEW q, NodeShape(getAt(value, q)), ~IsTemplate(getAt(value, q)), NEW f,
         \A s \in DOMAIN Fields(getAt(value, q)) : f[Append(q, s)] # NoValue
  PROVE  LET x == getAt(value, q)
             y == EvaluatedAt(value, env, q, f)
         IN  /\ NodeShape(y) /\ LabelOf(y) = LabelOf(x) /\ DOMAIN Fields(y) = DOMAIN Fields(x)
             /\ \A s \in DOMAIN Fields(x) : s \in Segment /\ Fields(y)[s] = f[Append(q, s)]
<1> DEFINE x == getAt(value, q)
           y == EvaluatedAt(value, env, q, f)
           o == [k \in DOMAIN x.obj |-> f[Append(q, Key(k))]]
           a == [i \in DOMAIN x.arr |-> f[Append(q, Index(i - 1))]]
<1>1. y = IF x.kind = Object THEN ObjectValue(o) ELSE IF x.kind = Array THEN ArrayValue(a) ELSE x
  BY DEF EvaluatedAt
<1>2. DOMAIN Fields(x) \subseteq Segment
  BY NodeFields
<1> HIDE DEF x, y
<1>3. CASE x.kind = Object
  <2>1. /\ \A k \in Keys : Key(k) \in DOMAIN Fields(x) <=> k \in DOMAIN x.obj
        /\ \A k \in DOMAIN x.obj : k \in Keys
    BY <1>3, NodeFields DEF x
  <2>2. o = [k \in DOMAIN o |-> o[k]] /\ DOMAIN o = DOMAIN x.obj /\ DOMAIN o \subseteq Keys
    BY <2>1
  <2>3. \A k \in DOMAIN x.obj : o[k] = f[Append(q, Key(k))]
    OBVIOUS
  <2> HIDE DEF o
  <2>4. /\ NodeShape(y) /\ LabelOf(y) = Object /\ DOMAIN Fields(y) \subseteq Segment
        /\ \A s \in DOMAIN Fields(y) : s = Key(s.key)
        /\ \A k \in Keys : Key(k) \in DOMAIN Fields(y) <=> k \in DOMAIN o
        /\ \A k \in DOMAIN o : Fields(y)[Key(k)] = o[k]
    BY <1>1, <1>3, <2>2, ObjectNode
  <2>5. LabelOf(x) = Object
    BY <1>3, NodeLabels DEF x
  <2>6. \A s \in DOMAIN Fields(x) : s = Key(s.key) /\ s.key \in Keys
    <3>1. \A s \in DOMAIN Fields(x) : s.kind = "key"
      BY <2>5, NodeFields DEF SlotsOK, x
    <3>2. \A s \in Segment : s.kind = "key" => s = Key(s.key) /\ s.key \in Keys
      BY DEF Segment, Key
    <3> QED BY <1>2, <3>1, <3>2
  <2>7. \A s \in DOMAIN Fields(y) : s = Key(s.key) /\ s.key \in Keys
    <3>1. \A s \in Segment : s = Key(s.key) => s.key \in Keys
      BY DEF Segment, Key, Index
    <3> QED BY <2>4, <3>1
  <2>8. ASSUME NEW s \in Segment, s = Key(s.key), s.key \in Keys
        PROVE  /\ s \in DOMAIN Fields(y) <=> s \in DOMAIN Fields(x)
               /\ s \in DOMAIN Fields(x) => Fields(y)[s] = f[Append(q, s)]
    <3> DEFINE k == s.key
    <3> HIDE DEF k
    <3>1. s = Key(k) /\ k \in Keys
      BY <2>8 DEF k
    <3> QED BY <2>1, <2>2, <2>3, <2>4, <3>1
  <2>9. DOMAIN Fields(y) = DOMAIN Fields(x)
    BY <1>2, <2>4, <2>6, <2>7, <2>8
  <2>10. \A s \in DOMAIN Fields(x) : s \in Segment /\ Fields(y)[s] = f[Append(q, s)]
    BY <1>2, <2>6, <2>8
  <2> QED BY <2>4, <2>5, <2>9, <2>10 DEF x, y
<1>4. CASE x.kind = Array
  <2> DEFINE n == Len(x.arr)
  <2>1. /\ DOMAIN x.arr = 1..n /\ n \in Nat
        /\ \A j \in Int : Index(j) \in DOMAIN Fields(x) <=> j \in 0..(n - 1)
    BY <1>4, NodeFields DEF x
  <2> HIDE DEF n
  <2>2. a = [i \in 1..n |-> a[i]]
    BY <2>1
  <2>3. \A j \in 0..(n - 1) : a[j + 1] = f[Append(q, Index(j))]
    <3>1. \A j \in 0..(n - 1) : j + 1 \in DOMAIN x.arr /\ (j + 1) - 1 = j
      BY <2>1
    <3> QED BY <3>1
  <2> HIDE DEF a
  <2>4. y = ArrayValue(a)
    BY <1>1, <1>4 DEF Array, Object
  <2>5. /\ NodeShape(y) /\ LabelOf(y) = Array /\ DOMAIN Fields(y) \subseteq Segment /\ y.kind = Array
        /\ \A j \in Int : Index(j) \in DOMAIN Fields(y) <=> j \in 0..(n - 1)
        /\ \A j \in 0..(n - 1) : Fields(y)[Index(j)] = a[j + 1]
    BY <2>1, <2>2, <2>4, ArrayNode
  <2>6. LabelOf(x) = Array
    BY <1>4, NodeLabels DEF x
  <2>7. /\ \A s \in DOMAIN Fields(x) : s \in Segment /\ s = Index(s.index) /\ s.index \in Int
        /\ \A s \in DOMAIN Fields(y) : s \in Segment /\ s = Index(s.index) /\ s.index \in Int
    BY <1>4, <2>5, ArraySlots DEF x
  <2>8. DOMAIN Fields(y) = DOMAIN Fields(x)
    BY <2>1, <2>5, <2>7
  <2>9. ASSUME NEW s \in DOMAIN Fields(x) PROVE s \in Segment /\ Fields(y)[s] = f[Append(q, s)]
    <3> DEFINE j == s.index
    <3> HIDE DEF j
    <3>1. s = Index(j) /\ j \in Int
      BY <2>7 DEF j
    <3>2. j \in 0..(n - 1)
      BY <2>1, <3>1
    <3> QED BY <2>3, <2>5, <2>7, <3>1, <3>2
  <2> QED BY <2>5, <2>6, <2>8, <2>9 DEF x, y
<1>5. CASE x.kind # Object /\ x.kind # Array
  <2>1. y = x
    BY <1>1, <1>5
  <2>2. DOMAIN Fields(x) = {}
    <3>1. LabelOf(x) \notin {Object, Array}
      BY <1>5, NodeLabels DEF x
    <3> QED BY <3>1, NodeFields DEF SlotsOK, x
  <2> QED BY <2>1, <2>2 DEF x, y
<1> QED BY <1>3, <1>4, <1>5

\* A template at q or below it whose reference leads nowhere.
Misses(tv, te, q) == \E h \in TemplatesOf(tv) : IsPrefix(q, h) /\ Ref[tv[h]] \notin DOMAIN te

LEMMA MissingAtTemplate ==
  ASSUME NEW tv, WellFormed(tv), NEW te, NEW q \in TemplatesOf(tv)
  PROVE  Misses(tv, te, q) <=> Ref[tv[q]] \notin DOMAIN te
<1>1. q \in Path
  BY DEF TemplatesOf, WellFormed
<1>2. IsPrefix(q, q)
  BY <1>1, PrefixSelf
<1>3. \A h \in TemplatesOf(tv) : IsPrefix(q, h) => h = q
  BY TemplatesAreLeaves DEF TemplatesOf
<1> QED BY <1>2, <1>3 DEF Misses

LEMMA MissingBelow ==
  ASSUME NEW tv, WellFormed(tv), NEW te, NEW q \in DOMAIN tv, q \notin TemplatesOf(tv)
  PROVE  Misses(tv, te, q) <=>
           \E s \in Segment : Append(q, s) \in DOMAIN tv /\ Misses(tv, te, Append(q, s))
<1>1. Rooted(tv) /\ q \in Path /\ \A h \in TemplatesOf(tv) : h \in Path /\ h \in DOMAIN tv
  BY WellFormedChildren DEF Rooted, TemplatesOf
<1>2. ASSUME NEW h \in TemplatesOf(tv), IsPrefix(q, h)
      PROVE  \E s \in Segment : Append(q, s) \in DOMAIN tv /\ IsPrefix(Append(q, s), h)
  <2>1. h # q /\ h \in Path /\ h \in DOMAIN tv
    BY <1>1
  <2>2. Len(q) \in Nat /\ Len(h) \in Nat /\ Len(q) <= Len(h)
    BY <1>1, <1>2, <2>1, PathLen, IsPrefixOf
  <2>3. q = Prefix(h, Len(q))
    BY <1>1, <1>2, <2>1, PrefixIsPrefix
  <2>4. Len(q) # Len(h)
    BY <2>1, <2>3, WholePrefix
  <2> DEFINE n == Len(q) + 1
  <2>5. n \in 1..Len(h) /\ n - 1 = Len(q) /\ n \in 0..Len(h)
    BY <2>2, <2>4
  <2> HIDE DEF n
  <2>6. h[n] \in Segment /\ Prefix(h, n) = Append(q, h[n])
    BY <2>1, <2>3, <2>5, PrefixStep
  <2>7. Prefix(h, n) \in DOMAIN tv /\ Prefix(h, n) \in Path /\ Len(Prefix(h, n)) = n
    BY <1>1, <2>1, <2>5, PrefixOf DEF Rooted
  <2>8. IsPrefix(Prefix(h, n), h)
    BY <2>1, <2>5, <2>7, PrefixIsPrefix
  <2> QED BY <2>6, <2>7, <2>8
<1>3. ASSUME NEW s \in Segment, NEW h \in TemplatesOf(tv), IsPrefix(Append(q, s), h)
      PROVE  IsPrefix(q, h)
  BY <1>1, <1>3, LongerPath, LongerNotPrefix, PrefixTransitive
<1> QED BY <1>2, <1>3 DEF Misses

\* One turn of evaluateNode: when it fails.
LEMMA MissingTurn ==
  ASSUME NEW value, IsValue(value), NEW env, IsValue(env), NEW q \in DOMAIN PathsOf(value), NEW f,
         \A s \in Segment : Append(q, s) \in DOMAIN PathsOf(value) =>
           (f[Append(q, s)] = NoValue <=> Misses(PathsOf(value), PathsOf(env), Append(q, s)))
  PROVE  EvaluatedAt(value, env, q, f) = NoValue <=> Misses(PathsOf(value), PathsOf(env), q)
<1> DEFINE tv == PathsOf(value)
           te == PathsOf(env)
           x == getAt(value, q)
           y == EvaluatedAt(value, env, q, f)
<1>1. WellFormed(tv) /\ Shows(value, tv) /\ q \in Path
  BY ValueIsShown DEF WellFormed
<1>2. NodeShape(x) /\ LabelOf(x) = tv[q]
  BY <1>1, ReadValue DEF IsNode
<1>3. IsTemplate(x) <=> q \in TemplatesOf(tv)
  BY TemplateNode
<1>4. CASE IsTemplate(x)
  <2>1. x.scalar = tv[q] /\ Ref[tv[q]] \in Path /\ q \in TemplatesOf(tv)
    BY <1>3, <1>4, TemplateNode
  <2>2. y = getAt(env, Ref[tv[q]])
    BY <1>4, <2>1 DEF EvaluatedAt
  <2>3. y = NoValue <=> Ref[tv[q]] \notin DOMAIN te
    BY <2>1, <2>2, ReadValue
  <2> QED BY <1>1, <2>1, <2>3, MissingAtTemplate
<1>5. CASE ~IsTemplate(x)
  <2>1. \A s \in Segment : s \in DOMAIN Fields(x) <=> Append(q, s) \in DOMAIN tv
    BY <1>1, ShownBelow, ShownFields
  <2>2. DOMAIN Fields(x) \subseteq Segment
    BY <1>2, NodeFields
  <2>3. (\E s \in DOMAIN Fields(x) : f[Append(q, s)] = NoValue) <=> Misses(tv, te, q)
    <3>1. Misses(tv, te, q) <=>
            \E s \in Segment : Append(q, s) \in DOMAIN tv /\ Misses(tv, te, Append(q, s))
      BY <1>1, <1>3, <1>5, MissingBelow
    <3> QED BY <2>1, <2>2, <3>1
  <2>4. CASE \E s \in DOMAIN Fields(x) : f[Append(q, s)] = NoValue
    <3>1. y = NoValue
      BY <1>5, <2>4 DEF EvaluatedAt
    <3> QED BY <2>3, <2>4, <3>1
  <2>5. CASE \A s \in DOMAIN Fields(x) : f[Append(q, s)] # NoValue
    <3>1. NodeShape(y)
      BY <1>2, <1>5, <2>5, RebuiltNode
    <3> QED BY <2>3, <2>5, <3>1, NodeLabels
  <2> QED BY <2>4, <2>5
<1> QED BY <1>4, <1>5

\* One turn of evaluateNode: what it makes of a node when it does not fail.
LEMMA EvaluatedTurn ==
  ASSUME NEW value, IsValue(value), NEW env, IsValue(env), NEW q \in DOMAIN PathsOf(value), NEW f,
         ~Missing(PathsOf(value), PathsOf(env)),
         \A s \in Segment : Append(q, s) \in DOMAIN PathsOf(value) =>
           /\ f[Append(q, s)] # NoValue
           /\ ShowsAt(f[Append(q, s)], EvaluateNode(PathsOf(value), PathsOf(env)), Append(q, s))
  PROVE  ShowsAt(EvaluatedAt(value, env, q, f), EvaluateNode(PathsOf(value), PathsOf(env)), q)
<1> DEFINE tv == PathsOf(value)
           te == PathsOf(env)
           x == getAt(value, q)
           y == EvaluatedAt(value, env, q, f)
           E == EvaluateNode(tv, te)
<1>1. /\ WellFormed(tv) /\ Rooted(tv) /\ Shows(value, tv) /\ q \in Path
      /\ WellFormed(te) /\ Rooted(te) /\ Shows(env, te)
  BY ValueIsShown, WellFormedChildren DEF WellFormed
<1>2. NodeShape(x) /\ LabelOf(x) = tv[q]
  BY <1>1, ReadValue DEF IsNode
<1>3. IsTemplate(x) <=> q \in TemplatesOf(tv)
  BY TemplateNode
<1>4. /\ \A h \in TemplatesOf(tv), r \in Path : r \in DOMAIN Sub(te, Ref[tv[h]]) <=> h \o r \in DOMAIN E
      /\ \A h \in TemplatesOf(tv) : \A r \in DOMAIN Sub(te, Ref[tv[h]]) :
           E[h \o r] = Sub(te, Ref[tv[h]])[r]
      /\ \A u \in Path : (\A h \in TemplatesOf(tv) : ~IsPrefix(h, u)) =>
           (u \in DOMAIN E <=> u \in DOMAIN tv) /\ (u \in DOMAIN tv => E[u] = tv[u])
  BY <1>1, Evaluated
<1>5. CASE IsTemplate(x)
  <2> DEFINE p == Ref[tv[q]]
  <2>1. x.scalar = tv[q] /\ p \in Path /\ q \in TemplatesOf(tv)
    BY <1>3, <1>5, TemplateNode
  <2>2. y = getAt(env, p)
    BY <1>5, <2>1 DEF EvaluatedAt
  <2>3. /\ \A r \in Path : r \in DOMAIN Sub(te, p) <=> p \o r \in DOMAIN te
        /\ \A r \in DOMAIN Sub(te, p) : Sub(te, p)[r] = te[p \o r]
    BY <1>1, <2>1, SubDomain
  <2>4. ShowsAt(getAt(env, p), te, p)
    BY <1>1, <2>1, ShownBelow
  <2> HIDE DEF E, tv, te, x
  <2>5. \A r \in Path : r \in DOMAIN Sub(te, p) <=> q \o r \in DOMAIN E
    BY <1>4, <2>1
  <2>6. \A r \in DOMAIN Sub(te, p) : E[q \o r] = Sub(te, p)[r]
    BY <1>4, <2>1
  <2> HIDE DEF p
  <2>7. \A r \in Path : /\ q \o r \in DOMAIN E <=> p \o r \in DOMAIN te
                        /\ p \o r \in DOMAIN te => E[q \o r] = te[p \o r]
    BY <2>3, <2>5, <2>6
  <2>8. ShowsAt(getAt(env, p), E, q)
    BY <2>4, <2>7 DEF ShowsAt
  <2> QED BY <2>2, <2>8 DEF E, tv, te
<1>6. CASE ~IsTemplate(x)
  <2>1. /\ DOMAIN Fields(x) \subseteq Segment
        /\ \A s \in Segment : s \in DOMAIN Fields(x) <=> Append(q, s) \in DOMAIN tv
    BY <1>1, ShownBelow, ShownFields
  <2>2. /\ NodeShape(y) /\ LabelOf(y) = LabelOf(x) /\ DOMAIN Fields(y) = DOMAIN Fields(x)
        /\ \A s \in DOMAIN Fields(x) : Fields(y)[s] = f[Append(q, s)]
    <3>1. \A s \in DOMAIN Fields(x) : f[Append(q, s)] # NoValue
      BY <2>1
    <3> QED BY <1>2, <1>6, <3>1, RebuiltNode
  <2>3. \A h \in TemplatesOf(tv) : h \in Path /\ h \in DOMAIN tv /\ ~IsPrefix(h, q)
    BY <1>1, <1>3, <1>6, TemplatesAreLeaves DEF TemplatesOf, Rooted
  <2>4. q \in DOMAIN E /\ E[q] = tv[q]
    BY <1>1, <1>4, <2>3
  <2>5. \A s \in Segment : Append(q, s) \in DOMAIN tv =>
          f[Append(q, s)] # NoValue /\ ShowsAt(f[Append(q, s)], E, Append(q, s))
    OBVIOUS
  <2> HIDE DEF E, tv, te, x, y
  <2>6. ASSUME NEW z \in Segment PROVE ShowsAt(Found(y, z), E, Append(q, z))
    <3> DEFINE v == Append(q, z)
    <3>1. CASE v \in DOMAIN tv
      <4>1. Found(y, z) = f[v]
        BY <2>1, <2>2, <3>1, FoundIs
      <4> QED BY <2>5, <3>1, <4>1
    <3>2. CASE v \notin DOMAIN tv
      <4>1. Found(y, z) = NoValue
        BY <2>1, <2>2, <3>2, FoundIs
      <4>2. v \in Path /\ \A h \in Path : IsPrefix(h, v) => h = v \/ IsPrefix(h, q)
        BY <1>1, LongerPath, PrefixOfExtended
      <4> HIDE DEF v
      <4>3. ASSUME NEW r \in Path PROVE v \o r \notin DOMAIN E
        <5>1. v \o r \in Path /\ IsPrefix(v, v \o r)
          BY <4>2, Joined
        <5>2. v \o r \notin DOMAIN tv
          BY <1>1, <3>2, <4>2, <5>1, PrefixThere
        <5>3. ASSUME NEW h \in TemplatesOf(tv) PROVE ~IsPrefix(h, v \o r)
          <6>1. ~IsPrefix(v, h)
            BY <1>1, <2>3, <3>2, <4>2, PrefixThere
          <6>2. ~IsPrefix(h, v)
            BY <2>3, <3>2, <4>2
          <6> QED BY <2>3, <4>2, <5>1, <6>1, <6>2, PrefixesOrdered
        <5> QED BY <1>4, <5>1, <5>2, <5>3
      <4>4. ShowsAt(NoValue, E, v)
        BY <4>3, NothingShown
      <4> QED BY <4>1, <4>4 DEF v
    <3> QED BY <3>1, <3>2
  <2>7. ASSUME NEW z \in DOMAIN Fields(y) PROVE Append(q, z) \in DOMAIN E
    <3>1. z \in Segment /\ Append(q, z) \in DOMAIN tv
      BY <2>1, <2>2
    <3>2. Append(q, z) \in Path
      BY <1>1, <3>1, LongerPath
    <3> QED BY <2>5, <3>1, <3>2, ShownTop
  <2>8. ShowsAt(y, E, q)
    BY <1>1, <1>2, <2>2, <2>4, <2>6, <2>7, ShownByChildren
  <2> QED BY <2>8 DEF y, E, tv, te
<1> QED BY <1>5, <1>6

\* One round of Interpolate fails where Missing says so, and otherwise makes
\* the tree of EvaluateNode.
THEOREM EvaluateNodeAgrees ==
  ASSUME NEW value, IsValue(value), NEW env, IsValue(env)
  PROVE  LET tv == PathsOf(value)
             te == PathsOf(env)
             next == evaluateNode(value, env)
         IN  /\ next = NoValue <=> Missing(tv, te)
             /\ next # NoValue => IsValue(next) /\ PathsOf(next) = EvaluateNode(tv, te)
<1> DEFINE tv == PathsOf(value)
           te == PathsOf(env)
           E == EvaluateNode(tv, te)
           ev == EvaluatedNodes(value, env)
           Right(q) == ev[q] = NoValue <=> Misses(tv, te, q)
           wrong == {q \in DOMAIN tv : ~Right(q)}
           bad == {q \in DOMAIN tv : ~ShowsAt(ev[q], E, q)}
<1>1. WellFormed(tv) /\ WellFormed(te) /\ Rooted(tv) /\ Shows(value, tv) /\ <<>> \in DOMAIN tv
  BY ValueIsShown, WellFormedChildren DEF WellFormed
<1>2. PathsIn(value) = DOMAIN tv
  BY <1>1, ShownIsValue
<1>3. evaluateNode(value, env) = ev[<<>>] /\ \A q \in DOMAIN tv : ev[q] = EvaluatedAt(value, env, q, ev)
  BY <1>2, EvaluatedSteps
<1>4. wrong \in SUBSET Path /\ IsFiniteSet(wrong) /\ bad \in SUBSET Path /\ IsFiniteSet(bad)
  BY <1>1, FS_Subset DEF Rooted
<1> HIDE DEF ev, E
<1>5. ASSUME wrong # {} PROVE FALSE
  <2>1. PICK q \in wrong : \A r \in wrong : Len(r) <= Len(q)
    <3> HIDE DEF wrong
    <3> QED BY <1>4, <1>5, LongestPath
  <2>2. q \in DOMAIN tv /\ q \in Path /\ Len(q) \in Nat
    BY <1>4, <2>1, PathLen
  <2>3. ASSUME NEW s \in Segment, Append(q, s) \in DOMAIN tv PROVE Right(Append(q, s))
    <3>1. ~(Len(Append(q, s)) <= Len(q))
      BY <2>2, LongerPath
    <3>2. Append(q, s) \notin wrong
      <4> HIDE DEF wrong
      <4> QED BY <2>1, <3>1
    <3> QED BY <2>3, <3>2
  <2>4. EvaluatedAt(value, env, q, ev) = NoValue <=> Misses(tv, te, q)
    BY <2>2, <2>3, MissingTurn
  <2> QED BY <1>3, <2>1, <2>2, <2>4
<1>6. \A q \in DOMAIN tv : ev[q] = NoValue <=> Misses(tv, te, q)
  BY <1>5
<1>7. \A q \in DOMAIN tv : Misses(tv, te, q) => Missing(tv, te)
  BY DEF Misses, Missing, Exists
<1>8. Misses(tv, te, <<>>) <=> Missing(tv, te)
  <2>1. \A h \in TemplatesOf(tv) : IsPrefix(<<>>, h)
    BY <1>1, EmptyPath, IsPrefixOf, PathLen DEF TemplatesOf, Rooted
  <2> QED BY <2>1 DEF Misses, Missing, Exists
<1>9. CASE ~Missing(tv, te)
  <2>1. ASSUME bad # {} PROVE FALSE
    <3>1. PICK q \in bad : \A r \in bad : Len(r) <= Len(q)
      <4> HIDE DEF bad
      <4> QED BY <1>4, <2>1, LongestPath
    <3>2. q \in DOMAIN tv /\ q \in Path /\ Len(q) \in Nat
      BY <1>4, <3>1, PathLen
    <3>3. ASSUME NEW s \in Segment, Append(q, s) \in DOMAIN tv
          PROVE  ev[Append(q, s)] # NoValue /\ ShowsAt(ev[Append(q, s)], E, Append(q, s))
      <4>1. ~(Len(Append(q, s)) <= Len(q))
        BY <3>2, LongerPath
      <4>2. Append(q, s) \notin bad
        <5> HIDE DEF bad
        <5> QED BY <3>1, <4>1
      <4> QED BY <1>6, <1>7, <1>9, <3>3, <4>2
    <3>4. ShowsAt(EvaluatedAt(value, env, q, ev), E, q)
      BY <1>9, <3>2, <3>3, EvaluatedTurn DEF E
    <3> QED BY <1>3, <3>1, <3>2, <3>4
  <2>2. Shows(evaluateNode(value, env), E) /\ WellFormed(E)
    BY <1>1, <1>3, <1>9, <2>1, EvaluateNodeWellFormed DEF Shows, E
  <2>3. IsValue(evaluateNode(value, env)) /\ PathsOf(evaluateNode(value, env)) = E
    BY <2>2, ShownIsValue
  <2> QED BY <1>1, <1>3, <1>6, <1>8, <1>9, <2>3 DEF E
<1>10. CASE Missing(tv, te)
  BY <1>1, <1>3, <1>6, <1>8, <1>10
<1> QED BY <1>9, <1>10

LEMMA ContainsEvaluationAgrees ==
  ASSUME NEW value, IsValue(value)
  PROVE  containsEvaluation(value) <=> ContainsEvaluation(PathsOf(value))
<1> DEFINE t == PathsOf(value)
<1>1. PathsIn(value) = DOMAIN t
  BY ValueIsShown, ShownIsValue
<1>2. \A q \in DOMAIN t : IsTemplate(getAt(value, q)) <=> q \in TemplatesOf(t)
  BY TemplateNode
<1>3. TemplatesOf(t) \subseteq DOMAIN t
  BY DEF TemplatesOf
<1> HIDE DEF t
<1>4. (\E q \in DOMAIN t : IsTemplate(getAt(value, q))) <=> TemplatesOf(t) # {}
  BY <1>2, <1>3
<1> QED BY <1>1, <1>4 DEF containsEvaluation, ContainsEvaluation, t

=============================================================================
