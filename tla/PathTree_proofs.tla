---------------------------- MODULE PathTree_proofs ----------------------------
(***************************************************************************)
(* Facts about the tree operations of PathTree: what they make of a well   *)
(* formed tree is well formed.  First come facts about paths, then the     *)
(* view of well-formedness child by child that the proofs use, then one    *)
(* lemma per operation.                                                    *)
(***************************************************************************)
EXTENDS PathTree, SequenceTheorems, FiniteSetTheorems, WellFoundedInduction, TLAPS

-----------------------------------------------------------------------------
LEMMA PathLen ==
  ASSUME NEW p \in Path
  PROVE  Len(p) \in Nat /\ DOMAIN p = 1..Len(p) /\ \A i \in 1..Len(p) : p[i] \in Segment
  BY DEF Path

LEMMA PathsEqual ==
  ASSUME NEW p \in Path, NEW q \in Path, Len(p) = Len(q), \A i \in 1..Len(p) : p[i] = q[i]
  PROVE  p = q
  BY SeqEqual DEF Path

LEMMA EmptyPath == <<>> \in Path /\ Len(<<>>) = 0 /\ \A p \in Path : Len(p) = 0 => p = <<>>
<1>1. <<>> \in Path /\ Len(<<>>) = 0
  BY DEF Path
<1>2. ASSUME NEW p \in Path, Len(p) = 0 PROVE p = <<>>
  BY <1>1, <1>2, PathsEqual
<1> QED BY <1>1, <1>2

LEMMA PrefixOf ==
  ASSUME NEW q \in Path, NEW n \in 0..Len(q)
  PROVE  /\ Prefix(q, n) \in Path /\ Len(Prefix(q, n)) = n
         /\ \A i \in 1..n : Prefix(q, n)[i] = q[i]
<1>1. \A i \in 1..n : q[i] \in Segment
  BY DEF Path
<1>2. n \in Int /\ (1 <= n \/ n = 0)
  BY DEF Path
<1> QED BY <1>1, <1>2, SubSeqProperties DEF Prefix, Path

LEMMA IsPrefixOf ==
  ASSUME NEW p \in Path, NEW q \in Path
  PROVE  IsPrefix(p, q) <=> Len(p) <= Len(q) /\ \A i \in 1..Len(p) : p[i] = q[i]
<1>1. Prefix(p, Len(p)) = p
  BY PrefixOf, PathsEqual, PathLen
<1>2. CASE Len(p) <= Len(q)
  <2>1. Len(p) \in 0..Len(q)
    BY <1>2, PathLen
  <2>2. /\ Prefix(q, Len(p)) \in Path /\ Len(Prefix(q, Len(p))) = Len(p)
        /\ \A i \in 1..Len(p) : Prefix(q, Len(p))[i] = q[i]
    BY <2>1, PrefixOf
  <2>3. Prefix(q, Len(p)) = p <=> \A i \in 1..Len(p) : p[i] = q[i]
    BY <2>2, PathsEqual
  <2> QED BY <1>1, <1>2, <2>3 DEF IsPrefix, Prefix
<1>3. CASE ~(Len(p) <= Len(q))
  BY <1>3 DEF IsPrefix
<1> QED BY <1>2, <1>3

LEMMA RestOf ==
  ASSUME NEW p \in Path, NEW q \in Path, IsPrefix(p, q)
  PROVE  /\ Rest(p, q) \in Path /\ Len(Rest(p, q)) = Len(q) - Len(p)
         /\ \A i \in 1..(Len(q) - Len(p)) : Rest(p, q)[i] = q[Len(p) + i]
         /\ p \o Rest(p, q) = q
<1>1. /\ Len(p) <= Len(q) /\ (\A i \in 1..Len(p) : p[i] = q[i])
      /\ Len(p) \in Nat /\ Len(q) \in Nat
  BY IsPrefixOf, PathLen
<1>2. \A i \in (Len(p) + 1)..Len(q) : q[i] \in Segment
  BY <1>1, PathLen
<1>3. /\ Rest(p, q) \in Path /\ Len(Rest(p, q)) = Len(q) - Len(p)
      /\ \A i \in 1..(Len(q) - Len(p)) : Rest(p, q)[i] = q[Len(p) + i]
  BY <1>1, <1>2, SubSeqProperties DEF Rest, Path
<1>4. /\ p \o Rest(p, q) \in Path /\ Len(p \o Rest(p, q)) = Len(q)
      /\ \A i \in 1..Len(q) :
           (p \o Rest(p, q))[i] = IF i <= Len(p) THEN p[i] ELSE Rest(p, q)[i - Len(p)]
  BY <1>1, <1>3, ConcatProperties DEF Path
<1>5. \A i \in 1..Len(q) : (p \o Rest(p, q))[i] = q[i]
  BY <1>1, <1>3, <1>4, SMTT(30)
<1> QED BY <1>3, <1>4, <1>5, PathsEqual

LEMMA Joined ==
  ASSUME NEW p \in Path, NEW r \in Path
  PROVE  /\ p \o r \in Path /\ Len(p \o r) = Len(p) + Len(r)
         /\ \A i \in 1..(Len(p) + Len(r)) :
              (p \o r)[i] = IF i <= Len(p) THEN p[i] ELSE r[i - Len(p)]
         /\ IsPrefix(p, p \o r) /\ Rest(p, p \o r) = r
<1> DEFINE q == p \o r
<1>1. /\ q \in Path /\ Len(q) = Len(p) + Len(r) /\ Len(p) \in Nat /\ Len(r) \in Nat
      /\ \A i \in 1..(Len(p) + Len(r)) : q[i] = IF i <= Len(p) THEN p[i] ELSE r[i - Len(p)]
  BY ConcatProperties, PathLen DEF Path
<1> HIDE DEF q
<1>2. IsPrefix(p, q)
  BY <1>1, IsPrefixOf
<1>3. /\ Rest(p, q) \in Path /\ Len(Rest(p, q)) = Len(r)
      /\ \A i \in 1..Len(r) : Rest(p, q)[i] = q[Len(p) + i]
  BY <1>1, <1>2, RestOf
<1>4. \A i \in 1..Len(r) : Rest(p, q)[i] = r[i]
  BY <1>1, <1>3
<1>5. Rest(p, q) = r
  BY <1>3, <1>4, PathsEqual
<1> QED BY <1>1, <1>2, <1>5 DEF q

LEMMA LongerPath ==
  ASSUME NEW q \in Path, NEW s \in Segment
  PROVE  /\ Append(q, s) \in Path /\ Len(Append(q, s)) = Len(q) + 1
         /\ Append(q, s)[Len(q) + 1] = s
         /\ \A i \in 1..Len(q) : Append(q, s)[i] = q[i]
  BY DEF Path

LEMMA SameExtended ==
  ASSUME NEW q \in Path, NEW s \in Segment, NEW r \in Path, NEW u \in Segment,
         Append(q, s) = Append(r, u)
  PROVE  q = r /\ s = u
<1> DEFINE x == Append(q, s)
<1>1. /\ Len(x) = Len(q) + 1 /\ x[Len(q) + 1] = s
      /\ \A i \in 1..Len(q) : x[i] = q[i]
  BY LongerPath
<1>2. /\ Len(x) = Len(r) + 1 /\ x[Len(r) + 1] = u
      /\ \A i \in 1..Len(r) : x[i] = r[i]
  BY LongerPath
<1> HIDE DEF x
<1>3. Len(q) = Len(r) /\ s = u /\ \A i \in 1..Len(q) : q[i] = r[i]
  BY <1>1, <1>2, PathLen
<1> QED BY <1>3, PathsEqual

\* A prefix is a prefix of the path less its last segment, or is all of it.
LEMMA PrefixOfExtended ==
  ASSUME NEW p \in Path, NEW q \in Path, NEW s \in Segment
  PROVE  IsPrefix(p, Append(q, s)) <=> p = Append(q, s) \/ IsPrefix(p, q)
<1> DEFINE x == Append(q, s)
<1>1. /\ x \in Path /\ Len(x) = Len(q) + 1 /\ Len(p) \in Nat /\ Len(q) \in Nat
      /\ \A i \in 1..Len(q) : x[i] = q[i]
  BY LongerPath, PathLen
<1> HIDE DEF x
<1>2. CASE Len(p) = Len(x)
  <2>1. ~IsPrefix(p, q)
    BY <1>1, <1>2, IsPrefixOf
  <2>2. IsPrefix(p, x) <=> p = x
    BY <1>1, <1>2, IsPrefixOf, PathsEqual
  <2> QED BY <2>1, <2>2 DEF x
<1>3. CASE Len(p) # Len(x)
  <2>1. IsPrefix(p, x) <=> Len(p) <= Len(q) /\ \A i \in 1..Len(p) : p[i] = x[i]
    BY <1>1, <1>3, IsPrefixOf
  <2>2. IsPrefix(p, x) <=> IsPrefix(p, q)
    BY <1>1, <2>1, IsPrefixOf
  <2> QED BY <1>3, <2>2 DEF x
<1> QED BY <1>2, <1>3

LEMMA PrefixStep ==
  ASSUME NEW q \in Path, NEW n \in 1..Len(q)
  PROVE  /\ n - 1 \in 0..Len(q) /\ Prefix(q, n - 1) \in Path /\ q[n] \in Segment
         /\ Prefix(q, n) = Append(Prefix(q, n - 1), q[n])
<1>1. /\ n - 1 \in 0..Len(q) /\ n \in 0..Len(q) /\ q[n] \in Segment
  BY PathLen
<1>2. /\ Prefix(q, n - 1) \in Path /\ Len(Prefix(q, n - 1)) = n - 1
      /\ \A i \in 1..(n - 1) : Prefix(q, n - 1)[i] = q[i]
  BY <1>1, PrefixOf
<1> DEFINE x == Append(Prefix(q, n - 1), q[n])
<1>3. /\ x \in Path /\ Len(x) = n /\ x[n] = q[n] /\ \A i \in 1..(n - 1) : x[i] = q[i]
  <2>1. /\ x \in Path /\ Len(x) = (n - 1) + 1 /\ x[(n - 1) + 1] = q[n]
        /\ \A i \in 1..(n - 1) : x[i] = Prefix(q, n - 1)[i]
    BY <1>1, <1>2, LongerPath
  <2> HIDE DEF x
  <2> QED BY <1>2, <2>1
<1> HIDE DEF x
<1>4. /\ Prefix(q, n) \in Path /\ Len(Prefix(q, n)) = n
      /\ \A i \in 1..n : Prefix(q, n)[i] = q[i]
  BY <1>1, PrefixOf
<1>5. \A i \in 1..n : x[i] = q[i]
  BY <1>3
<1>6. Prefix(q, n) = x
  BY <1>3, <1>4, <1>5, PathsEqual
<1> QED BY <1>1, <1>2, <1>6 DEF x

LEMMA WholePrefix ==
  ASSUME NEW q \in Path
  PROVE  Prefix(q, Len(q)) = q /\ Prefix(q, 0) = <<>>
<1>1. Len(q) \in 0..Len(q) /\ 0 \in 0..Len(q)
  BY PathLen
<1>2. Prefix(q, Len(q)) = q
  BY <1>1, PrefixOf, PathsEqual
<1>3. Prefix(q, 0) = <<>>
  BY <1>1, PrefixOf, EmptyPath
<1> QED BY <1>2, <1>3

LEMMA PrefixIsPrefix ==
  ASSUME NEW p \in Path, NEW q \in Path
  PROVE  IsPrefix(p, q) <=> Len(p) \in 0..Len(q) /\ p = Prefix(q, Len(p))
<1>1. Len(p) \in Nat /\ Len(q) \in Nat
  BY PathLen
<1>2. CASE Len(p) \in 0..Len(q)
  <2>1. /\ Prefix(q, Len(p)) \in Path /\ Len(Prefix(q, Len(p))) = Len(p)
        /\ \A i \in 1..Len(p) : Prefix(q, Len(p))[i] = q[i]
    BY <1>2, PrefixOf
  <2>2. p = Prefix(q, Len(p)) <=> \A i \in 1..Len(p) : p[i] = q[i]
    BY <2>1, PathsEqual
  <2> QED BY <1>1, <1>2, <2>2, IsPrefixOf
<1>3. CASE Len(p) \notin 0..Len(q)
  BY <1>1, <1>3, IsPrefixOf
<1> QED BY <1>2, <1>3

LEMMA PrefixOfPrefix ==
  ASSUME NEW q \in Path, NEW n \in 0..Len(q), NEW m \in 0..n
  PROVE  m \in 0..Len(q) /\ Prefix(Prefix(q, n), m) = Prefix(q, m)
<1>1. m \in 0..Len(q)
  BY PathLen
<1>2. /\ Prefix(q, n) \in Path /\ Len(Prefix(q, n)) = n
      /\ \A i \in 1..n : Prefix(q, n)[i] = q[i]
  BY PrefixOf
<1>3. /\ Prefix(q, m) \in Path /\ Len(Prefix(q, m)) = m
      /\ \A i \in 1..m : Prefix(q, m)[i] = q[i]
  BY <1>1, PrefixOf
<1> DEFINE x == Prefix(q, n)
<1> HIDE DEF x
<1>4. m \in 0..Len(x) /\ x \in Path
  BY <1>2 DEF x
<1>5. /\ Prefix(x, m) \in Path /\ Len(Prefix(x, m)) = m
      /\ \A i \in 1..m : Prefix(x, m)[i] = x[i]
  BY <1>4, PrefixOf
<1>6. \A i \in 1..m : Prefix(x, m)[i] = Prefix(q, m)[i]
  BY <1>2, <1>3, <1>5 DEF x
<1>7. Prefix(x, m) = Prefix(q, m)
  BY <1>3, <1>5, <1>6, PathsEqual
<1> QED BY <1>1, <1>7 DEF x

LEMMA PrefixTransitive ==
  ASSUME NEW p \in Path, NEW q \in Path, NEW r \in Path, IsPrefix(p, q), IsPrefix(q, r)
  PROVE  IsPrefix(p, r)
  BY IsPrefixOf, PathLen

\* Two prefixes of one path are prefixes of one another.
LEMMA PrefixesOrdered ==
  ASSUME NEW p \in Path, NEW q \in Path, NEW r \in Path, IsPrefix(p, r), IsPrefix(q, r)
  PROVE  IsPrefix(p, q) \/ IsPrefix(q, p)
  BY IsPrefixOf, PathLen

LEMMA PrefixEqual ==
  ASSUME NEW p \in Path, NEW q \in Path, IsPrefix(p, q), IsPrefix(q, p)
  PROVE  p = q
  BY IsPrefixOf, PathLen, PathsEqual

LEMMA FrontLast ==
  ASSUME NEW p \in Path, p # <<>>
  PROVE  /\ Front(p) \in Path /\ Last(p) \in Segment
         /\ p = Append(Front(p), Last(p)) /\ Len(p) \in 1..Len(p)
         /\ Front(p) = Prefix(p, Len(p) - 1) /\ Last(p) = p[Len(p)]
<1>1. Len(p) \in 1..Len(p)
  BY PathLen, EmptyPath
<1>2. Front(p) = Prefix(p, Len(p) - 1) /\ Last(p) = p[Len(p)]
  BY DEF Front, Last, Prefix
<1>3. Prefix(p, Len(p)) = p
  BY WholePrefix
<1> QED BY <1>1, <1>2, <1>3, PrefixStep

LEMMA JoinExtended ==
  ASSUME NEW p \in Path, NEW r \in Path, NEW s \in Segment
  PROVE  p \o Append(r, s) = Append(p \o r, s)
<1>1. /\ p \o r \in Path /\ Len(p \o r) = Len(p) + Len(r)
      /\ Len(p) \in Nat /\ Len(r) \in Nat
      /\ \A i \in 1..(Len(p) + Len(r)) :
           (p \o r)[i] = IF i <= Len(p) THEN p[i] ELSE r[i - Len(p)]
  BY Joined, PathLen
<1>2. /\ Append(r, s) \in Path /\ Len(Append(r, s)) = Len(r) + 1
      /\ Append(r, s)[Len(r) + 1] = s /\ \A i \in 1..Len(r) : Append(r, s)[i] = r[i]
  BY LongerPath
<1> DEFINE x == p \o Append(r, s)
           y == Append(p \o r, s)
<1>3. /\ x \in Path /\ Len(x) = Len(p) + Len(r) + 1
      /\ \A i \in 1..(Len(p) + Len(r) + 1) :
           x[i] = IF i <= Len(p) THEN p[i] ELSE Append(r, s)[i - Len(p)]
  <2>1. /\ x \in Path /\ Len(x) = Len(p) + Len(Append(r, s))
        /\ \A i \in 1..(Len(p) + Len(Append(r, s))) :
             x[i] = IF i <= Len(p) THEN p[i] ELSE Append(r, s)[i - Len(p)]
    BY <1>2, Joined
  <2> QED BY <1>1, <1>2, <2>1
<1>4. /\ y \in Path /\ Len(y) = Len(p) + Len(r) + 1 /\ y[Len(p) + Len(r) + 1] = s
      /\ \A i \in 1..(Len(p) + Len(r)) : y[i] = (p \o r)[i]
  BY <1>1, LongerPath
<1> HIDE DEF x, y
<1>5. ASSUME NEW i \in 1..(Len(p) + Len(r) + 1) PROVE x[i] = y[i]
  <2>1. CASE i <= Len(p)
    BY <1>1, <1>3, <1>4, <2>1
  <2>2. CASE i > Len(p) /\ i <= Len(p) + Len(r)
    <3>1. i \in 1..(Len(p) + Len(r)) /\ i - Len(p) \in 1..Len(r) /\ ~(i <= Len(p))
      BY <1>1, <2>2
    <3> QED BY <1>1, <1>2, <1>3, <1>4, <3>1
  <2>3. CASE i = Len(p) + Len(r) + 1
    <3>1. i - Len(p) = Len(r) + 1 /\ ~(i <= Len(p))
      BY <1>1, <2>3
    <3> QED BY <1>1, <1>2, <1>3, <1>4, <2>3, <3>1
  <2> QED BY <1>1, <2>1, <2>2, <2>3
<1>6. x = y
  BY <1>3, <1>4, <1>5, PathsEqual
<1> QED BY <1>6 DEF x, y

LEMMA JoinEmpty == ASSUME NEW p \in Path PROVE p \o <<>> = p /\ <<>> \o p = p
  BY ConcatEmptySeq DEF Path

LEMMA JoinPrefix ==
  ASSUME NEW p \in Path, NEW r \in Path, NEW n \in 0..Len(p \o r)
  PROVE  \/ n \in 0..Len(p) /\ Prefix(p \o r, n) = Prefix(p, n)
         \/ n - Len(p) \in 0..Len(r) /\ Prefix(p \o r, n) = p \o Prefix(r, n - Len(p))
<1> DEFINE x == p \o r
<1>1. /\ x \in Path /\ Len(x) = Len(p) + Len(r) /\ Len(p) \in Nat /\ Len(r) \in Nat
      /\ \A i \in 1..(Len(p) + Len(r)) : x[i] = IF i <= Len(p) THEN p[i] ELSE r[i - Len(p)]
  BY Joined, PathLen
<1> HIDE DEF x
<1>2. /\ Prefix(x, n) \in Path /\ Len(Prefix(x, n)) = n
      /\ \A i \in 1..n : Prefix(x, n)[i] = x[i]
  BY <1>1, PrefixOf DEF x
<1>3. n \in 0..(Len(p) + Len(r))
  BY <1>1 DEF x
<1>4. CASE n <= Len(p)
  <2>1. n \in 0..Len(p)
    BY <1>1, <1>3, <1>4
  <2>2. /\ Prefix(p, n) \in Path /\ Len(Prefix(p, n)) = n
        /\ \A i \in 1..n : Prefix(p, n)[i] = p[i]
    BY <2>1, PrefixOf
  <2>3. \A i \in 1..n : Prefix(x, n)[i] = Prefix(p, n)[i]
    BY <1>1, <1>2, <2>1, <2>2
  <2> QED BY <1>2, <2>1, <2>2, <2>3, PathsEqual DEF x
<1>5. CASE n > Len(p)
  <2> DEFINE m == n - Len(p)
             y == Prefix(r, m)
             z == p \o y
  <2>1. m \in 0..Len(r) /\ m \in Nat /\ Len(p) + m = n
    BY <1>1, <1>3, <1>5
  <2>2. /\ y \in Path /\ Len(y) = m
        /\ \A i \in 1..m : y[i] = r[i]
    BY <2>1, PrefixOf
  <2> HIDE DEF y
  <2>3. /\ z \in Path /\ Len(z) = Len(p) + m
        /\ \A i \in 1..(Len(p) + m) : z[i] = IF i <= Len(p) THEN p[i] ELSE y[i - Len(p)]
    BY <2>2, Joined
  <2> HIDE DEF z, m
  <2>4. ASSUME NEW i \in 1..n PROVE Prefix(x, n)[i] = z[i]
    <3>1. i \in 1..(Len(p) + Len(r)) /\ i \in 1..(Len(p) + m) /\ Prefix(x, n)[i] = x[i]
      BY <1>1, <1>2, <1>3, <2>1
    <3>2. CASE i <= Len(p)
      BY <1>1, <2>3, <3>1, <3>2
    <3>3. CASE i > Len(p)
      <4>1. i - Len(p) \in 1..m /\ ~(i <= Len(p))
        BY <1>1, <2>1, <3>1, <3>3
      <4> QED BY <1>1, <2>2, <2>3, <3>1, <4>1
    <3> QED BY <1>1, <3>1, <3>2, <3>3
  <2>5. Prefix(x, n) = z
    BY <1>2, <2>1, <2>3, <2>4, PathsEqual
  <2> QED BY <2>1, <2>5 DEF x, y, z, m
<1> QED BY <1>1, <1>3, <1>4, <1>5

LEMMA PrefixSelf == ASSUME NEW p \in Path PROVE IsPrefix(p, p) /\ Rest(p, p) = <<>>
<1>1. <<>> \in Path /\ p \o <<>> = p
  BY EmptyPath, JoinEmpty
<1>2. IsPrefix(p, p \o <<>>) /\ Rest(p, p \o <<>>) = <<>>
  BY <1>1, Joined
<1> QED BY <1>1, <1>2

LEMMA LongerNotPrefix ==
  ASSUME NEW q \in Path, NEW s \in Segment
  PROVE  IsPrefix(q, Append(q, s)) /\ ~IsPrefix(Append(q, s), q) /\ Append(q, s) # <<>>
<1> DEFINE x == Append(q, s)
<1>1. x \in Path /\ Len(x) = Len(q) + 1 /\ Len(q) \in Nat
  BY LongerPath, PathLen
<1>2. IsPrefix(q, x)
  BY PrefixSelf, PrefixOfExtended
<1> HIDE DEF x
<1>3. ~IsPrefix(x, q) /\ x # <<>>
  BY <1>1, IsPrefixOf, EmptyPath
<1> QED BY <1>2, <1>3 DEF x

-----------------------------------------------------------------------------
(***************************************************************************)
(* Well-formedness child by child.                                         *)
(***************************************************************************)
Rooted(t) ==
  /\ t \in [DOMAIN t -> Labels]
  /\ DOMAIN t \subseteq Path
  /\ IsFiniteSet(DOMAIN t)
  /\ <<>> \in DOMAIN t
  /\ \A q \in DOMAIN t : \A n \in 0..Len(q) : Prefix(q, n) \in DOMAIN t

\* The node at q is there to have a child in the slot s, and has those that
\* come before it.
Holds(t, q, s) ==
  /\ q \in DOMAIN t
  /\ t[q] = NewContainer(s)
  /\ s.kind = "index" =>
       s.index >= 0 /\ \A j \in 0..s.index : j < s.index => Append(q, Index(j)) \in DOMAIN t

ChildrenFit(t) ==
  \A q \in Path, s \in Segment : Append(q, s) \in DOMAIN t => Holds(t, q, s)

LEMMA IndexSegment == \A j \in Int : Index(j) \in Segment /\ Index(j).kind = "index" /\ Index(j).index = j
  BY DEF Index, Segment

LEMMA SegmentKinds ==
  ASSUME NEW s \in Segment
  PROVE  \/ s.kind = "key" /\ NewContainer(s) = Object
         \/ s.kind = "index" /\ s.index \in Int /\ s = Index(s.index) /\ NewContainer(s) = Array
<1>1. CASE s \in [kind: {"key"}, key: Keys]
  BY <1>1 DEF NewContainer
<1>2. CASE s \in [kind: {"index"}, index: Int]
  BY <1>2 DEF NewContainer, Index
<1> QED BY <1>1, <1>2 DEF Segment

LEMMA SlotIsChild ==
  ASSUME NEW t, Rooted(t), NEW q \in Path
  PROVE  /\ Slots(t, q) \subseteq Segment
         /\ \A s \in Segment : s \in Slots(t, q) <=> Append(q, s) \in DOMAIN t
<1>1. ASSUME NEW s, s \in Slots(t, q)
      PROVE  s \in Segment /\ Append(q, s) \in DOMAIN t
  <2>1. PICK r \in Under(t, q) \ {q} : s = r[Len(q) + 1]
    BY <1>1 DEF Slots
  <2>2. r \in DOMAIN t /\ r \in Path /\ IsPrefix(q, r) /\ r # q
    BY <2>1 DEF Under, Rooted
  <2>3. Len(q) \in Nat /\ Len(r) \in Nat /\ Len(q) <= Len(r) /\ \A i \in 1..Len(q) : q[i] = r[i]
    BY <2>2, IsPrefixOf, PathLen
  <2>4. Len(q) # Len(r)
    BY <2>2, <2>3, PathsEqual
  <2>5. Len(q) + 1 \in 1..Len(r) /\ Len(q) + 1 \in 0..Len(r) /\ (Len(q) + 1) - 1 = Len(q)
    BY <2>3, <2>4
  <2>6. /\ Prefix(r, Len(q)) = q
    BY <2>2, PrefixIsPrefix
  <2>7. Prefix(r, Len(q) + 1) = Append(q, s) /\ s \in Segment
    BY <2>1, <2>2, <2>5, <2>6, PrefixStep
  <2>8. Prefix(r, Len(q) + 1) \in DOMAIN t
    BY <2>2, <2>5 DEF Rooted
  <2> QED BY <2>7, <2>8
<1>2. ASSUME NEW s \in Segment, Append(q, s) \in DOMAIN t
      PROVE  s \in Slots(t, q)
  <2> DEFINE r == Append(q, s)
  <2>1. r \in Path /\ Len(r) = Len(q) + 1 /\ r[Len(q) + 1] = s /\ Len(q) \in Nat
    BY LongerPath, PathLen
  <2>2. IsPrefix(q, r)
    BY PrefixOfExtended, IsPrefixOf, PathLen
  <2>3. r # q
    BY <2>1
  <2> QED BY <1>2, <2>1, <2>2, <2>3 DEF Slots, Under
<1> QED BY <1>1, <1>2

LEMMA SlotsOfChildren ==
  ASSUME NEW t, Rooted(t), ChildrenFit(t), NEW q \in DOMAIN t
  PROVE  SlotsOK(t[q], Slots(t, q))
<1>1. q \in Path
  BY DEF Rooted
<1>2. ASSUME NEW s \in Slots(t, q)
      PROVE  /\ s \in Segment /\ t[q] = NewContainer(s)
             /\ s.kind = "index" =>
                  s.index >= 0 /\ \A j \in 0..s.index : Index(j) \in Slots(t, q)
  <2>1. s \in Segment /\ Append(q, s) \in DOMAIN t
    BY <1>1, <1>2, SlotIsChild
  <2>2. Holds(t, q, s)
    BY <1>1, <2>1 DEF ChildrenFit
  <2>3. ASSUME s.kind = "index", NEW j \in 0..s.index PROVE Index(j) \in Slots(t, q)
    <3>1. s.index \in Int /\ s = Index(s.index)
      BY <2>1, <2>3, SegmentKinds
    <3>2. Append(q, Index(j)) \in DOMAIN t
      BY <2>1, <2>2, <2>3, <3>1 DEF Holds
    <3>3. Index(j) \in Segment
      BY IndexSegment
    <3> QED BY <1>1, <3>2, <3>3, SlotIsChild
  <2> QED BY <2>1, <2>2, <2>3 DEF Holds
<1>3. \A s \in Slots(t, q) : \/ s.kind = "key" /\ t[q] = Object
                             \/ s.kind = "index" /\ t[q] = Array
  BY <1>2, SegmentKinds
<1> QED BY <1>2, <1>3 DEF SlotsOK, Object, Array

LEMMA ChildrenOfSlots ==
  ASSUME NEW t, Rooted(t), \A q \in DOMAIN t : SlotsOK(t[q], Slots(t, q))
  PROVE  ChildrenFit(t)
<1> SUFFICES ASSUME NEW q \in Path, NEW s \in Segment, Append(q, s) \in DOMAIN t
             PROVE  Holds(t, q, s)
  BY DEF ChildrenFit
<1>1. Append(q, s) \in Path /\ Len(Append(q, s)) = Len(q) + 1 /\ Len(q) \in 0..(Len(q) + 1)
  BY LongerPath, PathLen
<1>2. IsPrefix(q, Append(q, s))
  BY <1>1, PrefixOfExtended, IsPrefixOf, PathLen
<1>3. Prefix(Append(q, s), Len(q)) = q
  BY <1>1, <1>2, PrefixIsPrefix
<1>4. q \in DOMAIN t
  BY <1>1, <1>3 DEF Rooted
<1>5. s \in Slots(t, q) /\ SlotsOK(t[q], Slots(t, q))
  BY <1>4, SlotIsChild
<1>6. CASE s.kind = "key" /\ NewContainer(s) = Object
  BY <1>4, <1>5, <1>6 DEF SlotsOK, Holds, Array, Object
<1>7. CASE s.kind = "index" /\ s.index \in Int /\ s = Index(s.index) /\ NewContainer(s) = Array
  <2>1. t[q] = Array
    BY <1>5, <1>7 DEF SlotsOK, Array, Object
  <2>2. s.index >= 0 /\ \A j \in 0..s.index : Index(j) \in Slots(t, q)
    BY <1>5, <2>1 DEF SlotsOK, Array
  <2>3. \A j \in 0..s.index : Append(q, Index(j)) \in DOMAIN t
    BY <2>2, IndexSegment, SlotIsChild
  <2> QED BY <1>4, <1>7, <2>1, <2>2, <2>3 DEF Holds
<1> QED BY <1>6, <1>7, SegmentKinds

LEMMA WellFormedChildren ==
  ASSUME NEW t
  PROVE  WellFormed(t) <=> Rooted(t) /\ ChildrenFit(t)
  BY SlotsOfChildren, ChildrenOfSlots DEF WellFormed, Rooted

LEMMA FiniteImage ==
  ASSUME NEW S, IsFiniteSet(S), NEW f
  PROVE  IsFiniteSet({f[x] : x \in S})
<1> DEFINE T == {f[x] : x \in S}
           g == [x \in S |-> f[x]]
<1>1. g \in Surjection(S, T)
  BY DEF Surjection
<1> QED BY <1>1, FS_Surjection

-----------------------------------------------------------------------------
(***************************************************************************)
(* Graft.  The place for v is there if the container p leads into is.      *)
(***************************************************************************)
PlaceFor(t, p) == \A q \in Path, s \in Segment : p = Append(q, s) => Holds(t, q, s)

LEMMA UnderExtended ==
  ASSUME NEW p \in Path, NEW q \in Path, NEW s \in Segment, IsPrefix(p, Append(q, s))
  PROVE  \/ p = Append(q, s)
         \/ IsPrefix(p, q) /\ Rest(p, Append(q, s)) = Append(Rest(p, q), s)
<1>1. CASE IsPrefix(p, q)
  <2> DEFINE r == Rest(p, q)
  <2>1. r \in Path /\ p \o r = q
    BY <1>1, RestOf
  <2> HIDE DEF r
  <2>2. Append(r, s) \in Path /\ p \o Append(r, s) = Append(q, s)
    BY <2>1, JoinExtended, LongerPath
  <2>3. Rest(p, Append(q, s)) = Append(r, s)
    BY <2>2, Joined
  <2> QED BY <1>1, <2>3 DEF r
<1> QED BY <1>1, PrefixOfExtended

LEMMA ExistingPlace ==
  ASSUME NEW t, WellFormed(t), NEW p \in DOMAIN t
  PROVE  PlaceFor(t, p)
  BY WellFormedChildren DEF PlaceFor, ChildrenFit

LEMMA GraftDomain ==
  ASSUME NEW t, Rooted(t), NEW v, Rooted(v), NEW p \in Path
  PROVE  /\ \A q \in Path : q \in DOMAIN Graft(t, p, v) <=>
              IF IsPrefix(p, q) THEN Rest(p, q) \in DOMAIN v ELSE q \in DOMAIN t
         /\ DOMAIN Graft(t, p, v) \subseteq Path
         /\ \A q \in DOMAIN Graft(t, p, v) :
              Graft(t, p, v)[q] = IF IsPrefix(p, q) THEN v[Rest(p, q)] ELSE t[q]
<1> DEFINE grafted == {p \o r : r \in DOMAIN v}
<1>1. DOMAIN Graft(t, p, v) = (DOMAIN t \ Under(t, p)) \cup grafted
  BY DEF Graft
<1>2. \A q \in DOMAIN Graft(t, p, v) :
        Graft(t, p, v)[q] = IF q \in grafted THEN v[Rest(p, q)] ELSE t[q]
  BY DEF Graft
<1>3. grafted \subseteq Path
  BY Joined DEF Rooted
<1>4. \A q \in Path : q \in grafted <=> IsPrefix(p, q) /\ Rest(p, q) \in DOMAIN v
  <2>1. ASSUME NEW q \in grafted PROVE IsPrefix(p, q) /\ Rest(p, q) \in DOMAIN v
    BY Joined DEF Rooted
  <2>2. ASSUME NEW q \in Path, IsPrefix(p, q), Rest(p, q) \in DOMAIN v PROVE q \in grafted
    BY <2>2, RestOf
  <2> QED BY <2>1, <2>2
<1>5. \A q \in Path : q \in DOMAIN t \ Under(t, p) <=> q \in DOMAIN t /\ ~IsPrefix(p, q)
  BY DEF Under
<1> HIDE DEF grafted
<1>6. DOMAIN t \subseteq Path
  BY DEF Rooted
<1>7. \A q \in Path : q \in DOMAIN Graft(t, p, v) <=>
              IF IsPrefix(p, q) THEN Rest(p, q) \in DOMAIN v ELSE q \in DOMAIN t
  BY <1>1, <1>4, <1>5
<1>8. DOMAIN Graft(t, p, v) \subseteq Path
  BY <1>1, <1>3, <1>6
<1>9. \A q \in DOMAIN Graft(t, p, v) :
              Graft(t, p, v)[q] = IF IsPrefix(p, q) THEN v[Rest(p, q)] ELSE t[q]
  BY <1>2, <1>4, <1>7, <1>8
<1> QED BY <1>7, <1>8, <1>9

LEMMA GraftRooted ==
  ASSUME NEW t, Rooted(t), NEW v, Rooted(v), NEW p \in Path, PlaceFor(t, p)
  PROVE  Rooted(Graft(t, p, v)) /\ p \in DOMAIN Graft(t, p, v)
<1> DEFINE g == Graft(t, p, v)
<1>1. \A q \in Path : q \in DOMAIN g <=>
              IF IsPrefix(p, q) THEN Rest(p, q) \in DOMAIN v ELSE q \in DOMAIN t
  BY GraftDomain
<1>2. DOMAIN g \subseteq Path
  BY GraftDomain
<1>3. \A q \in DOMAIN g : g[q] = IF IsPrefix(p, q) THEN v[Rest(p, q)] ELSE t[q]
  BY GraftDomain
<1>4. g \in [DOMAIN g -> Labels]
  <2>1. \A q \in DOMAIN g : g[q] \in Labels
    BY <1>1, <1>2, <1>3 DEF Rooted
  <2>2. g = [q \in DOMAIN g |-> g[q]]
    BY DEF Graft
  <2> HIDE DEF g
  <2> QED BY <2>1, <2>2
<1>5. IsFiniteSet(DOMAIN g)
  <2> DEFINE join == [r \in DOMAIN v |-> p \o r]
  <2>1. IsFiniteSet({join[r] : r \in DOMAIN v})
    BY FiniteImage DEF Rooted
  <2>2. {join[r] : r \in DOMAIN v} = {p \o r : r \in DOMAIN v}
    OBVIOUS
  <2>3. IsFiniteSet(DOMAIN t \ Under(t, p))
    BY FS_Difference DEF Rooted
  <2> QED BY <2>1, <2>2, <2>3, FS_Union DEF Graft
<1> HIDE DEF g
<1>6. IsPrefix(p, p) /\ Rest(p, p) = <<>>
  BY PrefixSelf
<1>7. p \in DOMAIN g
  BY <1>1, <1>6 DEF Rooted
<1>8. ASSUME p # <<>> PROVE Front(p) \in DOMAIN t /\ Front(p) \in Path /\ Front(p) = Prefix(p, Len(p) - 1) /\ Len(p) \in Nat \ {0}
  BY <1>8, FrontLast, PathLen DEF PlaceFor, Holds
<1>9. ASSUME NEW n \in 0..Len(p) PROVE Prefix(p, n) \in DOMAIN g
  <2>1. CASE n = Len(p)
    BY <1>7, <2>1, WholePrefix
  <2>2. CASE n # Len(p)
    <3>1. p # <<>> /\ n \in 0..(Len(p) - 1) /\ Len(p) - 1 \in 0..Len(p)
      BY <2>2, EmptyPath, PathLen
    <3>2. Len(Front(p)) = Len(p) - 1 /\ Prefix(Front(p), n) = Prefix(p, n)
      BY <1>8, <3>1, PrefixOf, PrefixOfPrefix
    <3>3. Prefix(p, n) \in DOMAIN t
      BY <1>8, <3>1, <3>2 DEF Rooted
    <3>4. Prefix(p, n) \in Path /\ Len(Prefix(p, n)) = n /\ n < Len(p)
      BY <3>1, PrefixOf, PathLen
    <3>5. ~IsPrefix(p, Prefix(p, n))
      BY <3>4, IsPrefixOf
    <3> QED BY <1>1, <3>3, <3>4, <3>5
  <2> QED BY <2>1, <2>2
<1>10. <<>> \in DOMAIN g
  BY <1>9, WholePrefix, PathLen
<1>11. ASSUME NEW q \in DOMAIN g, NEW n \in 0..Len(q) PROVE Prefix(q, n) \in DOMAIN g
  <2>1. q \in Path /\ Prefix(q, n) \in Path /\ Len(Prefix(q, n)) = n /\ IsPrefix(Prefix(q, n), q)
    BY <1>2, PrefixOf, PrefixIsPrefix
  <2>2. CASE ~IsPrefix(p, q)
    <3>1. Prefix(q, n) \in DOMAIN t
      BY <1>1, <2>1, <2>2 DEF Rooted
    <3>2. ~IsPrefix(p, Prefix(q, n))
      BY <2>1, <2>2, PrefixTransitive
    <3> QED BY <1>1, <2>1, <3>1, <3>2
  <2>3. CASE IsPrefix(p, q)
    <3> DEFINE r == Rest(p, q)
    <3>1. r \in Path /\ q = p \o r /\ r \in DOMAIN v
      BY <1>1, <2>1, <2>3, RestOf
    <3>2. CASE n \in 0..Len(p) /\ Prefix(q, n) = Prefix(p, n)
      BY <1>9, <3>2
    <3>3. CASE n - Len(p) \in 0..Len(r) /\ Prefix(q, n) = p \o Prefix(r, n - Len(p))
      <4>1. Prefix(r, n - Len(p)) \in DOMAIN v /\ Prefix(r, n - Len(p)) \in Path
        BY <3>1, <3>3 DEF Rooted
      <4>2. IsPrefix(p, Prefix(q, n)) /\ Rest(p, Prefix(q, n)) = Prefix(r, n - Len(p))
        BY <3>3, <4>1, Joined
      <4> QED BY <1>1, <2>1, <4>1, <4>2
    <3> HIDE DEF r
    <3> QED BY <3>1, <3>2, <3>3, JoinPrefix
  <2> QED BY <2>2, <2>3
<1> QED BY <1>2, <1>4, <1>5, <1>7, <1>10, <1>11 DEF Rooted, g

LEMMA GraftChildren ==
  ASSUME NEW t, WellFormed(t), NEW v, WellFormed(v), NEW p \in Path, PlaceFor(t, p)
  PROVE  ChildrenFit(Graft(t, p, v))
<1> DEFINE g == Graft(t, p, v)
<1>1. Rooted(t) /\ ChildrenFit(t) /\ Rooted(v) /\ ChildrenFit(v)
  BY WellFormedChildren
<1>2. \A q \in Path : q \in DOMAIN g <=>
              IF IsPrefix(p, q) THEN Rest(p, q) \in DOMAIN v ELSE q \in DOMAIN t
  BY <1>1, GraftDomain
<1>3. \A q \in DOMAIN g : g[q] = IF IsPrefix(p, q) THEN v[Rest(p, q)] ELSE t[q]
  BY <1>1, GraftDomain
<1>4. p \in DOMAIN g
  BY <1>1, GraftRooted
<1> HIDE DEF g
<1> SUFFICES ASSUME NEW q \in Path, NEW s \in Segment, Append(q, s) \in DOMAIN g
             PROVE  Holds(g, q, s)
  BY DEF ChildrenFit, g
<1>5. Append(q, s) \in Path /\ ~IsPrefix(Append(q, s), q)
  BY LongerPath, LongerNotPrefix
<1>6. CASE ~IsPrefix(p, Append(q, s)) \/ p = Append(q, s)
  <2>1. ~IsPrefix(p, q)
    BY <1>5, <1>6, PrefixOfExtended
  <2>2. Holds(t, q, s)
    BY <1>1, <1>2, <1>5, <1>6 DEF PlaceFor, ChildrenFit
  <2>3. q \in DOMAIN g /\ g[q] = NewContainer(s)
    BY <1>2, <1>3, <2>1, <2>2 DEF Holds
  <2>4. ASSUME s.kind = "index", NEW j \in 0..s.index, j < s.index
        PROVE  Append(q, Index(j)) \in DOMAIN g
    <3>1. Append(q, Index(j)) \in DOMAIN t
      BY <2>2, <2>4 DEF Holds
    <3>2. Append(q, Index(j)) \in Path /\ Index(j) \in Segment
      BY IndexSegment, LongerPath
    <3>3. ~IsPrefix(p, Append(q, Index(j))) \/ p = Append(q, Index(j))
      BY <2>1, <3>2, PrefixOfExtended
    <3> QED BY <1>2, <1>4, <3>1, <3>2, <3>3
  <2> QED BY <2>2, <2>3, <2>4 DEF Holds
<1>7. CASE IsPrefix(p, q) /\ Rest(p, Append(q, s)) = Append(Rest(p, q), s) /\ IsPrefix(p, Append(q, s))
  <2> DEFINE r == Rest(p, q)
  <2>1. r \in Path /\ p \o r = q
    BY <1>7, RestOf
  <2>2. Append(r, s) \in DOMAIN v
    BY <1>2, <1>5, <1>7
  <2>0. r = Rest(p, q)
    OBVIOUS
  <2> HIDE DEF r
  <2>3. Holds(v, r, s)
    BY <1>1, <2>1, <2>2 DEF ChildrenFit
  <2>4. q \in DOMAIN g /\ g[q] = NewContainer(s)
    BY <1>2, <1>3, <1>7, <2>0, <2>3 DEF Holds
  <2>5. ASSUME s.kind = "index", NEW j \in 0..s.index, j < s.index
        PROVE  Append(q, Index(j)) \in DOMAIN g
    <3>1. Append(r, Index(j)) \in DOMAIN v /\ Index(j) \in Segment
      BY <2>3, <2>5, IndexSegment DEF Holds
    <3>2. p \o Append(r, Index(j)) = Append(q, Index(j)) /\ Append(r, Index(j)) \in Path
      BY <2>1, <3>1, JoinExtended, LongerPath
    <3>3. /\ Append(q, Index(j)) \in Path /\ IsPrefix(p, Append(q, Index(j)))
          /\ Rest(p, Append(q, Index(j))) = Append(r, Index(j))
      BY <3>2, Joined
    <3> QED BY <1>2, <3>1, <3>3
  <2> QED BY <2>3, <2>4, <2>5 DEF Holds
<1> QED BY <1>6, <1>7, UnderExtended

LEMMA GraftWellFormed ==
  ASSUME NEW t, WellFormed(t), NEW v, WellFormed(v), NEW p \in Path, PlaceFor(t, p)
  PROVE  WellFormed(Graft(t, p, v)) /\ p \in DOMAIN Graft(t, p, v)
  BY WellFormedChildren, GraftRooted, GraftChildren

(***************************************************************************)
(* Sub.                                                                    *)
(***************************************************************************)
LEMMA SubDomain ==
  ASSUME NEW t, Rooted(t), NEW p \in Path
  PROVE  /\ DOMAIN Sub(t, p) \subseteq Path
         /\ \A r \in Path : r \in DOMAIN Sub(t, p) <=> p \o r \in DOMAIN t
         /\ \A r \in DOMAIN Sub(t, p) : Sub(t, p)[r] = t[p \o r]
<1>1. DOMAIN Sub(t, p) = {Rest(p, q) : q \in Under(t, p)}
  BY DEF Sub
<1>2. \A q \in Under(t, p) : q \in DOMAIN t /\ q \in Path /\ IsPrefix(p, q)
  BY DEF Under, Rooted
<1>3. ASSUME NEW r \in DOMAIN Sub(t, p) PROVE r \in Path /\ p \o r \in DOMAIN t
  <2>1. PICK q \in Under(t, p) : r = Rest(p, q)
    BY <1>1
  <2> QED BY <1>2, <2>1, RestOf
<1>4. ASSUME NEW r \in Path, p \o r \in DOMAIN t PROVE r \in DOMAIN Sub(t, p)
  <2>1. p \o r \in Under(t, p) /\ Rest(p, p \o r) = r
    BY <1>4, Joined DEF Under
  <2> QED BY <1>1, <2>1
<1>5. \A r \in DOMAIN Sub(t, p) : Sub(t, p)[r] = t[p \o r]
  BY DEF Sub
<1> QED BY <1>3, <1>4, <1>5

LEMMA SubWellFormed ==
  ASSUME NEW t, WellFormed(t), NEW p \in DOMAIN t
  PROVE  WellFormed(Sub(t, p))
<1> DEFINE u == Sub(t, p)
<1>1. Rooted(t) /\ ChildrenFit(t) /\ p \in Path
  BY WellFormedChildren DEF Rooted
<1>2. DOMAIN u \subseteq Path
  BY <1>1, SubDomain
<1>3. \A r \in Path : r \in DOMAIN u <=> p \o r \in DOMAIN t
  BY <1>1, SubDomain
<1>4. \A r \in DOMAIN u : u[r] = t[p \o r]
  BY <1>1, SubDomain
<1>5. u \in [DOMAIN u -> Labels]
  <2>1. \A r \in DOMAIN u : u[r] \in Labels
    BY <1>1, <1>2, <1>3, <1>4 DEF Rooted
  <2>2. u = [r \in DOMAIN u |-> u[r]]
    BY DEF Sub
  <2> HIDE DEF u
  <2> QED BY <2>1, <2>2
<1>6. IsFiniteSet(DOMAIN u)
  <2> DEFINE cut == [q \in Under(t, p) |-> Rest(p, q)]
  <2>1. IsFiniteSet(Under(t, p))
    BY <1>1, FS_Subset DEF Under, Rooted
  <2>2. IsFiniteSet({cut[q] : q \in Under(t, p)})
    BY <2>1, FiniteImage
  <2>3. {cut[q] : q \in Under(t, p)} = DOMAIN u
    BY DEF Sub
  <2> QED BY <2>2, <2>3
<1> HIDE DEF u
<1>7. <<>> \in DOMAIN u
  BY <1>1, <1>3, JoinEmpty, EmptyPath
<1>8. ASSUME NEW r \in DOMAIN u, NEW n \in 0..Len(r) PROVE Prefix(r, n) \in DOMAIN u
  <2>1. /\ r \in Path /\ p \o r \in DOMAIN t /\ p \o r \in Path /\ Len(p \o r) = Len(p) + Len(r)
        /\ Len(p) \in Nat /\ Len(r) \in Nat
    BY <1>1, <1>2, <1>3, Joined, PathLen
  <2>2. Len(p) + n \in 0..Len(p \o r) /\ (Len(p) + n) - Len(p) = n
    BY <2>1
  <2>3. Prefix(p \o r, Len(p) + n) = p \o Prefix(r, n)
    <3>1. CASE n = 0
      <4>1. Len(p) + n = Len(p) /\ Prefix(p, Len(p)) = p /\ Prefix(r, n) = <<>>
        BY <1>1, <2>1, <3>1, WholePrefix
      <4>2. IsPrefix(p, p \o r)
        BY <1>1, <2>1, Joined
      <4>3. Prefix(p \o r, Len(p)) = p
        BY <1>1, <2>1, <4>2, PrefixIsPrefix
      <4> QED BY <1>1, <4>1, <4>3, JoinEmpty
    <3>2. CASE n # 0
      <4>1. Len(p) + n \notin 0..Len(p)
        BY <2>1, <3>2
      <4> QED BY <1>1, <2>1, <2>2, <4>1, JoinPrefix
    <3> QED BY <3>1, <3>2
  <2>4. Prefix(p \o r, Len(p) + n) \in DOMAIN t /\ Prefix(r, n) \in Path
    BY <1>1, <2>1, <2>2, PrefixOf DEF Rooted
  <2> QED BY <1>3, <2>3, <2>4
<1>9. ChildrenFit(u)
  <2> SUFFICES ASSUME NEW q \in Path, NEW s \in Segment, Append(q, s) \in DOMAIN u
               PROVE  Holds(u, q, s)
    BY DEF ChildrenFit
  <2>1. /\ p \o Append(q, s) = Append(p \o q, s) /\ p \o q \in Path
        /\ Append(q, s) \in Path
    BY <1>1, JoinExtended, Joined, LongerPath
  <2>2. Holds(t, p \o q, s)
    BY <1>1, <1>3, <2>1 DEF ChildrenFit
  <2>3. q \in DOMAIN u /\ u[q] = NewContainer(s)
    BY <1>3, <1>4, <2>2 DEF Holds
  <2>4. ASSUME s.kind = "index", NEW j \in 0..s.index, j < s.index
        PROVE  Append(q, Index(j)) \in DOMAIN u
    <3>1. Append(p \o q, Index(j)) \in DOMAIN t /\ Index(j) \in Segment
      BY <2>2, <2>4, IndexSegment DEF Holds
    <3>2. p \o Append(q, Index(j)) = Append(p \o q, Index(j)) /\ Append(q, Index(j)) \in Path
      BY <1>1, <3>1, JoinExtended, LongerPath
    <3> QED BY <1>3, <3>1, <3>2
  <2> QED BY <2>2, <2>3, <2>4 DEF Holds
<1>10. Rooted(u)
  BY <1>2, <1>5, <1>6, <1>7, <1>8 DEF Rooted
<1> QED BY <1>9, <1>10, WellFormedChildren DEF u

(***************************************************************************)
(* setAt, up to the last segment.                                          *)
(***************************************************************************)
LEMMA StepFits ==
  ASSUME NEW t, NEW p \in Path, NEW n \in 1..Len(p), StepError(t, p, n) = "ok"
  PROVE  /\ p[n] \in Segment
         /\ p[n].kind = "index" => p[n].index \in Nat
         /\ Standing(t, p, n) = NewContainer(p[n])
<1>1. p[n] \in Segment
  BY PathLen
<1>2. ~(p[n].kind = "index" /\ p[n].index < 0) /\ Standing(t, p, n) = NewContainer(p[n])
  BY DEF StepError
<1>3. p[n].kind = "index" => p[n].index \in Int
  BY <1>1, SegmentKinds
<1> QED BY <1>1, <1>2, <1>3

LEMMA ContainerLabels ==
  ASSUME NEW s PROVE NewContainer(s) \in {Object, Array} /\ NewContainer(s) \in Labels /\ NewContainer(s) # Null /\ Null \in Labels
  BY DEF NewContainer, Labels, Object, Array, Null

LEMMA PaddingNode ==
  ASSUME NEW p \in Path, NEW n \in 1..Len(p), NEW q \in Padding(p, n)
  PROVE  /\ p[n].kind = "index"
         /\ \E j \in 0..p[n].index : q = Append(Prefix(p, n - 1), Index(j))
  BY DEF Padding

LEMMA PaddingFinite ==
  ASSUME NEW p \in Path, NEW n \in 1..Len(p)
  PROVE  IsFiniteSet(Padding(p, n))
<1>1. CASE p[n].kind = "index"
  <2> DEFINE pad == [j \in 0..p[n].index |-> Append(Prefix(p, n - 1), Index(j))]
  <2>1. p[n].index \in Int
    BY <1>1, PathLen, SegmentKinds
  <2>0. \A b \in Int : IsFiniteSet(0..b)
    BY FS_Interval
  <2>2. IsFiniteSet(0..p[n].index)
    BY <2>0, <2>1
  <2>3. IsFiniteSet({pad[j] : j \in 0..p[n].index})
    BY <2>2, FiniteImage
  <2>4. {pad[j] : j \in 0..p[n].index} = Padding(p, n)
    BY <1>1 DEF Padding
  <2> QED BY <2>3, <2>4
<1>2. CASE p[n].kind # "index"
  BY <1>2, FS_EmptySet DEF Padding
<1> QED BY <1>1, <1>2

LEMMA OpenedDomain ==
  ASSUME NEW t, WellFormed(t), NEW p \in Path, SetSucceeds(t, p)
  PROVE  /\ DOMAIN Opened(t, p) \subseteq Path
         /\ IsFiniteSet(DOMAIN Opened(t, p))
         /\ DOMAIN t \subseteq DOMAIN Opened(t, p)
         /\ \A n \in 1..Len(p) :
              /\ Prefix(p, n - 1) \in DOMAIN Opened(t, p)
              /\ Padding(p, n) \subseteq DOMAIN Opened(t, p)
              /\ Opened(t, p)[Prefix(p, n - 1)] = NewContainer(p[n])
         /\ \A q \in DOMAIN Opened(t, p) :
              \/ q \in DOMAIN t
              \/ \E n \in 1..Len(p) : q = Prefix(p, n - 1) \/ q \in Padding(p, n)
         /\ \A q \in DOMAIN t : t[q] # Null => Opened(t, p)[q] = t[q]
         /\ Opened(t, p) \in [DOMAIN Opened(t, p) -> Labels]
<1> DEFINE onPath == {Prefix(p, n) : n \in 0..(Len(p) - 1)}
           padded == UNION {Padding(p, n) : n \in 1..Len(p)}
           o == Opened(t, p)
<1>1. DOMAIN o = DOMAIN t \cup onPath \cup padded
  BY DEF Opened
<1>2. \A q \in DOMAIN o :
        o[q] = IF q \in onPath THEN NewContainer(p[Len(q) + 1])
               ELSE IF q \in DOMAIN t THEN t[q] ELSE Null
  BY DEF Opened
<1>3. o = [q \in DOMAIN o |-> o[q]]
  BY DEF Opened
<1>4. Len(p) \in Nat /\ Rooted(t)
  BY PathLen, WellFormedChildren
<1>5. ASSUME NEW n \in 1..Len(p)
      PROVE  /\ n - 1 \in 0..(Len(p) - 1) /\ n - 1 \in 0..Len(p) /\ Prefix(p, n - 1) \in onPath
             /\ Prefix(p, n - 1) \in Path /\ Len(Prefix(p, n - 1)) = n - 1
             /\ Padding(p, n) \subseteq padded
  <2>1. n - 1 \in 0..(Len(p) - 1) /\ n - 1 \in 0..Len(p)
    BY <1>4
  <2> QED BY <2>1, PrefixOf
<1>6. \A q \in onPath : \E n \in 1..Len(p) : q = Prefix(p, n - 1)
  <2> SUFFICES ASSUME NEW m \in 0..(Len(p) - 1) PROVE \E n \in 1..Len(p) : Prefix(p, m) = Prefix(p, n - 1)
    OBVIOUS
  <2>1. m + 1 \in 1..Len(p) /\ (m + 1) - 1 = m
    BY <1>4
  <2> QED BY <2>1
<1>7. \A q \in padded : \E n \in 1..Len(p) : q \in Padding(p, n)
  OBVIOUS
<1>8. IsFiniteSet(DOMAIN o)
  <2> DEFINE pref == [n \in 0..(Len(p) - 1) |-> Prefix(p, n)]
             pad == [n \in 1..Len(p) |-> Padding(p, n)]
  <2>1. IsFiniteSet(0..(Len(p) - 1)) /\ IsFiniteSet(1..Len(p))
    BY <1>4, FS_Interval
  <2>2. IsFiniteSet({pref[n] : n \in 0..(Len(p) - 1)}) /\ IsFiniteSet({pad[n] : n \in 1..Len(p)})
    BY <2>1, FiniteImage
  <2>3. {pref[n] : n \in 0..(Len(p) - 1)} = onPath /\ {pad[n] : n \in 1..Len(p)} = {Padding(p, n) : n \in 1..Len(p)}
    OBVIOUS
  <2>4. IsFiniteSet(padded)
    BY <2>2, <2>3, PaddingFinite, FS_UNION, ZenonT(40)
  <2>5. IsFiniteSet(onPath) /\ IsFiniteSet(DOMAIN t)
    BY <1>4, <2>2, <2>3 DEF Rooted
  <2> HIDE DEF onPath, padded, o, pref, pad
  <2>6. IsFiniteSet(DOMAIN t \cup onPath)
    BY <2>5, FS_Union
  <2> QED BY <1>1, <2>4, <2>6, FS_Union
<1> HIDE DEF onPath, padded, o
<1>9. ASSUME NEW n \in 1..Len(p) PROVE o[Prefix(p, n - 1)] = NewContainer(p[n])
  <2>1. Len(Prefix(p, n - 1)) + 1 = n
    BY <1>5
  <2> QED BY <1>1, <1>2, <1>5, <2>1
<1>10. ASSUME NEW q \in DOMAIN o PROVE q \in Path
  <2>1. CASE q \in DOMAIN t
    BY <1>4, <2>1 DEF Rooted
  <2>2. CASE q \in onPath
    BY <1>5, <1>6, <2>2
  <2>3. CASE q \in padded
    <3>1. PICK n \in 1..Len(p) : q \in Padding(p, n)
      BY <1>7, <2>3
    <3>2. PICK j \in 0..p[n].index : q = Append(Prefix(p, n - 1), Index(j))
      BY <3>1, PaddingNode
    <3>3. Index(j) \in Segment
      BY IndexSegment
    <3> QED BY <1>5, <3>2, <3>3, LongerPath
  <2> QED BY <1>1, <2>1, <2>2, <2>3
<1>11. ASSUME NEW q \in DOMAIN t, t[q] # Null PROVE o[q] = t[q]
  <2>1. CASE q \in onPath
    <3>1. PICK n \in 1..Len(p) : q = Prefix(p, n - 1)
      BY <1>6, <2>1
    <3>2. Standing(t, p, n) = t[q]
      BY <1>11, <3>1 DEF Standing
    <3>3. Standing(t, p, n) = NewContainer(p[n])
      BY StepFits DEF SetSucceeds
    <3> QED BY <1>9, <3>1, <3>2, <3>3
  <2>2. CASE q \notin onPath
    BY <1>1, <1>2, <2>2
  <2> QED BY <2>1, <2>2
<1>12. o \in [DOMAIN o -> Labels]
  <2>1. ASSUME NEW q \in DOMAIN o PROVE o[q] \in Labels
    BY <1>2, <1>4, ContainerLabels DEF Rooted
  <2> QED BY <1>3, <2>1
<1>13. \A q \in DOMAIN o : \/ q \in DOMAIN t
                           \/ \E n \in 1..Len(p) : q = Prefix(p, n - 1) \/ q \in Padding(p, n)
  BY <1>1, <1>6, <1>7
<1>14. \A n \in 1..Len(p) : Prefix(p, n - 1) \in DOMAIN o /\ Padding(p, n) \subseteq DOMAIN o
  BY <1>1, <1>5
<1> QED BY <1>1, <1>8, <1>9, <1>10, <1>11, <1>12, <1>13, <1>14 DEF o

LEMMA OpenedWellFormed ==
  ASSUME NEW t, WellFormed(t), NEW p \in Path, SetSucceeds(t, p)
  PROVE  WellFormed(Opened(t, p)) /\ PlaceFor(Opened(t, p), p)
<1> DEFINE o == Opened(t, p)
<1>1. Rooted(t) /\ ChildrenFit(t) /\ Len(p) \in Nat
  BY WellFormedChildren, PathLen
<1>2. /\ DOMAIN o \subseteq Path /\ IsFiniteSet(DOMAIN o) /\ DOMAIN t \subseteq DOMAIN o
      /\ o \in [DOMAIN o -> Labels]
  BY OpenedDomain
<1>3. \A n \in 1..Len(p) : /\ Prefix(p, n - 1) \in DOMAIN o /\ Padding(p, n) \subseteq DOMAIN o
                           /\ o[Prefix(p, n - 1)] = NewContainer(p[n])
  BY OpenedDomain
<1>4. \A q \in DOMAIN o :
              \/ q \in DOMAIN t
              \/ \E n \in 1..Len(p) : q = Prefix(p, n - 1) \/ q \in Padding(p, n)
  BY OpenedDomain
<1>5. \A q \in DOMAIN t : t[q] # Null => o[q] = t[q]
  BY OpenedDomain
<1> HIDE DEF o
<1>6. ASSUME NEW n \in 1..Len(p), NEW m \in 0..(n - 1) PROVE Prefix(p, m) \in DOMAIN o
  <2>1. m + 1 \in 1..Len(p) /\ (m + 1) - 1 = m
    BY <1>1
  <2> QED BY <1>3, <2>1
<1>7. ASSUME NEW q \in DOMAIN o, NEW k \in 0..Len(q) PROVE Prefix(q, k) \in DOMAIN o
  <2>1. CASE q \in DOMAIN t
    BY <1>1, <1>2, <2>1 DEF Rooted
  <2>2. ASSUME NEW n \in 1..Len(p), q = Prefix(p, n - 1) PROVE Prefix(q, k) \in DOMAIN o
    <3>1. n - 1 \in 0..Len(p)
      BY <1>1
    <3>2. Len(q) = n - 1 /\ k \in 0..(n - 1)
      BY <2>2, <3>1, PrefixOf
    <3>3. Prefix(q, k) = Prefix(p, k)
      BY <2>2, <3>1, <3>2, PrefixOfPrefix
    <3> QED BY <1>6, <3>2, <3>3
  <2>3. ASSUME NEW n \in 1..Len(p), q \in Padding(p, n) PROVE Prefix(q, k) \in DOMAIN o
    <3>1. PICK j \in 0..p[n].index : q = Append(Prefix(p, n - 1), Index(j))
      BY <2>3, PaddingNode
    <3> DEFINE above == Prefix(p, n - 1)
    <3>2. n - 1 \in 0..Len(p) /\ Index(j) \in Segment
      BY <1>1, IndexSegment
    <3>3. above \in Path /\ Len(above) = n - 1
      BY <3>2, PrefixOf
    <3>4. q \in Path /\ Len(q) = n
      BY <3>1, <3>2, <3>3, LongerPath
    <3>5. CASE k = n
      BY <3>4, <3>5, WholePrefix
    <3>6. CASE k # n
      <4>1. k \in 0..(n - 1) /\ n - 1 \in 0..Len(q)
        BY <3>4, <3>6
      <4>2. IsPrefix(above, q)
        BY <3>1, <3>2, <3>3, LongerNotPrefix
      <4>3. Prefix(q, n - 1) = above
        BY <3>3, <3>4, <4>2, PrefixIsPrefix
      <4>4. Prefix(q, k) = Prefix(above, k)
        BY <3>4, <4>1, <4>3, PrefixOfPrefix
      <4>5. Prefix(above, k) = Prefix(p, k)
        BY <3>2, <4>1, PrefixOfPrefix
      <4> QED BY <1>6, <4>1, <4>4, <4>5
    <3> QED BY <3>5, <3>6
  <2> QED BY <1>4, <2>1, <2>2, <2>3
<1>8. Rooted(o)
  <2>1. <<>> \in DOMAIN o
    BY <1>1, <1>2 DEF Rooted
  <2> QED BY <1>2, <1>7, <2>1 DEF Rooted
\* A node before segment n has room for a child in a slot up to p[n].
<1>9. ASSUME NEW n \in 1..Len(p), NEW s \in Segment, NewContainer(s) = NewContainer(p[n]),
             s.kind = "index" => s.index >= 0 /\ s.index <= p[n].index
      PROVE  Holds(o, Prefix(p, n - 1), s)
  <2>1. p[n] \in Segment
    BY PathLen
  <2>2. ASSUME s.kind = "index", NEW j \in 0..s.index
        PROVE  Append(Prefix(p, n - 1), Index(j)) \in DOMAIN o
    <3>1. p[n].kind = "index" /\ p[n].index \in Int /\ s.index \in Int
      BY <1>9, <2>1, <2>2, SegmentKinds DEF Object, Array
    <3>2. j \in 0..p[n].index
      BY <1>9, <2>2, <3>1
    <3>3. Append(Prefix(p, n - 1), Index(j)) \in Padding(p, n)
      BY <3>1, <3>2 DEF Padding
    <3> QED BY <1>3, <3>3
  <2> QED BY <1>3, <1>9, <2>2 DEF Holds
<1>10. ASSUME NEW n \in 1..Len(p) PROVE Holds(o, Prefix(p, n - 1), p[n])
  <2>1. StepError(t, p, n) = "ok"
    BY DEF SetSucceeds
  <2>2. p[n] \in Segment /\ (p[n].kind = "index" => p[n].index \in Nat)
    BY <2>1, StepFits
  <2> QED BY <1>9, <2>2
<1>11. ChildrenFit(o)
  <2> SUFFICES ASSUME NEW q \in Path, NEW s \in Segment, Append(q, s) \in DOMAIN o
               PROVE  Holds(o, q, s)
    BY DEF ChildrenFit
  <2> DEFINE x == Append(q, s)
  <2>0. Len(x) = Len(q) + 1 /\ Len(q) \in Nat
    BY LongerPath, PathLen
  <2>1. CASE x \in DOMAIN t
    <3>1. Holds(t, q, s)
      BY <1>1, <2>1 DEF ChildrenFit
    <3>2. t[q] # Null
      BY <3>1, ContainerLabels DEF Holds
    <3> QED BY <1>2, <1>5, <3>1, <3>2 DEF Holds
  <2>2. ASSUME NEW n \in 1..Len(p), x = Prefix(p, n - 1) PROVE Holds(o, q, s)
    <3>1. n - 1 \in 0..Len(p)
      BY <1>1
    <3>2. Len(x) = n - 1
      BY <2>2, <3>1, PrefixOf
    <3>3. n - 1 \in 1..Len(p)
      BY <2>0, <3>1, <3>2
    <3>4. x = Append(Prefix(p, n - 1 - 1), p[n - 1]) /\ Prefix(p, n - 1 - 1) \in Path /\ p[n - 1] \in Segment
      BY <2>2, <3>3, PrefixStep
    <3>5. q = Prefix(p, n - 1 - 1) /\ s = p[n - 1]
      BY <3>4, SameExtended
    <3> QED BY <1>10, <3>3, <3>5
  <2>3. ASSUME NEW n \in 1..Len(p), x \in Padding(p, n) PROVE Holds(o, q, s)
    <3>1. p[n].kind = "index"
      BY <2>3, PaddingNode
    <3>2. PICK j \in 0..p[n].index : x = Append(Prefix(p, n - 1), Index(j))
      BY <2>3, PaddingNode
    <3>3. n - 1 \in 0..Len(p) /\ Index(j) \in Segment /\ p[n] \in Segment
      BY <1>1, IndexSegment, PathLen
    <3>4. Prefix(p, n - 1) \in Path
      BY <3>3, PrefixOf
    <3>5. q = Prefix(p, n - 1) /\ s = Index(j)
      BY <3>2, <3>3, <3>4, SameExtended
    <3>6. NewContainer(s) = NewContainer(p[n]) /\ s.kind = "index" /\ s.index = j
      BY <3>1, <3>3, <3>5, IndexSegment DEF NewContainer
    <3>7. s.index >= 0 /\ s.index <= p[n].index
      BY <3>1, <3>3, <3>6, SegmentKinds
    <3> QED BY <1>9, <3>5, <3>6, <3>7
  <2> QED BY <1>4, <2>1, <2>2, <2>3
<1>12. PlaceFor(o, p)
  <2> SUFFICES ASSUME NEW q \in Path, NEW s \in Segment, p = Append(q, s) PROVE Holds(o, q, s)
    BY DEF PlaceFor
  <2>1. p # <<>>
    BY LongerNotPrefix
  <2>2. p = Append(Prefix(p, Len(p) - 1), p[Len(p)]) /\ Len(p) \in 1..Len(p)
    BY <2>1, FrontLast
  <2>3. Prefix(p, Len(p) - 1) \in Path /\ p[Len(p)] \in Segment
    BY <2>1, FrontLast
  <2>4. q = Prefix(p, Len(p) - 1) /\ s = p[Len(p)]
    BY <2>2, <2>3, SameExtended
  <2> QED BY <1>10, <2>2, <2>4
<1> QED BY <1>8, <1>11, <1>12, WellFormedChildren DEF o

LEMMA ExistingSucceeds ==
  ASSUME NEW t, WellFormed(t), NEW p \in DOMAIN t
  PROVE  SetSucceeds(t, p)
<1>1. Rooted(t) /\ ChildrenFit(t) /\ p \in Path
  BY WellFormedChildren DEF Rooted
<1> SUFFICES ASSUME NEW n \in 1..Len(p) PROVE StepError(t, p, n) = "ok"
  BY DEF SetSucceeds
<1>2. /\ n \in 0..Len(p) /\ Prefix(p, n - 1) \in Path /\ p[n] \in Segment
      /\ Prefix(p, n) = Append(Prefix(p, n - 1), p[n])
  BY <1>1, PrefixStep, PathLen
<1>3. Prefix(p, n) \in DOMAIN t
  BY <1>1, <1>2 DEF Rooted
<1>4. Holds(t, Prefix(p, n - 1), p[n])
  BY <1>1, <1>2, <1>3 DEF ChildrenFit
<1>5. Standing(t, p, n) = NewContainer(p[n])
  BY <1>4, ContainerLabels DEF Holds, Standing
<1>6. p[n].kind = "index" => p[n].index \in Int /\ p[n].index >= 0
  BY <1>2, <1>4, SegmentKinds DEF Holds
<1> QED BY <1>5, <1>6 DEF StepError

LEMMA PaddedRootWellFormed ==
  ASSUME NEW t, WellFormed(t), NEW p \in Path, ~SetSucceeds(t, p)
  PROVE  WellFormed(PaddedRoot(t, p))
<1>1. Rooted(t) /\ ChildrenFit(t) /\ Len(p) \in Nat
  BY WellFormedChildren, PathLen
<1>2. 1 \in 1..Len(p)
  BY <1>1 DEF SetSucceeds
<1>3. CASE StepError(t, p, 1) # "ok"
  BY <1>3 DEF PaddedRoot
<1>4. CASE StepError(t, p, 1) = "ok"
  <2> DEFINE o == PaddedRoot(t, p)
             padded == Padding(p, 1)
             top == Prefix(p, 1 - 1)
  <2>1. DOMAIN o = DOMAIN t \cup padded /\ o = [q \in DOMAIN o |-> o[q]]
    BY <1>4 DEF PaddedRoot
  <2>2. \A q \in DOMAIN o : o[q] = IF q \in DOMAIN t THEN t[q] ELSE Null
    BY <1>4 DEF PaddedRoot
  <2>3. IsFiniteSet(padded)
    BY <1>2, PaddingFinite
  <2>0. top = <<>>
    BY WholePrefix
  <2>4. top \in Path /\ Len(top) = 0
    BY WholePrefix, EmptyPath
  <2>5. \A q \in padded : p[1].kind = "index" /\ \E j \in 0..p[1].index : q = Append(top, Index(j))
    BY <1>2, PaddingNode
  <2>6. p[1].kind = "index" => p[1].index \in Nat /\ \A j \in 0..p[1].index : Append(top, Index(j)) \in padded
    BY <1>2, <1>4, StepFits DEF Padding
  <2>7. t[top] = NewContainer(p[1]) /\ top \in DOMAIN t
    BY <1>1, <1>2, <1>4, <2>0, StepFits DEF Standing, Rooted
  <2> HIDE DEF o, padded, top
  <2>8. ASSUME NEW q \in padded
        PROVE  q \in Path /\ Len(q) = 1 /\ \A n \in 0..Len(q) : Prefix(q, n) \in DOMAIN o
    <3>1. PICK j \in 0..p[1].index : q = Append(top, Index(j))
      BY <2>5
    <3>0. Index(j) \in Segment
      BY IndexSegment
    <3>2. q \in Path /\ Len(q) = 0 + 1
      BY <2>4, <3>0, <3>1, LongerPath
    <3>3. Prefix(q, 0) = top /\ Prefix(q, Len(q)) = q
      BY <2>4, <3>2, WholePrefix
    <3>4. \A n \in 0..Len(q) : n = 0 \/ n = Len(q)
      BY <3>2
    <3> QED BY <2>1, <2>7, <3>2, <3>3, <3>4
  <2>9. Rooted(o)
    <3>1. DOMAIN o \subseteq Path
      BY <1>1, <2>1, <2>8 DEF Rooted
    <3>2. IsFiniteSet(DOMAIN o)
      BY <1>1, <2>1, <2>3, FS_Union DEF Rooted
    <3>3. \A q \in DOMAIN o : o[q] \in Labels
      BY <1>1, <2>1, <2>2, ContainerLabels DEF Rooted
    <3>4. o \in [DOMAIN o -> Labels]
      BY <2>1, <3>3
    <3>5. \A q \in DOMAIN o : \A n \in 0..Len(q) : Prefix(q, n) \in DOMAIN o
      BY <1>1, <2>1, <2>8 DEF Rooted
    <3> QED BY <2>0, <2>1, <2>4, <2>7, <3>1, <3>2, <3>4, <3>5 DEF Rooted
  <2>10. ChildrenFit(o)
    <3> SUFFICES ASSUME NEW q \in Path, NEW s \in Segment, Append(q, s) \in DOMAIN o
                 PROVE  Holds(o, q, s)
      BY DEF ChildrenFit
    <3>1. CASE Append(q, s) \in DOMAIN t
      BY <1>1, <2>1, <2>2, <3>1 DEF ChildrenFit, Holds
    <3>2. CASE Append(q, s) \in padded
      <4>1. p[1].kind = "index"
        BY <2>5, <3>2
      <4>2. PICK j \in 0..p[1].index : Append(q, s) = Append(top, Index(j))
        BY <2>5, <3>2
      <4>0. Index(j) \in Segment
        BY IndexSegment
      <4>3. q = top /\ s = Index(j)
        BY <2>4, <4>0, <4>2, SameExtended
      <4>4. s.kind = "index" /\ s.index = j /\ j \in Nat /\ NewContainer(s) = NewContainer(p[1])
        BY <2>6, <4>1, <4>3, IndexSegment DEF NewContainer
      <4>5. \A i \in 0..s.index : Append(q, Index(i)) \in DOMAIN o
        BY <2>1, <2>6, <4>1, <4>3, <4>4
      <4> QED BY <2>1, <2>2, <2>7, <4>3, <4>4, <4>5 DEF Holds
    <3> QED BY <2>1, <3>1, <3>2
  <2> QED BY <2>9, <2>10, WellFormedChildren DEF o
<1> QED BY <1>3, <1>4

(***************************************************************************)
(* setAt leaves a well formed tree, whether it succeeds or fails.          *)
(***************************************************************************)
LEMMA SetAtWellFormed ==
  ASSUME NEW t, WellFormed(t), NEW v, WellFormed(v), NEW p \in Path
  PROVE  WellFormed(SetAt(t, p, v))
<1>1. CASE SetSucceeds(t, p)
  BY <1>1, OpenedWellFormed, GraftWellFormed DEF SetAt
<1>2. CASE ~SetSucceeds(t, p)
  BY <1>2, PaddedRootWellFormed DEF SetAt
<1> QED BY <1>1, <1>2

LEMMA LeafWellFormed ==
  ASSUME NEW x \in Labels
  PROVE  WellFormed(Leaf(x))
<1> DEFINE t == Leaf(x)
<1>1. DOMAIN t = {<<>>} /\ t = [q \in DOMAIN t |-> t[q]] /\ t[<<>>] = x
  BY DEF Leaf
<1> HIDE DEF t
<1>2. \A q \in Path, s \in Segment : Append(q, s) \notin DOMAIN t
  BY <1>1, LongerNotPrefix
<1>3. \A n \in 0..Len(<<>>) : Prefix(<<>>, n) = <<>>
  BY EmptyPath, WholePrefix
<1>4. IsFiniteSet(DOMAIN t)
  BY <1>1, FS_Singleton
<1>5. Rooted(t)
  BY <1>1, <1>3, <1>4, EmptyPath DEF Rooted
<1> QED BY <1>2, <1>5, WellFormedChildren DEF ChildrenFit, t

(***************************************************************************)
(* deleteAt.                                                               *)
(***************************************************************************)
LEMMA PruneWellFormed ==
  ASSUME NEW t, WellFormed(t), NEW p \in Path, p # <<>>, Last(p).kind = "key"
  PROVE  WellFormed(Prune(t, p))
<1> DEFINE o == Prune(t, p)
<1>1. Rooted(t) /\ ChildrenFit(t)
  BY WellFormedChildren
<1>2. o = [q \in DOMAIN o |-> o[q]] /\ \A q \in DOMAIN o : o[q] = t[q]
  BY DEF Prune
<1>3. DOMAIN o = DOMAIN t \ Under(t, p)
  BY DEF Prune
<1>4. \A q : q \in DOMAIN o <=> q \in DOMAIN t /\ ~IsPrefix(p, q)
  BY <1>3 DEF Under
<1>5. IsFiniteSet(DOMAIN o)
  BY <1>1, <1>3, FS_Difference DEF Rooted
<1> HIDE DEF o
<1>6. <<>> \in DOMAIN o
  <2>1. Len(p) # 0 /\ Len(p) \in Nat
    BY EmptyPath, PathLen
  <2>2. ~IsPrefix(p, <<>>)
    BY <2>1, EmptyPath, IsPrefixOf
  <2> QED BY <1>1, <1>4, <2>2 DEF Rooted
<1>7. ASSUME NEW q \in DOMAIN o, NEW n \in 0..Len(q) PROVE Prefix(q, n) \in DOMAIN o
  <2>1. q \in Path /\ Prefix(q, n) \in DOMAIN t /\ ~IsPrefix(p, q)
    BY <1>1, <1>4 DEF Rooted
  <2>2. Prefix(q, n) \in Path /\ Len(Prefix(q, n)) = n
    BY <2>1, PrefixOf
  <2>3. IsPrefix(Prefix(q, n), q)
    BY <2>1, <2>2, PrefixIsPrefix
  <2>4. ~IsPrefix(p, Prefix(q, n))
    BY <2>1, <2>2, <2>3, PrefixTransitive
  <2> QED BY <1>4, <2>1, <2>4
<1>8. Rooted(o)
  <2>1. DOMAIN o \subseteq Path /\ \A q \in DOMAIN o : o[q] \in Labels
    BY <1>1, <1>2, <1>4 DEF Rooted
  <2> QED BY <1>2, <1>5, <1>6, <1>7, <2>1 DEF Rooted
<1>9. ChildrenFit(o)
  <2> SUFFICES ASSUME NEW q \in Path, NEW s \in Segment, Append(q, s) \in DOMAIN o
               PROVE  Holds(o, q, s)
    BY DEF ChildrenFit
  <2>1. Holds(t, q, s) /\ ~IsPrefix(p, q)
    BY <1>1, <1>4, PrefixOfExtended DEF ChildrenFit
  <2>2. ASSUME NEW j \in Int, Append(q, Index(j)) \in DOMAIN t
        PROVE  Append(q, Index(j)) \in DOMAIN o
    <3>1. p # Append(q, Index(j))
      <4> SUFFICES ASSUME p = Append(q, Index(j)) PROVE FALSE
        OBVIOUS
      <4>1. p = Append(Front(p), Last(p)) /\ Front(p) \in Path /\ Last(p) \in Segment
        BY FrontLast
      <4>2. Last(p) = Index(j)
        BY <4>1, IndexSegment, SameExtended
      <4> QED BY <4>2, IndexSegment
    <3>2. ~IsPrefix(p, Append(q, Index(j)))
      BY <2>1, <3>1, IndexSegment, PrefixOfExtended
    <3> QED BY <1>4, <2>2, <3>2
  <2>3. s.kind = "index" => s.index \in Int
    BY SegmentKinds
  <2> QED BY <1>2, <1>4, <2>1, <2>2, <2>3 DEF Holds
<1> QED BY <1>8, <1>9, WellFormedChildren DEF o

LEMMA CutWellFormed ==
  ASSUME NEW t, WellFormed(t), NEW p \in DOMAIN t, p # <<>>
  PROVE  WellFormed(Cut(t, p)) /\ Front(p) \in DOMAIN Cut(t, p)
<1>1. Rooted(t) /\ p \in Path
  BY WellFormedChildren DEF Rooted
<1>2. /\ Front(p) \in Path /\ Last(p) \in Segment /\ p = Append(Front(p), Last(p))
      /\ Front(p) = Prefix(p, Len(p) - 1) /\ Len(p) \in Nat \ {0}
  BY <1>1, FrontLast, PathLen
<1>3. Front(p) \in DOMAIN t /\ ~IsPrefix(p, Front(p))
  <2>1. ~IsPrefix(Append(Front(p), Last(p)), Front(p))
    BY <1>2, LongerNotPrefix
  <2>2. Len(p) - 1 \in 0..Len(p)
    BY <1>2
  <2>3. Prefix(p, Len(p) - 1) \in DOMAIN t
    BY <1>1, <2>2 DEF Rooted
  <2> QED BY <1>2, <2>1, <2>3
<1>4. CASE Last(p).kind = "key"
  <2>1. Front(p) \in DOMAIN Prune(t, p)
    BY <1>3 DEF Prune, Under
  <2> QED BY <1>1, <1>4, <2>1, PruneWellFormed DEF Cut
<1>5. CASE Last(p).kind # "key"
  <2>1. WellFormed(Leaf(Null)) /\ Rooted(Leaf(Null))
    BY LeafWellFormed, ContainerLabels, WellFormedChildren
  <2>2. Front(p) \in DOMAIN Graft(t, p, Leaf(Null))
    BY <1>1, <1>2, <1>3, <2>1, GraftDomain
  <2> QED BY <1>1, <1>5, <2>1, <2>2, ExistingPlace, GraftWellFormed DEF Cut
<1> QED BY <1>4, <1>5

LEMMA CheckedDelete ==
  ASSUME NEW t, NEW p, DeleteCheck(t, p) = "ok"
  PROVE  p \in DOMAIN t
  BY DEF DeleteCheck, Exists

LEMMA DeleteAtWellFormed ==
  ASSUME NEW t, WellFormed(t), NEW p \in Path, p # <<>>, DeleteCheck(t, p) = "ok"
  PROVE  WellFormed(DeleteAt(t, p)) /\ SetSucceeds(Cut(t, p), Front(p))
<1> DEFINE c == Cut(t, p)
           parent == Front(p)
<1>1. WellFormed(c) /\ parent \in DOMAIN c
  BY CheckedDelete, CutWellFormed
<1> HIDE DEF c, parent
<1>2. WellFormed(Sub(c, parent)) /\ SetSucceeds(c, parent) /\ parent \in Path
  BY <1>1, SubWellFormed, ExistingSucceeds, WellFormedChildren DEF Rooted
<1>3. WellFormed(SetAt(c, parent, Sub(c, parent)))
  BY <1>1, <1>2, SetAtWellFormed
<1> QED BY <1>1, <1>2, <1>3 DEF DeleteAt, c, parent

-----------------------------------------------------------------------------
(***************************************************************************)
(* AppendValue: the length of an array is the index after its last one.    *)
(***************************************************************************)
LEMMA SlotsFinite ==
  ASSUME NEW t, Rooted(t), NEW p
  PROVE  IsFiniteSet(Slots(t, p)) /\ Length(t, p) \in Nat
<1> DEFINE U == Under(t, p) \ {p}
           f == [q \in U |-> q[Len(p) + 1]]
<1>1. IsFiniteSet(U)
  BY FS_Subset DEF Under, Rooted
<1>2. IsFiniteSet({f[q] : q \in U})
  BY <1>1, FiniteImage
<1>3. {f[q] : q \in U} = Slots(t, p)
  BY DEF Slots
<1> QED BY <1>2, <1>3, FS_CardinalityType DEF Length

LEMMA ArrayLength ==
  ASSUME NEW t, WellFormed(t), NEW p \in DOMAIN t, t[p] = Array
  PROVE  \A j \in Nat : Index(j) \in Slots(t, p) <=> j < Length(t, p)
<1> DEFINE S == Slots(t, p)
           n == Length(t, p)
<1>1. IsFiniteSet(S) /\ n \in Nat /\ n = Cardinality(S)
  BY SlotsFinite, WellFormedChildren DEF Length
<1>2. \A s \in S : /\ s \in Segment /\ s.kind = "index" /\ s.index \in Nat /\ s = Index(s.index)
                   /\ \A j \in 0..s.index : Index(j) \in S
  <2>1. p \in Path /\ S \subseteq Segment
    BY WellFormedChildren, SlotIsChild DEF Rooted
  <2>2. \A s \in S : s.kind = "index" /\ s.index >= 0 /\ \A j \in 0..s.index : Index(j) \in S
    BY DEF WellFormed, SlotsOK
  <2> QED BY <2>1, <2>2, SegmentKinds
<1> HIDE DEF S, n
<1>3. \A b \in Int : IsFiniteSet(0..b) /\ Cardinality(0..b) = IF 0 > b THEN 0 ELSE b + 1
  BY FS_Interval
<1>4. ASSUME NEW j \in Nat, Index(j) \notin S PROVE n <= j
  <2> DEFINE f == [s \in S |-> s.index]
             I == 0..(j - 1)
  <2>1. \A s \in S : s.index \in I
    BY <1>2, <1>4
  <2>2. \A s, u \in S : s.index = u.index => s = u
    BY <1>2
  <2>3. f \in Injection(S, I)
    BY <2>1, <2>2 DEF Injection, IsInjective
  <2>4. IsFiniteSet(I) /\ Cardinality(I) = j
    <3>1. j - 1 \in Int /\ (IF 0 > j - 1 THEN 0 ELSE (j - 1) + 1) = j
      OBVIOUS
    <3> QED BY <1>3, <3>1
  <2> HIDE DEF f, I
  <2> QED BY <1>1, <2>3, <2>4, FS_Injection
<1>5. ASSUME NEW j \in Nat, Index(j) \in S PROVE j < n
  <2> DEFINE f == [i \in 0..j |-> Index(i)]
             I == 0..j
  <2>1. \A i \in I : Index(i) \in S
    BY <1>2, <1>5 DEF Index
  <2>2. \A i, k \in I : Index(i) = Index(k) => i = k
    BY DEF Index
  <2>3. f \in Injection(I, S)
    BY <2>1, <2>2 DEF Injection, IsInjective
  <2>4. IsFiniteSet(I) /\ Cardinality(I) = j + 1
    BY <1>3
  <2> HIDE DEF f, I
  <2>5. Cardinality(I) <= Cardinality(S)
    BY <1>1, <2>3, FS_Injection
  <2> QED BY <1>1, <2>4, <2>5
<1> QED BY <1>1, <1>4, <1>5 DEF S, n

LEMMA OneSegment ==
  ASSUME NEW s \in Segment
  PROVE  /\ <<s>> \in Path /\ Len(<<s>>) = 1 /\ <<s>>[1] = s /\ <<s>> = Append(<<>>, s)
         /\ \A p \in Path : p \o <<s>> = Append(p, s)
<1>1. <<s>> \in Path /\ Len(<<s>>) = 1 /\ <<s>>[1] = s
  BY DEF Path
<1> DEFINE e == <<>>
           x == Append(e, s)
<1>2. e \in Path /\ Len(e) = 0
  BY EmptyPath
<1>0. \A p \in Path : p \o e = p
  BY JoinEmpty
<1> HIDE DEF e
<1>3. x \in Path /\ Len(x) = 0 + 1 /\ x[0 + 1] = s
  BY <1>2, LongerPath
<1>4. \A p \in Path : p \o x = Append(p, s)
  BY <1>0, <1>2, JoinExtended
<1> DEFINE y == <<s>>
<1> HIDE DEF x, y
<1>5. y = x
  <2>1. y \in Path /\ Len(y) = 1 /\ y[1] = s
    BY <1>1 DEF y
  <2> QED BY <1>3, <2>1, PathsEqual
<1> QED BY <1>1, <1>4, <1>5 DEF x, y, e

LEMMA AppendedWellFormed ==
  ASSUME NEW t, WellFormed(t), NEW p \in DOMAIN t, t[p] = Array, NEW v, WellFormed(v)
  PROVE  WellFormed(Appended(t, p, v))
<1> DEFINE n == Length(t, p)
           u == Sub(t, p)
           e == <<>>
<1>1. Rooted(t) /\ p \in Path /\ WellFormed(u)
  BY WellFormedChildren, SubWellFormed DEF Rooted
<1>2. n \in Nat /\ Index(n) \in Segment /\ Index(n).kind = "index" /\ Index(n).index = n
  BY <1>1, SlotsFinite, IndexSegment
<1>3. \A j \in 0..n : j < n => Append(p, Index(j)) \in DOMAIN t
  <2>1. \A j \in 0..n : j < n => Index(j) \in Slots(t, p)
    BY <1>2, ArrayLength
  <2>2. \A j \in 0..n : Index(j) \in Segment
    BY <1>2, IndexSegment
  <2> QED BY <1>1, <2>1, <2>2, SlotIsChild
<1>4. /\ \A r \in Path : r \in DOMAIN u <=> p \o r \in DOMAIN t
      /\ \A r \in DOMAIN u : u[r] = t[p \o r]
  BY <1>1, SubDomain
<1>5. /\ e \in Path /\ p \o e = p
      /\ <<Index(n)>> = Append(e, Index(n)) /\ <<Index(n)>> \in Path
  BY <1>1, <1>2, EmptyPath, JoinEmpty, OneSegment
<1>6. \A j \in 0..n : p \o Append(e, Index(j)) = Append(p, Index(j)) /\ Append(e, Index(j)) \in Path
  <2>1. \A j \in 0..n : Index(j) \in Segment
    BY <1>2, IndexSegment
  <2>2. ASSUME NEW j \in 0..n
        PROVE  p \o Append(e, Index(j)) = Append(p, Index(j)) /\ Append(e, Index(j)) \in Path
    <3> DEFINE s == Index(j)
    <3>1. s \in Segment
      BY <2>1
    <3> HIDE DEF s
    <3>2. <<s>> = Append(e, s) /\ <<s>> \in Path /\ p \o <<s>> = Append(p, s)
      BY <1>1, <3>1, OneSegment
    <3>3. p \o Append(e, s) = Append(p, s) /\ Append(e, s) \in Path
      BY <3>2, Zenon
    <3> QED BY <3>3 DEF s
  <2> QED BY <2>2
<1> HIDE DEF e, u, n
<1>7. Holds(u, e, Index(n))
  <2>1. e \in DOMAIN u /\ u[e] = Array /\ NewContainer(Index(n)) = Array
    BY <1>2, <1>4, <1>5 DEF NewContainer
  <2>2. \A j \in 0..n : j < n => Append(e, Index(j)) \in DOMAIN u
    BY <1>3, <1>4, <1>6
  <2> QED BY <1>2, <2>1, <2>2 DEF Holds
<1>8. PlaceFor(u, <<Index(n)>>)
  <2> SUFFICES ASSUME NEW q \in Path, NEW s \in Segment, <<Index(n)>> = Append(q, s)
               PROVE  Holds(u, q, s)
    BY DEF PlaceFor
  <2>1. Append(e, Index(n)) = Append(q, s)
    BY <1>5
  <2>2. e = q /\ Index(n) = s
    BY <1>2, <1>5, <2>1, SameExtended
  <2> QED BY <1>7, <2>2
<1>9. WellFormed(Graft(u, <<Index(n)>>, v))
  BY <1>1, <1>5, <1>8, GraftWellFormed
<1> QED BY <1>9 DEF Appended, u, n

-----------------------------------------------------------------------------
(***************************************************************************)
(* mergeNodes.                                                             *)
(***************************************************************************)
LEMMA SurvivesPrefixes ==
  ASSUME NEW dst, NEW src, Rooted(src), NEW q \in Path
  PROVE  Survives(dst, src, q) <=>
           \A r \in DOMAIN src : IsPrefix(r, q) => src[r] = Object /\ dst[r] = Object
<1>1. ASSUME Survives(dst, src, q), NEW r \in DOMAIN src, IsPrefix(r, q)
      PROVE  src[r] = Object /\ dst[r] = Object
  <2>1. r \in Path
    BY DEF Rooted
  <2>2. Len(r) \in 0..Len(q) /\ r = Prefix(q, Len(r))
    BY <1>1, <2>1, PrefixIsPrefix
  <2> QED BY <1>1, <2>2 DEF Survives
<1>2. ASSUME NEW n \in 0..Len(q) PROVE Prefix(q, n) \in Path /\ IsPrefix(Prefix(q, n), q)
  BY PrefixOf, PrefixIsPrefix
<1> QED BY <1>1, <1>2 DEF Survives

LEMMA MergeNodesWellFormed ==
  ASSUME NEW dst, WellFormed(dst), NEW src, WellFormed(src)
  PROVE  WellFormed(MergeNodes(dst, src))
<1> DEFINE m == MergeNodes(dst, src)
           kept == {q \in DOMAIN dst : Survives(dst, src, q)}
<1>1. Rooted(dst) /\ ChildrenFit(dst) /\ Rooted(src) /\ ChildrenFit(src)
  BY WellFormedChildren
<1>2. /\ DOMAIN m = DOMAIN src \cup kept /\ m = [q \in DOMAIN m |-> m[q]]
      /\ \A q \in DOMAIN m : m[q] = IF q \in DOMAIN src THEN src[q] ELSE dst[q]
  BY DEF MergeNodes
<1>3. IsFiniteSet(kept)
  BY <1>1, FS_Subset DEF Rooted
<1>4. \A q \in Path : q \in kept <=>
        /\ q \in DOMAIN dst
        /\ \A r \in DOMAIN src : IsPrefix(r, q) => src[r] = Object /\ dst[r] = Object
  BY <1>1, SurvivesPrefixes
<1>5. kept \subseteq Path /\ kept \subseteq DOMAIN dst
  BY <1>1 DEF Rooted
<1> HIDE DEF m, kept
<1>6. ASSUME NEW q \in kept, NEW r \in Path, IsPrefix(r, q) PROVE r \in kept
  <2>1. r \in DOMAIN dst
    <3>1. Len(r) \in 0..Len(q) /\ r = Prefix(q, Len(r))
      BY <1>5, <1>6, PrefixIsPrefix
    <3> QED BY <1>1, <1>5, <3>1 DEF Rooted
  <2>2. ASSUME NEW u \in DOMAIN src, IsPrefix(u, r) PROVE src[u] = Object /\ dst[u] = Object
    <3>1. u \in Path
      BY <1>1 DEF Rooted
    <3>2. IsPrefix(u, q)
      BY <1>5, <1>6, <2>2, <3>1, PrefixTransitive
    <3> QED BY <1>4, <1>5, <3>2
  <2> QED BY <1>4, <2>1, <2>2
<1>7. Rooted(m)
  <2>1. DOMAIN m \subseteq Path /\ IsFiniteSet(DOMAIN m) /\ <<>> \in DOMAIN m
    <3>1. DOMAIN src \subseteq Path /\ IsFiniteSet(DOMAIN src) /\ <<>> \in DOMAIN src
      BY <1>1 DEF Rooted
    <3>2. IsFiniteSet(DOMAIN src \cup kept)
      BY <1>3, <3>1, FS_Union
    <3> QED BY <1>2, <1>5, <3>1, <3>2
  <2>2. \A q \in DOMAIN m : m[q] \in Labels
    BY <1>1, <1>2, <1>5 DEF Rooted
  <2>3. ASSUME NEW q \in DOMAIN m, NEW n \in 0..Len(q) PROVE Prefix(q, n) \in DOMAIN m
    <3>1. CASE q \in DOMAIN src
      BY <1>1, <1>2, <3>1 DEF Rooted
    <3>2. CASE q \in kept
      <4>1. Prefix(q, n) \in Path /\ IsPrefix(Prefix(q, n), q)
        BY <2>1, PrefixOf, PrefixIsPrefix
      <4> QED BY <1>2, <1>6, <3>2, <4>1
    <3> QED BY <1>2, <3>1, <3>2
  <2>4. m \in [DOMAIN m -> Labels]
    BY <1>2, <2>2
  <2> QED BY <2>1, <2>3, <2>4 DEF Rooted
<1>8. ChildrenFit(m)
  <2> SUFFICES ASSUME NEW q \in Path, NEW s \in Segment, Append(q, s) \in DOMAIN m
               PROVE  Holds(m, q, s)
    BY DEF ChildrenFit
  <2>1. CASE Append(q, s) \in DOMAIN src
    <3>1. Holds(src, q, s)
      BY <1>1, <2>1 DEF ChildrenFit
    <3> QED BY <1>2, <3>1 DEF Holds
  <2>2. CASE Append(q, s) \in kept
    <3>1. Holds(dst, q, s)
      BY <1>1, <1>5, <2>2 DEF ChildrenFit
    <3>2. IsPrefix(q, Append(q, s)) /\ q \in kept
      BY <1>6, <2>2, LongerNotPrefix
    <3>3. CASE q \in DOMAIN src
      <4>1. src[q] = Object /\ dst[q] = Object
        BY <1>4, <1>5, <2>2, <3>2, <3>3
      <4>2. s.kind # "index"
        BY <3>1, <4>1 DEF Holds, NewContainer, Object, Array
      <4> QED BY <1>2, <3>1, <3>3, <4>1, <4>2 DEF Holds
    <3>4. CASE q \notin DOMAIN src
      <4>1. ASSUME s.kind = "index", NEW j \in 0..s.index, j < s.index
            PROVE  Append(q, Index(j)) \in kept
        <5> DEFINE c == Append(q, Index(j))
        <5>1. c \in DOMAIN dst /\ c \in Path /\ IsPrefix(q, c) /\ Index(j) \in Segment
          BY <3>1, <4>1, IndexSegment, LongerPath, LongerNotPrefix DEF Holds
        <5>2. c \notin DOMAIN src
          <6>1. ~(c \in DOMAIN src)
            BY <1>1, <3>4, <5>1 DEF ChildrenFit, Holds
          <6> QED BY <6>1
        <5>3. ASSUME NEW r \in DOMAIN src, IsPrefix(r, c) PROVE IsPrefix(r, q)
          <6>1. r \in Path
            BY <1>1 DEF Rooted
          <6>2. r = c \/ IsPrefix(r, q)
            BY <5>1, <5>3, <6>1, PrefixOfExtended
          <6> QED BY <5>2, <6>2
        <5> HIDE DEF c
        <5>4. c \in kept
          BY <1>4, <3>2, <5>1, <5>3
        <5> QED BY <5>4 DEF c
      <4> QED BY <1>2, <3>1, <3>2, <3>4, <4>1 DEF Holds
    <3> QED BY <3>3, <3>4
  <2> QED BY <1>2, <2>1, <2>2
<1> QED BY <1>7, <1>8, WellFormedChildren DEF m

LEMMA MergeAtWellFormed ==
  ASSUME NEW t, WellFormed(t), NEW v, WellFormed(v), NEW p \in Path
  PROVE  WellFormed(MergeAt(t, p, v))
<1>1. CASE p = <<>>
  BY <1>1, MergeNodesWellFormed DEF MergeAt
<1>2. CASE p # <<>> /\ Exists(t, p)
  BY <1>2, SubWellFormed, MergeNodesWellFormed, SetAtWellFormed DEF MergeAt, Exists
<1>3. CASE p # <<>> /\ ~Exists(t, p)
  BY <1>3, SetAtWellFormed DEF MergeAt
<1> QED BY <1>1, <1>2, <1>3
-----------------------------------------------------------------------------
LEMMA LeastNatural ==
  ASSUME NEW S \in SUBSET Nat, S # {}
  PROVE  \E m \in S : \A n \in S : m <= n
<1> DEFINE R == OpToRel(<, Nat)
<1>1. IsWellFoundedOn(R, Nat)
  BY NatLessThanWellFounded
<1>2. \A m, n \in Nat : m < n => <<m, n>> \in R
  BY DEF OpToRel
<1> HIDE DEF R
<1>3. PICK m \in S : \A n \in S : <<n, m>> \notin R
  BY <1>1, WFMin
<1>4. \A n \in S : ~(n < m)
  BY <1>2, <1>3
<1> QED BY <1>3, <1>4

LEMMA JoinAssoc ==
  ASSUME NEW p \in Path, NEW q \in Path, NEW r \in Path
  PROVE  (p \o q) \o r = p \o (q \o r)
<1> DEFINE a == (p \o q) \o r
           b == p \o (q \o r)
<1>1. Len(p) \in Nat /\ Len(q) \in Nat /\ Len(r) \in Nat
  BY PathLen
<1>2. /\ p \o q \in Path /\ Len(p \o q) = Len(p) + Len(q)
      /\ \A i \in 1..(Len(p) + Len(q)) : (p \o q)[i] = IF i <= Len(p) THEN p[i] ELSE q[i - Len(p)]
      /\ q \o r \in Path /\ Len(q \o r) = Len(q) + Len(r)
      /\ \A i \in 1..(Len(q) + Len(r)) : (q \o r)[i] = IF i <= Len(q) THEN q[i] ELSE r[i - Len(q)]
  BY Joined
<1>3. /\ a \in Path /\ Len(a) = Len(p) + Len(q) + Len(r)
      /\ \A i \in 1..(Len(p) + Len(q) + Len(r)) :
           a[i] = IF i <= Len(p) + Len(q) THEN (p \o q)[i] ELSE r[i - (Len(p) + Len(q))]
  BY <1>2, Joined
<1>4. /\ b \in Path /\ Len(b) = Len(p) + (Len(q) + Len(r))
      /\ \A i \in 1..(Len(p) + (Len(q) + Len(r))) :
           b[i] = IF i <= Len(p) THEN p[i] ELSE (q \o r)[i - Len(p)]
  BY <1>2, Joined
<1> HIDE DEF a, b
<1>5. ASSUME NEW i \in 1..Len(a) PROVE a[i] = b[i]
  <2>1. CASE i <= Len(p)
    BY <1>1, <1>2, <1>3, <1>4, <2>1
  <2>2. CASE i > Len(p) /\ i <= Len(p) + Len(q)
    <3>1. /\ i \in 1..(Len(p) + Len(q)) /\ i \in 1..(Len(p) + Len(q) + Len(r)) /\ ~(i <= Len(p))
          /\ i - Len(p) \in 1..(Len(q) + Len(r)) /\ i - Len(p) <= Len(q)
          /\ i \in 1..(Len(p) + (Len(q) + Len(r)))
      BY <1>1, <1>3, <2>2
    <3>2. a[i] = q[i - Len(p)]
      BY <1>2, <1>3, <2>2, <3>1
    <3>3. b[i] = q[i - Len(p)]
      BY <1>2, <1>4, <3>1
    <3> QED BY <3>2, <3>3
  <2>3. CASE i > Len(p) + Len(q)
    <3>1. i - Len(p) \in 1..(Len(q) + Len(r)) /\ ~(i - Len(p) <= Len(q))
      BY <1>1, <1>3, <2>3
    <3>2. (i - Len(p)) - Len(q) = i - (Len(p) + Len(q))
      BY <1>1, <1>3
    <3> QED BY <1>1, <1>2, <1>3, <1>4, <2>3, <3>1, <3>2
  <2> QED BY <1>1, <1>3, <2>1, <2>2, <2>3
<1>6. Len(a) = Len(b)
  BY <1>1, <1>3, <1>4
<1>7. a = b
  BY <1>3, <1>4, <1>5, <1>6, PathsEqual
<1> QED BY <1>7 DEF a, b

LEMMA SameTree ==
  ASSUME NEW t, Rooted(t), NEW u, Rooted(u), DOMAIN t = DOMAIN u, \A q \in DOMAIN t : t[q] = u[q]
  PROVE  t = u
  BY DEF Rooted

LEMMA SubIsFunction ==
  ASSUME NEW t, NEW p
  PROVE  Sub(t, p) = [r \in DOMAIN Sub(t, p) |-> Sub(t, p)[r]]
  BY DEF Sub

LEMMA SubOfSub ==
  ASSUME NEW t, Rooted(t), NEW p \in Path, NEW q \in Path, Rooted(Sub(t, p))
  PROVE  Sub(Sub(t, p), q) = Sub(t, p \o q)
<1> DEFINE part == Sub(t, p)
           a == Sub(part, q)
           b == Sub(t, p \o q)
<1>1. p \o q \in Path /\ \A r \in Path : q \o r \in Path /\ (p \o q) \o r = p \o (q \o r)
  BY Joined, JoinAssoc, ZenonT(40)
<1>2. /\ \A r \in Path : r \in DOMAIN part <=> p \o r \in DOMAIN t
      /\ \A r \in DOMAIN part : part[r] = t[p \o r]
  BY SubDomain
<1>3. /\ DOMAIN a \subseteq Path
      /\ \A r \in Path : r \in DOMAIN a <=> q \o r \in DOMAIN part
      /\ \A r \in DOMAIN a : a[r] = part[q \o r]
  BY SubDomain
<1>4. /\ DOMAIN b \subseteq Path
      /\ \A r \in Path : r \in DOMAIN b <=> (p \o q) \o r \in DOMAIN t
      /\ \A r \in DOMAIN b : b[r] = t[(p \o q) \o r]
  BY <1>1, SubDomain
<1>5. a = [r \in DOMAIN a |-> a[r]] /\ b = [r \in DOMAIN b |-> b[r]]
  BY SubIsFunction
<1> HIDE DEF a, b, part
<1>6. \A r \in Path : r \in DOMAIN a <=> r \in DOMAIN b
  BY <1>1, <1>2, <1>3, <1>4
<1>7. DOMAIN a = DOMAIN b
  BY <1>3, <1>4, <1>6
<1>8. ASSUME NEW r \in DOMAIN a PROVE a[r] = b[r]
  <2>1. r \in Path /\ r \in DOMAIN b /\ q \o r \in DOMAIN part
    BY <1>3, <1>7
  <2>2. a[r] = t[p \o (q \o r)] /\ b[r] = t[(p \o q) \o r]
    BY <1>2, <1>3, <1>4, <2>1
  <2> QED BY <1>1, <2>1, <2>2
<1>9. a = b
  BY <1>5, <1>7, <1>8
<1> QED BY <1>9 DEF a, b, part

=============================================================================
