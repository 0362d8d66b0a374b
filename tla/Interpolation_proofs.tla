-------------------------- MODULE Interpolation_proofs --------------------------
(***************************************************************************)
(* What a round of Interpolate makes of a well formed tree is well formed: *)
(* a template is a leaf, so what replaces it has nothing beside it.        *)
(***************************************************************************)
EXTENDS Interpolation, PathTree_proofs

LEMMA TemplatesAreLeaves ==
  ASSUME NEW t, WellFormed(t), NEW h \in TemplatesOf(t), NEW q \in DOMAIN t, IsPrefix(h, q)
  PROVE  h = q
<1>1. Rooted(t) /\ ChildrenFit(t) /\ h \in Path /\ q \in Path /\ t[h] \in Templates
  BY WellFormedChildren DEF Rooted, TemplatesOf
<1>2. t[h] # Object /\ t[h] # Array
  BY <1>1, TemplatesAssumption, ScalarsAssumption
<1>3. Len(h) \in Nat /\ Len(q) \in Nat /\ Len(h) <= Len(q) /\ h = Prefix(q, Len(h))
  BY <1>1, IsPrefixOf, PrefixIsPrefix, PathLen
<1>4. CASE Len(h) < Len(q)
  <2>1. Len(h) + 1 \in 1..Len(q) /\ Len(h) + 1 \in 0..Len(q) /\ (Len(h) + 1) - 1 = Len(h)
    BY <1>3, <1>4
  <2>2. Prefix(q, Len(h) + 1) = Append(h, q[Len(h) + 1]) /\ q[Len(h) + 1] \in Segment
    BY <1>1, <1>3, <2>1, PrefixStep
  <2>3. Prefix(q, Len(h) + 1) \in DOMAIN t
    BY <1>1, <2>1 DEF Rooted
  <2>4. Holds(t, h, q[Len(h) + 1])
    BY <1>1, <2>2, <2>3 DEF ChildrenFit
  <2> QED BY <1>2, <2>4 DEF Holds, NewContainer
<1>5. CASE Len(h) = Len(q)
  BY <1>1, <1>3, <1>5, WholePrefix
<1> QED BY <1>3, <1>4, <1>5

LEMMA JoinedFinite ==
  ASSUME NEW S, IsFiniteSet(S), NEW p
  PROVE  IsFiniteSet({p \o r : r \in S})
<1> DEFINE f == [r \in S |-> p \o r]
<1>1. IsFiniteSet({f[r] : r \in S})
  BY FiniteImage
<1>2. {f[r] : r \in S} = {p \o r : r \in S}
  OBVIOUS
<1> QED BY <1>1, <1>2

LEMMA OneTemplateAbove ==
  ASSUME NEW t, WellFormed(t), NEW h \in TemplatesOf(t), NEW g \in TemplatesOf(t),
         NEW q \in Path, IsPrefix(h, q), IsPrefix(g, q)
  PROVE  h = g
<1>1. h \in Path /\ g \in Path /\ h \in DOMAIN t /\ g \in DOMAIN t
  BY WellFormedChildren DEF Rooted, TemplatesOf
<1> QED BY <1>1, PrefixesOrdered, TemplatesAreLeaves

(***************************************************************************)
(* evaluateNode, below a template and elsewhere.                           *)
(***************************************************************************)
LEMMA Evaluated ==
  ASSUME NEW value, WellFormed(value), NEW env, WellFormed(env), ~Missing(value, env)
  PROVE  /\ \A h \in TemplatesOf(value) : WellFormed(Sub(env, Ref[value[h]]))
         /\ DOMAIN EvaluateNode(value, env) \subseteq Path
         /\ IsFiniteSet(DOMAIN EvaluateNode(value, env))
         /\ EvaluateNode(value, env) =
              [q \in DOMAIN EvaluateNode(value, env) |-> EvaluateNode(value, env)[q]]
         /\ \A h \in TemplatesOf(value), r \in Path :
              r \in DOMAIN Sub(env, Ref[value[h]]) <=> h \o r \in DOMAIN EvaluateNode(value, env)
         /\ \A h \in TemplatesOf(value) : \A r \in DOMAIN Sub(env, Ref[value[h]]) :
              EvaluateNode(value, env)[h \o r] = Sub(env, Ref[value[h]])[r]
         /\ \A q \in Path : (\A h \in TemplatesOf(value) : ~IsPrefix(h, q)) =>
              /\ q \in DOMAIN EvaluateNode(value, env) <=> q \in DOMAIN value
              /\ q \in DOMAIN value => EvaluateNode(value, env)[q] = value[q]
<1> DEFINE o == EvaluateNode(value, env)
           H == TemplatesOf(value)
           u == [h \in H |-> Sub(env, Ref[value[h]])]
           replaced == UNION {{q \o r : r \in DOMAIN Sub(env, Ref[value[q]])} : q \in TemplatesOf(value)}
           above(q) == CHOOSE h \in H : IsPrefix(h, q)
           at(q) == IF q \in replaced THEN Sub(env, Ref[value[above(q)]])[Rest(above(q), q)]
                    ELSE value[q]
<1>1. Rooted(value) /\ H \subseteq DOMAIN value /\ H \subseteq Path /\ DOMAIN value \subseteq Path
  BY WellFormedChildren DEF Rooted, TemplatesOf
<1>2. \A h \in H : WellFormed(u[h])
  <2>1. \A h \in H : Ref[value[h]] \in DOMAIN env
    BY DEF Missing, Exists
  <2> QED BY <2>1, SubWellFormed
<1>3. \A h \in H : DOMAIN u[h] \subseteq Path /\ IsFiniteSet(DOMAIN u[h])
  BY <1>2 DEF WellFormed
<1>4. o = [q \in DOMAIN value \cup replaced |-> at(q)]
  BY Zenon DEF EvaluateNode
<1>5. /\ DOMAIN o = DOMAIN value \cup replaced
      /\ o = [q \in DOMAIN o |-> o[q]]
      /\ \A q \in DOMAIN o : o[q] = at(q)
  <2> HIDE DEF o, at, replaced
  <2> QED BY <1>4
<1>8. \A q : q \in replaced <=> \E h \in H : \E r \in DOMAIN u[h] : q = h \o r
  OBVIOUS
<1>6. IsFiniteSet(replaced)
  <2> DEFINE put == [h \in H |-> {h \o r : r \in DOMAIN u[h]}]
  <2>0. replaced = UNION {put[h] : h \in H}
    OBVIOUS
  <2>4. \A h \in H : put[h] = {h \o r : r \in DOMAIN u[h]}
    OBVIOUS
  <2> HIDE DEF put, u, replaced
  <2>1. ASSUME NEW h \in H PROVE IsFiniteSet(put[h])
    <3> DEFINE S == DOMAIN u[h]
    <3>1. IsFiniteSet(S) /\ put[h] = {h \o r : r \in S}
      BY <1>3, <2>4
    <3> HIDE DEF S
    <3>2. IsFiniteSet({h \o r : r \in S})
      BY <3>1, JoinedFinite
    <3> QED BY <3>1, <3>2
  <2>2. IsFiniteSet(H)
    BY <1>1, FS_Subset DEF Rooted
  <2>3. IsFiniteSet({put[h] : h \in H})
    BY <2>2, FiniteImage
  <2> QED BY <2>0, <2>1, <2>3, FS_UNION
<1>7. IsFiniteSet(DOMAIN o)
  <2>1. IsFiniteSet(DOMAIN value)
    BY <1>1 DEF Rooted
  <2> HIDE DEF replaced, o, H
  <2>2. IsFiniteSet(DOMAIN value \cup replaced)
    BY <1>6, <2>1, FS_Union
  <2> QED BY <1>5, <2>2
<1>9. DOMAIN o \subseteq Path
  <2>1. \A h \in H : \A r \in DOMAIN u[h] : h \o r \in Path
    BY <1>1, <1>3, Joined
  <2>2. replaced \subseteq Path
    <3> HIDE DEF replaced, o, u, H
    <3> SUFFICES ASSUME NEW q \in replaced PROVE q \in Path
      OBVIOUS
    <3>1. PICK h \in H : \E r \in DOMAIN u[h] : q = h \o r
      BY <1>8
    <3> QED BY <2>1, <3>1
  <2> HIDE DEF replaced, o, u, H
  <2> QED BY <1>1, <1>5, <2>2
<1>10. \A h \in H : u[h] = Sub(env, Ref[value[h]])
  OBVIOUS
<1>11. \A h \in H : IsPrefix(h, h) /\ Rest(h, h) = <<>> /\ <<>> \in DOMAIN u[h] /\ h \o <<>> = h
  BY <1>1, <1>2, PrefixSelf, JoinEmpty DEF WellFormed
<1> HIDE DEF replaced, o, u, H
<1>12. ASSUME NEW h \in H, NEW r \in Path
      PROVE  /\ r \in DOMAIN u[h] <=> h \o r \in DOMAIN o
             /\ r \in DOMAIN u[h] => o[h \o r] = u[h][r]
  <2> DEFINE q == h \o r
  <2>1. q \in Path /\ IsPrefix(h, q) /\ Rest(h, q) = r
    BY <1>1, <1>12, Joined
  <2>0. q = h \o r
    OBVIOUS
  <2> HIDE DEF q
  <2>2. \A g \in H : IsPrefix(g, q) => g = h
    BY <2>1, OneTemplateAbove DEF H
  <2>3. above(q) = h
    BY <2>1, <2>2
  <2>4. ASSUME NEW g \in H, NEW x \in DOMAIN u[g], q = g \o x PROVE g = h /\ x = r
    <3>1. IsPrefix(g, q) /\ Rest(g, q) = x
      BY <1>1, <1>3, <2>4, Joined
    <3> QED BY <2>1, <2>2, <3>1
  <2>5. q \in replaced <=> r \in DOMAIN u[h]
    BY <1>8, <2>0, <2>4
  <2>6. q \in DOMAIN value => r \in DOMAIN u[h]
    <3> SUFFICES ASSUME q \in DOMAIN value PROVE r \in DOMAIN u[h]
      OBVIOUS
    <3>1. h = q
      BY <2>1, TemplatesAreLeaves DEF H
    <3> QED BY <1>11, <2>1, <3>1
  <2> QED BY <1>5, <1>10, <2>0, <2>1, <2>3, <2>5, <2>6
<1>13. ASSUME NEW q \in Path, \A h \in H : ~IsPrefix(h, q)
       PROVE  /\ q \in DOMAIN o <=> q \in DOMAIN value
              /\ q \in DOMAIN value => o[q] = value[q]
  <2>1. \A h \in H : \A r \in DOMAIN u[h] : IsPrefix(h, h \o r)
    BY <1>1, <1>3, Joined
  <2>2. \A h \in H : \A r \in DOMAIN u[h] : q # h \o r
    BY <1>13, <2>1
  <2>3. q \notin replaced
    BY <1>8, <2>2
  <2> QED BY <1>5, <2>3
<1> QED BY <1>2, <1>3, <1>5, <1>7, <1>9, <1>10, <1>12, <1>13 DEF o, H

LEMMA EvaluateNodeWellFormed ==
  ASSUME NEW value, WellFormed(value), NEW env, WellFormed(env), ~Missing(value, env)
  PROVE  WellFormed(EvaluateNode(value, env))
<1> DEFINE o == EvaluateNode(value, env)
           H == TemplatesOf(value)
           u == [h \in H |-> Sub(env, Ref[value[h]])]
<1>1. /\ \A h \in H : WellFormed(u[h])
      /\ DOMAIN o \subseteq Path /\ IsFiniteSet(DOMAIN o) /\ o = [q \in DOMAIN o |-> o[q]]
      /\ \A h \in H, r \in Path : r \in DOMAIN u[h] <=> h \o r \in DOMAIN o
      /\ \A h \in H : \A r \in DOMAIN u[h] : o[h \o r] = u[h][r]
      /\ \A q \in Path : (\A h \in H : ~IsPrefix(h, q)) =>
              /\ q \in DOMAIN o <=> q \in DOMAIN value
              /\ q \in DOMAIN value => o[q] = value[q]
  BY Evaluated
<1>2. /\ Rooted(value) /\ ChildrenFit(value) /\ H \subseteq DOMAIN value /\ H \subseteq Path
      /\ DOMAIN value \subseteq Path
  BY WellFormedChildren DEF Rooted, TemplatesOf
<1>3. \A h \in H : Rooted(u[h]) /\ ChildrenFit(u[h]) /\ DOMAIN u[h] \subseteq Path
  BY <1>1, WellFormedChildren DEF Rooted
<1>4. \A h \in H, q \in DOMAIN value : IsPrefix(h, q) => h = q
  BY TemplatesAreLeaves
<1> HIDE DEF o, H, u
<1>5. \A h \in H : h \in DOMAIN o
  <2> DEFINE e == <<>>
  <2>1. \A h \in H : h \o e = h /\ e \in DOMAIN u[h] /\ e \in Path
    BY <1>2, <1>3, JoinEmpty, EmptyPath DEF Rooted
  <2> HIDE DEF e
  <2>2. \A h \in H : h \o e \in DOMAIN o
    BY <1>1, <2>1
  <2> QED BY <2>1, <2>2
<1>6. DOMAIN value \subseteq DOMAIN o
  BY <1>1, <1>2, <1>4, <1>5
<1>7. ASSUME NEW q \in DOMAIN o
      PROVE  o[q] \in Labels /\ \A n \in 0..Len(q) : Prefix(q, n) \in DOMAIN o
  <2>1. CASE \E h \in H : IsPrefix(h, q)
    <3>1. PICK h \in H : IsPrefix(h, q)
      BY <2>1
    <3> DEFINE r == Rest(h, q)
    <3>2. r \in Path /\ h \o r = q /\ h \in Path /\ q \in Path
      BY <1>1, <1>2, <3>1, RestOf
    <3> HIDE DEF r
    <3>3. r \in DOMAIN u[h] /\ o[q] = u[h][r]
      BY <1>1, <3>2
    <3>4. ASSUME NEW n \in 0..Len(q) PROVE Prefix(q, n) \in DOMAIN o
      <4>1. CASE n \in 0..Len(h) /\ Prefix(q, n) = Prefix(h, n)
        <5>1. Prefix(h, n) \in DOMAIN value
          BY <1>2, <4>1 DEF Rooted
        <5> QED BY <1>6, <4>1, <5>1
      <4>2. CASE n - Len(h) \in 0..Len(r) /\ Prefix(q, n) = h \o Prefix(r, n - Len(h))
        <5>1. Prefix(r, n - Len(h)) \in DOMAIN u[h] /\ Prefix(r, n - Len(h)) \in Path
          BY <1>3, <3>3, <4>2 DEF Rooted
        <5> QED BY <1>1, <4>2, <5>1
      <4> QED BY <3>2, <4>1, <4>2, JoinPrefix
    <3> QED BY <1>3, <3>3, <3>4 DEF Rooted
  <2>2. CASE \A h \in H : ~IsPrefix(h, q)
    <3>1. q \in DOMAIN value /\ o[q] = value[q]
      BY <1>1, <2>2
    <3> QED BY <1>2, <1>6, <3>1 DEF Rooted
  <2> QED BY <2>1, <2>2
<1>8. Rooted(o)
  <2>1. <<>> \in DOMAIN o
    BY <1>2, <1>6 DEF Rooted
  <2>2. o \in [DOMAIN o -> Labels]
    BY <1>1, <1>7
  <2> QED BY <1>1, <1>7, <2>1, <2>2 DEF Rooted
<1>9. ChildrenFit(o)
  <2> SUFFICES ASSUME NEW q \in Path, NEW s \in Segment, Append(q, s) \in DOMAIN o
               PROVE  Holds(o, q, s)
    BY DEF ChildrenFit
  <2>0. Append(q, s) \in Path
    BY LongerPath
  <2>1. CASE \E h \in H : IsPrefix(h, q)
    <3>1. PICK h \in H : IsPrefix(h, q)
      BY <2>1
    <3> DEFINE r == Rest(h, q)
    <3>2. r \in Path /\ h \o r = q /\ h \in Path
      BY <1>2, <3>1, RestOf
    <3> HIDE DEF r
    <3>3. Append(r, s) \in Path /\ h \o Append(r, s) = Append(q, s)
      BY <3>2, JoinExtended, LongerPath
    <3>4. Append(r, s) \in DOMAIN u[h]
      BY <1>1, <3>3
    <3>5. Holds(u[h], r, s)
      BY <1>3, <3>2, <3>4 DEF ChildrenFit
    <3>6. q \in DOMAIN o /\ o[q] = NewContainer(s)
      BY <1>1, <3>2, <3>5 DEF Holds
    <3>7. ASSUME s.kind = "index", NEW j \in 0..s.index, j < s.index
          PROVE  Append(q, Index(j)) \in DOMAIN o
      <4>1. Append(r, Index(j)) \in DOMAIN u[h] /\ Index(j) \in Segment
        BY <3>5, <3>7, IndexSegment DEF Holds
      <4>2. h \o Append(r, Index(j)) = Append(q, Index(j)) /\ Append(r, Index(j)) \in Path
        BY <3>2, <4>1, JoinExtended, LongerPath
      <4>3. h \o Append(r, Index(j)) \in DOMAIN o
        BY <1>1, <4>1, <4>2
      <4> QED BY <4>2, <4>3
    <3> QED BY <3>5, <3>6, <3>7 DEF Holds
  <2>2. CASE \A h \in H : ~IsPrefix(h, q)
    <3>1. Append(q, s) \in DOMAIN value
      <4>1. CASE \E h \in H : IsPrefix(h, Append(q, s))
        <5>1. PICK h \in H : IsPrefix(h, Append(q, s))
          BY <4>1
        <5>2. h \in Path /\ h \in DOMAIN value
          BY <1>2
        <5>3. h = Append(q, s)
          BY <2>2, <5>1, <5>2, PrefixOfExtended
        <5> QED BY <5>2, <5>3
      <4>2. CASE \A h \in H : ~IsPrefix(h, Append(q, s))
        BY <1>1, <2>0, <4>2
      <4> QED BY <4>1, <4>2
    <3>2. Holds(value, q, s)
      BY <1>2, <3>1 DEF ChildrenFit
    <3> QED BY <1>1, <1>6, <2>2, <3>2 DEF Holds
  <2> QED BY <2>1, <2>2
<1> QED BY <1>8, <1>9, WellFormedChildren DEF o
=============================================================================
