--------------------------- MODULE Interpolate_proofs ---------------------------
(***************************************************************************)
(* What Interpolate makes of a tree, for trees of any size and references  *)
(* of any shape.                                                           *)
(*                                                                         *)
(* A round evaluates a tree in itself.  The proofs rest on one fact about  *)
(* evaluateNode: it is associative.  Evaluating the result of a in b in c  *)
(* is evaluating a in the result of b in c, as what is found at a path of  *)
(* the environment comes with its own templates.                           *)
(***************************************************************************)
EXTENDS Frame_proofs

LEMMA EvaluatedAt ==
  ASSUME NEW a, WellFormed(a), NEW b, WellFormed(b), ~Missing(a, b)
  PROVE  LET o == EvaluateNode(a, b)
         IN  /\ WellFormed(o)
             /\ \A h \in TemplatesOf(a) :
                  h \in Path /\ a[h] \in Templates /\ Ref[a[h]] \in DOMAIN b /\ Ref[a[h]] \in Path
             /\ \A h \in TemplatesOf(a), r \in Path :
                  /\ h \o r \in DOMAIN o <=> Ref[a[h]] \o r \in DOMAIN b
                  /\ h \o r \in DOMAIN o => o[h \o r] = b[Ref[a[h]] \o r]
             /\ \A q \in Path : (\A h \in TemplatesOf(a) : ~IsPrefix(h, q)) =>
                  /\ q \in DOMAIN o <=> q \in DOMAIN a
                  /\ q \in DOMAIN o => o[q] = a[q]
<1> DEFINE o == EvaluateNode(a, b)
<1>1. WellFormed(o)
  BY EvaluateNodeWellFormed
<1>2. Rooted(b) /\ DOMAIN a \subseteq Path /\ DOMAIN b \subseteq Path
  BY WellFormedChildren DEF Rooted, WellFormed
<1>3. ASSUME NEW h \in TemplatesOf(a)
      PROVE  h \in Path /\ a[h] \in Templates /\ Ref[a[h]] \in DOMAIN b /\ Ref[a[h]] \in Path
  BY <1>2 DEF TemplatesOf, Missing, Exists
<1>4. ASSUME NEW h \in TemplatesOf(a), NEW r \in Path
      PROVE  /\ h \o r \in DOMAIN o <=> Ref[a[h]] \o r \in DOMAIN b
             /\ h \o r \in DOMAIN o => o[h \o r] = b[Ref[a[h]] \o r]
  <2> DEFINE p == Ref[a[h]]
  <2>1. p \in Path
    BY <1>3
  <2>2. /\ r \in DOMAIN Sub(b, p) <=> h \o r \in DOMAIN o
        /\ r \in DOMAIN Sub(b, p) => o[h \o r] = Sub(b, p)[r]
    BY Evaluated
  <2> HIDE DEF o, p
  <2>3. /\ r \in DOMAIN Sub(b, p) <=> p \o r \in DOMAIN b
        /\ r \in DOMAIN Sub(b, p) => Sub(b, p)[r] = b[p \o r]
    BY <1>2, <2>1, SubDomain
  <2> QED BY <2>2, <2>3 DEF p
<1>5. \A q \in Path : (\A h \in TemplatesOf(a) : ~IsPrefix(h, q)) =>
        /\ q \in DOMAIN o <=> q \in DOMAIN a
        /\ q \in DOMAIN o => o[q] = a[q]
  BY Evaluated
<1> HIDE DEF o
<1> QED BY <1>1, <1>3, <1>4, <1>5 DEF o

LEMMA EvaluatedKeeps ==
  ASSUME NEW a, WellFormed(a), NEW b, WellFormed(b), ~Missing(a, b)
  PROVE  \A q \in DOMAIN a : /\ q \in DOMAIN EvaluateNode(a, b)
                             /\ a[q] \notin Templates => EvaluateNode(a, b)[q] = a[q]
<1> DEFINE o == EvaluateNode(a, b)
           H == TemplatesOf(a)
<1>1. /\ WellFormed(o)
      /\ \A h \in H : h \in Path /\ Ref[a[h]] \in DOMAIN b /\ Ref[a[h]] \in Path
      /\ \A h \in H, r \in Path : h \o r \in DOMAIN o <=> Ref[a[h]] \o r \in DOMAIN b
      /\ \A q \in Path : (\A h \in H : ~IsPrefix(h, q)) =>
           /\ q \in DOMAIN o <=> q \in DOMAIN a
           /\ q \in DOMAIN o => o[q] = a[q]
  BY EvaluatedAt
<1>2. DOMAIN a \subseteq Path
  BY DEF WellFormed
<1> HIDE DEF o
<1> SUFFICES ASSUME NEW q \in DOMAIN a
             PROVE  q \in DOMAIN o /\ (a[q] \notin Templates => o[q] = a[q])
  BY DEF o
<1>3. CASE q \in H
  <2> DEFINE e == <<>>
  <2>1. e \in Path /\ q \o e = q /\ Ref[a[q]] \o e = Ref[a[q]]
    BY <1>1, <1>3, EmptyPath, JoinEmpty
  <2> HIDE DEF e
  <2>2. q \o e \in DOMAIN o <=> Ref[a[q]] \o e \in DOMAIN b
    BY <1>1, <1>3, <2>1
  <2>3. Ref[a[q]] \in DOMAIN b
    BY <1>1, <1>3
  <2>4. q \in DOMAIN o
    BY <2>1, <2>2, <2>3, Zenon
  <2> QED BY <1>3, <2>4 DEF TemplatesOf
<1>4. CASE q \notin H
  <2>1. \A h \in H : ~IsPrefix(h, q)
    BY <1>4, TemplatesAreLeaves
  <2> QED BY <1>1, <1>2, <2>1
<1> QED BY <1>3, <1>4

(***************************************************************************)
(* The templates of the result are those the references of a lead to, each *)
(* at its place below the template that was replaced.                      *)
(***************************************************************************)
LEMMA EvaluatedTemplates ==
  ASSUME NEW a, WellFormed(a), NEW b, WellFormed(b), ~Missing(a, b)
  PROVE  LET o == EvaluateNode(a, b)
         IN  /\ \A h \in TemplatesOf(a), r \in Path :
                  Ref[a[h]] \o r \in TemplatesOf(b)
                    <=> h \o r \in TemplatesOf(o)
             /\ \A h \in TemplatesOf(a), r \in Path :
                  h \o r \in TemplatesOf(o) => o[h \o r] = b[Ref[a[h]] \o r]
             /\ \A q \in TemplatesOf(o) : \E h \in TemplatesOf(a) : IsPrefix(h, q)
<1> DEFINE o == EvaluateNode(a, b)
           H == TemplatesOf(a)
<1>1. /\ WellFormed(o)
      /\ \A h \in H, r \in Path :
                  /\ h \o r \in DOMAIN o <=> Ref[a[h]] \o r \in DOMAIN b
                  /\ h \o r \in DOMAIN o => o[h \o r] = b[Ref[a[h]] \o r]
      /\ \A q \in Path : (\A h \in H : ~IsPrefix(h, q)) =>
           /\ q \in DOMAIN o <=> q \in DOMAIN a
           /\ q \in DOMAIN o => o[q] = a[q]
  BY EvaluatedAt
<1>2. DOMAIN o \subseteq Path
  BY <1>1 DEF WellFormed
<1> HIDE DEF o
<1>3. \A h \in H, r \in Path : Ref[a[h]] \o r \in TemplatesOf(b) <=> h \o r \in TemplatesOf(o)
  BY <1>1 DEF TemplatesOf
<1>4. \A h \in H, r \in Path : h \o r \in TemplatesOf(o) => o[h \o r] = b[Ref[a[h]] \o r]
  BY <1>1 DEF TemplatesOf
<1>5. ASSUME NEW q \in TemplatesOf(o) PROVE \E h \in H : IsPrefix(h, q)
  <2> SUFFICES ASSUME \A h \in H : ~IsPrefix(h, q) PROVE FALSE
    OBVIOUS
  <2>1. q \in Path /\ q \in DOMAIN o /\ o[q] \in Templates
    BY <1>2 DEF TemplatesOf
  <2>2. q \in H
    BY <1>1, <2>1 DEF TemplatesOf
  <2> QED BY <2>1, <2>2, PrefixSelf
<1> QED BY <1>3, <1>4, <1>5 DEF o

LEMMA EvaluatedFinds ==
  ASSUME NEW a, WellFormed(a), NEW b, WellFormed(b), NEW c, ~Missing(a, b), ~Missing(b, c)
  PROVE  ~Missing(EvaluateNode(a, b), c)
<1> DEFINE o == EvaluateNode(a, b)
           H == TemplatesOf(a)
<1>1. /\ \A h \in H, r \in Path : Ref[a[h]] \o r \in TemplatesOf(b) <=> h \o r \in TemplatesOf(o)
      /\ \A h \in H, r \in Path : h \o r \in TemplatesOf(o) => o[h \o r] = b[Ref[a[h]] \o r]
      /\ \A q \in TemplatesOf(o) : \E h \in H : IsPrefix(h, q)
  BY EvaluatedTemplates
<1>2. WellFormed(o) /\ \A h \in H : h \in Path
  BY EvaluatedAt
<1> HIDE DEF o, H
<1> SUFFICES ASSUME NEW q \in TemplatesOf(o) PROVE Ref[o[q]] \in DOMAIN c
  BY DEF Missing, Exists, o
<1>3. PICK h \in H : IsPrefix(h, q)
  BY <1>1
<1>4. q \in Path
  BY <1>2 DEF TemplatesOf, WellFormed
<1>5. Rest(h, q) \in Path /\ h \o Rest(h, q) = q
  BY <1>2, <1>3, <1>4, RestOf
<1>6. Ref[a[h]] \o Rest(h, q) \in TemplatesOf(b) /\ o[q] = b[Ref[a[h]] \o Rest(h, q)]
  BY <1>1, <1>5
<1> QED BY <1>6 DEF Missing, Exists

LEMMA MoreFound ==
  ASSUME NEW a, NEW b, NEW c, DOMAIN b \subseteq DOMAIN c, ~Missing(a, b)
  PROVE  ~Missing(a, c)
  BY DEF Missing, Exists

LEMMA JoinBelow ==
  ASSUME NEW p \in Path, NEW g \in Path, NEW r \in Path, IsPrefix(p, g), IsPrefix(g, p \o r)
  PROVE  r = Rest(p, g) \o Rest(g, p \o r)
<1> DEFINE y == Rest(p, g)
           x == Rest(g, p \o r)
<1>1. p \o r \in Path /\ Rest(p, p \o r) = r
  BY Joined
<1>2. y \in Path /\ p \o y = g /\ x \in Path /\ g \o x = p \o r
  BY <1>1, RestOf
<1> HIDE DEF y, x
<1>3. y \o x \in Path /\ p \o (y \o x) = p \o r
  <2>1. (p \o y) \o x = p \o (y \o x)
    BY <1>2, JoinAssoc, ZenonT(40)
  <2>2. y \o x \in Path
    BY <1>2, Joined
  <2> QED BY <1>2, <2>1, <2>2, Zenon
<1>4. Rest(p, p \o (y \o x)) = y \o x
  BY <1>3, Joined
<1> QED BY <1>1, <1>3, <1>4 DEF y, x

LEMMA Associative ==
  ASSUME NEW a, WellFormed(a), NEW b, WellFormed(b), NEW c, WellFormed(c),
         ~Missing(a, b), ~Missing(b, c)
  PROVE  EvaluateNode(EvaluateNode(a, b), c) = EvaluateNode(a, EvaluateNode(b, c))
<1> DEFINE ab == EvaluateNode(a, b)
           bc == EvaluateNode(b, c)
           l  == EvaluateNode(ab, c)
           r  == EvaluateNode(a, bc)
<1>1. WellFormed(ab) /\ WellFormed(bc) /\ ~Missing(ab, c)
  BY EvaluatedAt, EvaluatedFinds
<1>2. ~Missing(a, bc)
  BY EvaluatedKeeps, MoreFound
<1>3. /\ \A h \in TemplatesOf(a) : h \in Path /\ Ref[a[h]] \in DOMAIN b /\ Ref[a[h]] \in Path
      /\ \A h \in TemplatesOf(a), x \in Path :
           /\ h \o x \in DOMAIN ab <=> Ref[a[h]] \o x \in DOMAIN b
           /\ h \o x \in DOMAIN ab => ab[h \o x] = b[Ref[a[h]] \o x]
      /\ \A q \in Path : (\A h \in TemplatesOf(a) : ~IsPrefix(h, q)) =>
           /\ q \in DOMAIN ab <=> q \in DOMAIN a
           /\ q \in DOMAIN ab => ab[q] = a[q]
  BY EvaluatedAt
<1>4. /\ \A h \in TemplatesOf(b) : h \in Path /\ Ref[b[h]] \in Path
      /\ \A h \in TemplatesOf(b), x \in Path :
           /\ h \o x \in DOMAIN bc <=> Ref[b[h]] \o x \in DOMAIN c
           /\ h \o x \in DOMAIN bc => bc[h \o x] = c[Ref[b[h]] \o x]
      /\ \A q \in Path : (\A h \in TemplatesOf(b) : ~IsPrefix(h, q)) =>
           /\ q \in DOMAIN bc <=> q \in DOMAIN b
           /\ q \in DOMAIN bc => bc[q] = b[q]
  BY EvaluatedAt
<1>5. /\ \A h \in TemplatesOf(a), x \in Path :
           Ref[a[h]] \o x \in TemplatesOf(b) <=> h \o x \in TemplatesOf(ab)
      /\ \A h \in TemplatesOf(a), x \in Path :
           h \o x \in TemplatesOf(ab) => ab[h \o x] = b[Ref[a[h]] \o x]
      /\ \A q \in TemplatesOf(ab) : \E h \in TemplatesOf(a) : IsPrefix(h, q)
  BY EvaluatedTemplates
<1> HIDE DEF ab, bc
<1>6. /\ WellFormed(l)
      /\ \A h \in TemplatesOf(ab) : h \in Path
      /\ \A h \in TemplatesOf(ab), x \in Path :
           /\ h \o x \in DOMAIN l <=> Ref[ab[h]] \o x \in DOMAIN c
           /\ h \o x \in DOMAIN l => l[h \o x] = c[Ref[ab[h]] \o x]
      /\ \A q \in Path : (\A h \in TemplatesOf(ab) : ~IsPrefix(h, q)) =>
           /\ q \in DOMAIN l <=> q \in DOMAIN ab
           /\ q \in DOMAIN l => l[q] = ab[q]
  BY <1>1, EvaluatedAt
<1>7. /\ WellFormed(r)
      /\ \A h \in TemplatesOf(a), x \in Path :
           /\ h \o x \in DOMAIN r <=> Ref[a[h]] \o x \in DOMAIN bc
           /\ h \o x \in DOMAIN r => r[h \o x] = bc[Ref[a[h]] \o x]
      /\ \A q \in Path : (\A h \in TemplatesOf(a) : ~IsPrefix(h, q)) =>
           /\ q \in DOMAIN r <=> q \in DOMAIN a
           /\ q \in DOMAIN r => r[q] = a[q]
  BY <1>1, <1>2, EvaluatedAt
<1> HIDE DEF l, r
<1>8. ASSUME NEW q \in Path
      PROVE  (q \in DOMAIN l <=> q \in DOMAIN r) /\ (q \in DOMAIN l => l[q] = r[q])
  <2>1. CASE \A h \in TemplatesOf(a) : ~IsPrefix(h, q)
    <3>1. \A g \in TemplatesOf(ab) : ~IsPrefix(g, q)
      <4> SUFFICES ASSUME NEW g \in TemplatesOf(ab), IsPrefix(g, q) PROVE FALSE
        OBVIOUS
      <4>1. PICK h \in TemplatesOf(a) : IsPrefix(h, g)
        BY <1>5
      <4> QED BY <1>3, <1>6, <2>1, <4>1, PrefixTransitive
    <3> QED BY <1>3, <1>6, <1>7, <2>1, <3>1
  <2>2. CASE \E h \in TemplatesOf(a) : IsPrefix(h, q)
    <3>1. PICK h \in TemplatesOf(a) : IsPrefix(h, q)
      BY <2>2
    <3> DEFINE x == Rest(h, q)
               p == Ref[a[h]]
    <3>2. x \in Path /\ h \o x = q /\ h \in Path /\ p \in Path /\ p \in DOMAIN b
      BY <1>3, <3>1, RestOf
    <3> HIDE DEF x
    <3>3. /\ q \in DOMAIN r <=> p \o x \in DOMAIN bc
          /\ q \in DOMAIN r => r[q] = bc[p \o x]
          /\ q \in DOMAIN ab <=> p \o x \in DOMAIN b
          /\ q \in DOMAIN ab => ab[q] = b[p \o x]
      <4>1. /\ h \o x \in DOMAIN r <=> p \o x \in DOMAIN bc
            /\ h \o x \in DOMAIN r => r[h \o x] = bc[p \o x]
        BY <1>7, <3>2
      <4>2. /\ h \o x \in DOMAIN ab <=> p \o x \in DOMAIN b
            /\ h \o x \in DOMAIN ab => ab[h \o x] = b[p \o x]
        BY <1>3, <3>2
      <4> QED BY <3>2, <4>1, <4>2, Zenon
    <3>4. \A y \in Path : /\ p \o y \in TemplatesOf(b) <=> h \o y \in TemplatesOf(ab)
                          /\ h \o y \in TemplatesOf(ab) => ab[h \o y] = b[p \o y]
      BY <1>5
    <3>5. p \o x \in Path /\ IsPrefix(p, p \o x)
      BY <3>2, Joined
    <3> HIDE DEF p
    <3>6. CASE \A g \in TemplatesOf(b) : ~IsPrefix(g, p \o x)
      <4>1. \A g \in TemplatesOf(ab) : ~IsPrefix(g, q)
        <5> SUFFICES ASSUME NEW g \in TemplatesOf(ab), IsPrefix(g, q) PROVE FALSE
          OBVIOUS
        <5>1. PICK k \in TemplatesOf(a) : IsPrefix(k, g)
          BY <1>5
        <5>2. g \in Path /\ IsPrefix(k, q)
          BY <1>3, <1>6, <5>1, PrefixTransitive
        <5>3. k = h
          BY <3>1, <5>2, OneTemplateAbove
        <5> DEFINE y == Rest(h, g)
        <5>4. y \in Path /\ h \o y = g
          BY <3>2, <5>1, <5>2, <5>3, RestOf
        <5>5. IsPrefix(y, x)
          <6>1. IsPrefix(g, h \o x) /\ IsPrefix(h, g)
            BY <3>2, <5>1, <5>3
          <6>2. x = y \o Rest(g, h \o x)
            BY <3>2, <5>2, <6>1, JoinBelow
          <6>3. Rest(g, h \o x) \in Path
            BY <3>2, <5>2, <6>1, RestOf
          <6> QED BY <5>4, <6>2, <6>3, Joined, ZenonT(40)
        <5> HIDE DEF y
        <5>6. p \o y \in TemplatesOf(b) /\ IsPrefix(p \o y, p \o x)
          <6> DEFINE w == Rest(y, x)
          <6>1. w \in Path /\ x = y \o w
            BY <3>2, <5>4, <5>5, RestOf
          <6> HIDE DEF w
          <6>2. (p \o y) \o w = p \o (y \o w)
            <7>1. p \in Path /\ y \in Path /\ w \in Path
              BY <3>2, <5>4, <6>1
            <7> QED BY <7>1, JoinAssoc
          <6>3. p \o x = (p \o y) \o w
            BY <6>1, <6>2, Zenon
          <6>4. IsPrefix(p \o y, (p \o y) \o w)
            <7>1. p \o y \in Path
              BY <3>2, <5>4, Joined
            <7> QED BY <6>1, <7>1, Joined
          <6> QED BY <3>4, <5>4, <6>3, <6>4, Zenon
        <5> QED BY <3>6, <5>6
      <4>2. /\ q \in DOMAIN l <=> q \in DOMAIN ab
            /\ q \in DOMAIN l => l[q] = ab[q]
        BY <1>6, <4>1
      <4>3. /\ p \o x \in DOMAIN bc <=> p \o x \in DOMAIN b
            /\ p \o x \in DOMAIN bc => bc[p \o x] = b[p \o x]
        BY <1>4, <3>5, <3>6
      <4> QED BY <3>3, <4>2, <4>3
    <3>7. CASE \E g \in TemplatesOf(b) : IsPrefix(g, p \o x)
      <4>1. PICK g \in TemplatesOf(b) : IsPrefix(g, p \o x)
        BY <3>7
      <4>2. g \in Path
        BY <1>4
      <4>3. IsPrefix(p, g)
        <5>1. IsPrefix(p, g) \/ IsPrefix(g, p)
          BY <3>2, <3>5, <4>1, <4>2, PrefixesOrdered
        <5>2. IsPrefix(g, p) => g = p
          BY <3>2, TemplatesAreLeaves
        <5> QED BY <3>2, <5>1, <5>2, PrefixSelf
      <4> DEFINE y == Rest(p, g)
                 z == Rest(g, p \o x)
                 u == Ref[b[g]]
      <4>4. y \in Path /\ p \o y = g /\ z \in Path /\ g \o z = p \o x /\ x = y \o z /\ u \in Path
        BY <1>4, <3>2, <3>5, <4>1, <4>2, <4>3, RestOf, JoinBelow
      <4>5. h \o y \in TemplatesOf(ab) /\ ab[h \o y] = b[g]
        BY <3>4, <4>4
      <4>6. q = (h \o y) \o z
        <5>1. (h \o y) \o z = h \o (y \o z)
          BY <3>2, <4>4, JoinAssoc, ZenonT(40)
        <5> QED BY <3>2, <4>4, <5>1, Zenon
      <4>7. /\ q \in DOMAIN l <=> u \o z \in DOMAIN c
            /\ q \in DOMAIN l => l[q] = c[u \o z]
        BY <1>6, <4>4, <4>5, <4>6
      <4>8. /\ p \o x \in DOMAIN bc <=> u \o z \in DOMAIN c
            /\ p \o x \in DOMAIN bc => bc[p \o x] = c[u \o z]
        BY <1>4, <4>4, ZenonT(40)
      <4> QED BY <3>3, <4>7, <4>8
    <3> QED BY <3>6, <3>7
  <2> QED BY <2>1, <2>2
<1>9. Rooted(l) /\ Rooted(r) /\ DOMAIN l \subseteq Path /\ DOMAIN r \subseteq Path
  BY <1>6, <1>7, WellFormedChildren DEF Rooted
<1>10. DOMAIN l = DOMAIN r
  BY <1>8, <1>9
<1>11. l = r
  BY <1>8, <1>9, <1>10, SameTree
<1> QED BY <1>11 DEF l, r, ab, bc

LEMMA WithoutTemplates ==
  ASSUME NEW a, WellFormed(a), TemplatesOf(a) = {}, NEW b, WellFormed(b)
  PROVE  EvaluateNode(a, b) = a
<1> DEFINE o == EvaluateNode(a, b)
<1>1. ~Missing(a, b)
  BY DEF Missing
<1>2. WellFormed(o) /\ \A q \in Path : /\ q \in DOMAIN o <=> q \in DOMAIN a
                                       /\ q \in DOMAIN o => o[q] = a[q]
  BY <1>1, EvaluatedAt
<1> HIDE DEF o
<1>3. Rooted(o) /\ Rooted(a) /\ DOMAIN o \subseteq Path /\ DOMAIN a \subseteq Path
  BY <1>2, WellFormedChildren DEF Rooted
<1>4. DOMAIN o = DOMAIN a /\ \A q \in DOMAIN o : o[q] = a[q]
  BY <1>2, <1>3
<1>5. o = a
  BY <1>3, <1>4, SameTree
<1> QED BY <1>5 DEF o

-----------------------------------------------------------------------------
(***************************************************************************)
(* The steps of a call of Interpolate, among those of the other calls.     *)
(***************************************************************************)
Interpolating(k) == k.at \in {"round", "publish"}

Started(k) ==
  \E recursive \in BOOLEAN, maxDepth \in MaxDepths :
    k = [at |-> "round", snapshot |-> root, tree |-> root, depth |-> 0,
         recursive |-> recursive, maxDepth |-> maxDepth]

Advanced(k, l) ==
  /\ k.at = "round" /\ ~Missing(k.tree, k.tree)
  /\ l.snapshot = k.snapshot /\ l.recursive = k.recursive /\ l.maxDepth = k.maxDepth
  /\ l.tree = EvaluateNode(k.tree, k.tree)
  /\ \/ l.at = "publish" /\ (~k.recursive \/ ~ContainsEvaluation(l.tree))
     \/ l.at = "round" /\ l.depth = k.depth + 1

InterpolateStep(g) ==
  /\ OthersKeep(g)
  /\ \/ ~Interpolating(task'[g])
     \/ Started(task'[g]) /\ root' = root /\ overlapped' = overlapped \ {g}
     \/ Advanced(task[g], task'[g]) /\ root' = root /\ overlapped' = overlapped

LEMMA EndOfCall ==
  ASSUME TypeOK, NEW g \in Goroutines, NEW err, Return(g, err),
         (\E t : WriteRoot(t)) \/ UNCHANGED <<root, overlapped>> \/ (UNCHANGED root /\ Look(g))
  PROVE  InterpolateStep(g)
<1>1. task'[g] = Idle /\ \A h \in Goroutines \ {g} : task'[h] = task[h]
  BY DEF TypeOK, Return
<1>2. OthersKeep(g)
  BY <1>1, Wrote, OnlyRead
<1> QED BY <1>1, <1>2 DEF InterpolateStep, Interpolating, Idle

LEMMA MiddleOfCall ==
  ASSUME TypeOK, NEW g \in Goroutines, NEW next, Continue(g, next), UNCHANGED root,
         UNCHANGED overlapped \/ Look(g)
  PROVE  OthersKeep(g) /\ task'[g] = next
<1>1. task'[g] = next /\ \A h \in Goroutines \ {g} : task'[h] = task[h]
  BY DEF TypeOK, Continue
<1> QED BY <1>1, OnlyRead

LEMMA RoundOutcome ==
  ASSUME TypeOK, NEW g \in Goroutines, InterpolateRound(g)
  PROVE  LET k == task[g]
             next == EvaluateNode(k.tree, k.tree)
         IN  /\ k.at = "round" /\ InterpolateOK(k) /\ UNCHANGED <<root, overlapped>>
             /\ \/ Missing(k.tree, k.tree) /\ Return(g, "missing")
                \/ /\ ~Missing(k.tree, k.tree) /\ (~k.recursive \/ ~ContainsEvaluation(next))
                   /\ Continue(g, [k EXCEPT !.at = "publish", !.tree = next])
                \/ /\ ~Missing(k.tree, k.tree) /\ k.recursive /\ ContainsEvaluation(next)
                   /\ k.tree = next \/ k.depth + 1 >= k.maxDepth
                   /\ Return(g, "cycleDetected")
                \/ /\ ~Missing(k.tree, k.tree) /\ k.recursive /\ ContainsEvaluation(next)
                   /\ ~(k.tree = next \/ k.depth + 1 >= k.maxDepth)
                   /\ Continue(g, [k EXCEPT !.tree = next, !.depth = @ + 1])
<1>1. TaskOK(task[g]) /\ task[g].at = "round"
  BY DEF TypeOK, InterpolateRound
<1>2. InterpolateOK(task[g])
  BY <1>1 DEF TaskOK, LoadOK, Idle
<1> QED BY <1>1, <1>2, Zenon DEF InterpolateRound

LEMMA RoundStep ==
  ASSUME TypeOK, NEW g \in Goroutines, InterpolateRound(g)
  PROVE  InterpolateStep(g)
<1> DEFINE k == task[g]
           next == EvaluateNode(k.tree, k.tree)
<1>1. /\ k.at = "round" /\ InterpolateOK(k) /\ UNCHANGED <<root, overlapped>>
      /\ \/ \E err : Return(g, err)
         \/ /\ ~Missing(k.tree, k.tree) /\ (~k.recursive \/ ~ContainsEvaluation(next))
            /\ Continue(g, [k EXCEPT !.at = "publish", !.tree = next])
         \/ /\ ~Missing(k.tree, k.tree)
            /\ Continue(g, [k EXCEPT !.tree = next, !.depth = @ + 1])
  BY RoundOutcome
<1> HIDE DEF k, next
<1>2. CASE \E err : Return(g, err)
  BY <1>1, <1>2, EndOfCall
<1>3. CASE /\ ~Missing(k.tree, k.tree) /\ (~k.recursive \/ ~ContainsEvaluation(next))
           /\ Continue(g, [k EXCEPT !.at = "publish", !.tree = next])
  <2> DEFINE l == [k EXCEPT !.at = "publish", !.tree = next]
  <2>1. OthersKeep(g) /\ task'[g] = l
    BY <1>1, <1>3, MiddleOfCall
  <2>2. /\ l.at = "publish" /\ l.tree = next /\ l.snapshot = k.snapshot
        /\ l.recursive = k.recursive /\ l.maxDepth = k.maxDepth
    BY <1>1 DEF InterpolateOK
  <2> HIDE DEF l
  <2> QED BY <1>1, <1>3, <2>1, <2>2 DEF InterpolateStep, Advanced, k, next
<1>4. CASE /\ ~Missing(k.tree, k.tree)
           /\ Continue(g, [k EXCEPT !.tree = next, !.depth = @ + 1])
  <2> DEFINE l == [k EXCEPT !.tree = next, !.depth = @ + 1]
  <2>1. OthersKeep(g) /\ task'[g] = l
    BY <1>1, <1>4, MiddleOfCall
  <2>2. /\ l.at = "round" /\ l.tree = next /\ l.snapshot = k.snapshot /\ l.depth = k.depth + 1
        /\ l.recursive = k.recursive /\ l.maxDepth = k.maxDepth
    BY <1>1 DEF InterpolateOK
  <2> HIDE DEF l
  <2> QED BY <1>1, <1>4, <2>1, <2>2 DEF InterpolateStep, Advanced, k, next
<1> QED BY <1>1, <1>2, <1>3, <1>4

LEMMA Steps ==
  ASSUME TypeOK, NEW g \in Goroutines, Call(g) \/ Proceed(g)
  PROVE  InterpolateStep(g)
<1>1. ASSUME NEW p \in Paths, Delete(g, p) \/ GetValue(g, p) PROVE InterpolateStep(g)
  <2>1. /\ \E err : Return(g, err)
        /\ (\E t : WriteRoot(t)) \/ UNCHANGED <<root, overlapped>>
    BY <1>1 DEF Delete, GetValue
  <2> QED BY <2>1, EndOfCall
<1>2. ASSUME NEW p \in Paths, NEW v \in Values,
             SetValue(g, p, v) \/ AppendValue(g, p, v) \/ MergeValue(g, p, v)
      PROVE  InterpolateStep(g)
  <2>1. /\ \E err : Return(g, err)
        /\ (\E t : WriteRoot(t)) \/ UNCHANGED <<root, overlapped>>
    BY <1>2 DEF SetValue, AppendValue, MergeValue
  <2> QED BY <2>1, EndOfCall
<1>3. ASSUME NEW p \in Paths, NEW v \in Values, LoadGet(g, p, v) PROVE InterpolateStep(g)
  <2>1. UNCHANGED root /\ Look(g)
    BY <1>3 DEF LoadGet
  <2>2. CASE \E err : Return(g, err)
    BY <2>1, <2>2, EndOfCall
  <2>3. CASE \E next : Continue(g, next) /\ next.at \in {"checkRoot", "load"}
    BY <2>1, <2>3, MiddleOfCall DEF InterpolateStep, Interpolating
  <2>4. \/ \E err : Return(g, err)
        \/ Continue(g, [at |-> IF p = <<>> THEN "checkRoot" ELSE "load", path |-> p, value |-> v])
    BY <1>3 DEF LoadGet
  <2>5. [at |-> IF p = <<>> THEN "checkRoot" ELSE "load", path |-> p, value |-> v].at
          \in {"checkRoot", "load"}
    OBVIOUS
  <2> QED BY <2>2, <2>3, <2>4, <2>5
<1>4. ASSUME NEW recursive \in BOOLEAN, NEW maxDepth \in MaxDepths,
             InterpolateSnapshot(g, recursive, maxDepth)
      PROVE  InterpolateStep(g)
  <2> DEFINE k == [at |-> "round", snapshot |-> root, tree |-> root, depth |-> 0,
                   recursive |-> recursive, maxDepth |-> maxDepth]
  <2>1. UNCHANGED root /\ Look(g) /\ Continue(g, k)
    BY <1>4 DEF InterpolateSnapshot
  <2>2. Started(k)
    BY DEF Started
  <2> HIDE DEF k
  <2>3. OthersKeep(g) /\ task'[g] = k
    BY <2>1, MiddleOfCall
  <2> QED BY <2>1, <2>2, <2>3 DEF InterpolateStep, Look
<1>5. CASE LoadCheckRoot(g)
  <2>1. UNCHANGED root /\ Look(g)
    BY <1>5 DEF LoadCheckRoot
  <2>2. CASE \E err : Return(g, err)
    BY <2>1, <2>2, EndOfCall
  <2>3. CASE Continue(g, [at |-> "load", path |-> <<>>, value |-> task[g].value])
    BY <2>1, <2>3, MiddleOfCall DEF InterpolateStep, Interpolating
  <2> QED BY <1>5, <2>2, <2>3 DEF LoadCheckRoot
<1>6. CASE LoadSet(g)
  BY <1>6, EndOfCall DEF LoadSet
<1>7. CASE InterpolatePublish(g)
  BY <1>7, EndOfCall DEF InterpolatePublish
<1> QED BY <1>1, <1>2, <1>3, <1>4, <1>5, <1>6, <1>7, RoundStep DEF Call, Proceed

LEMMA InterpolatingType ==
  ASSUME TypeOK, NEW g \in Goroutines, Interpolating(task[g])
  PROVE  /\ InterpolateOK(task[g])
         /\ WellFormed(task[g].snapshot) /\ WellFormed(task[g].tree)
<1>1. TaskOK(task[g])
  BY DEF TypeOK
<1>2. InterpolateOK(task[g])
  BY <1>1 DEF TaskOK, LoadOK, Idle, Interpolating
<1> QED BY <1>2 DEF InterpolateOK

(***************************************************************************)
(* The tree a call works on has what was in the snapshot, but for the      *)
(* templates, and the snapshot is the root unless somebody has written.    *)
(***************************************************************************)
Replaces(k) ==
  \A q \in DOMAIN k.snapshot :
    q \in DOMAIN k.tree /\ (k.snapshot[q] \in Templates \/ k.tree[q] = k.snapshot[q])

SnapshotsKept ==
  \A g \in Goroutines : Interpolating(task[g]) =>
    Replaces(task[g]) /\ (g \notin overlapped => root = task[g].snapshot)

LEMMA AdvancedReplaces ==
  ASSUME NEW k, NEW l, WellFormed(k.tree), Advanced(k, l), Replaces(k)
  PROVE  Replaces(l)
<1>1. \A q \in DOMAIN k.tree :
        q \in DOMAIN l.tree /\ (k.tree[q] \notin Templates => l.tree[q] = k.tree[q])
  BY EvaluatedKeeps DEF Advanced
<1> QED BY <1>1 DEF Replaces, Advanced

LEMMA SpecSnapshotsKept == Spec => []SnapshotsKept
<1>1. Init => SnapshotsKept
  BY DEF Init, SnapshotsKept, Interpolating, Idle
<1>2. TypeOK /\ SnapshotsKept /\ [Next]_vars => SnapshotsKept'
  <2> SUFFICES ASSUME TypeOK, SnapshotsKept, [Next]_vars,
                      NEW h \in Goroutines, Interpolating(task'[h])
               PROVE  Replaces(task'[h]) /\ (h \notin overlapped' => root' = task'[h].snapshot)
    BY DEF SnapshotsKept, Replaces, Interpolating
  <2>1. CASE UNCHANGED vars
    BY <2>1 DEF vars, SnapshotsKept, Replaces, Interpolating
  <2>2. ASSUME NEW g \in Goroutines, InterpolateStep(g)
        PROVE  Replaces(task'[h]) /\ (h \notin overlapped' => root' = task'[h].snapshot)
    <3>1. CASE h # g
      <4>1. task'[h] = task[h] /\ task[h] # Idle
        BY <2>2, <3>1 DEF InterpolateStep, OthersKeep, Interpolating, Idle
      <4> QED BY <2>2, <3>1, <4>1 DEF InterpolateStep, OthersKeep, SnapshotsKept
    <3>2. CASE h = g /\ Started(task'[g])
      BY <2>2, <3>2 DEF Started, Replaces, InterpolateStep, Advanced
    <3>3. CASE h = g /\ Advanced(task[g], task'[g])
      <4>1. Interpolating(task[g])
        BY <3>3 DEF Advanced, Interpolating
      <4>2. Replaces(task'[g])
        BY <3>3, <4>1, InterpolatingType, AdvancedReplaces DEF SnapshotsKept
      <4>3. CASE root' = root /\ overlapped' = overlapped
        BY <3>3, <4>1, <4>2, <4>3 DEF SnapshotsKept, Advanced
      <4>4. CASE Started(task'[g]) /\ root' = root
        BY <3>3, <4>2, <4>4 DEF Started
      <4> QED BY <2>2, <3>3, <4>3, <4>4 DEF InterpolateStep
    <3> QED BY <2>2, <3>1, <3>2, <3>3 DEF InterpolateStep
  <2> QED BY <2>1, <2>2, Steps DEF Next
<1> QED BY <1>1, <1>2, TypeCorrect, PTL DEF Spec

(***************************************************************************)
(* Interpolate loses nothing but templates, unless another goroutine has   *)
(* written since the snapshot: every other node is still there.            *)
(***************************************************************************)
THEOREM ReplacesTemplatesOnly == Spec => InterpolateReplacesTemplatesOnly
<1>1. ASSUME TypeOK, SnapshotsKept, NEW g \in Goroutines, InterpolatePublish(g), g \notin overlapped,
             NEW q \in DOMAIN root
      PROVE  q \in DOMAIN root' /\ (root[q] \in Templates \/ root'[q] = root[q])
  <2>1. root' = task[g].tree /\ Interpolating(task[g])
    BY <1>1 DEF InterpolatePublish, WriteRoot, Interpolating
  <2> QED BY <1>1, <2>1 DEF SnapshotsKept, Replaces
<1>2. TypeOK /\ SnapshotsKept /\ [Next]_vars
        => [\A g \in Goroutines :
              InterpolatePublish(g) /\ g \notin overlapped
                => \A q \in DOMAIN root :
                     q \in DOMAIN root' /\ (root[q] \in Templates \/ root'[q] = root[q])]_vars
  BY <1>1
<1> QED BY <1>2, TypeCorrect, SpecSnapshotsKept, PTL DEF Spec, InterpolateReplacesTemplatesOnly

-----------------------------------------------------------------------------
(***************************************************************************)
(* Each round composes the tree with itself, so after some rounds it is    *)
(* the snapshot composed with itself some number of times: it commutes     *)
(* with the snapshot.  Once it has no templates, evaluating it changes     *)
(* nothing, so evaluating the snapshot in it gives it back.                *)
(***************************************************************************)
Commutes(s, t) ==
  /\ ~Missing(s, s) /\ ~Missing(s, t) /\ ~Missing(t, s)
  /\ EvaluateNode(t, s) = EvaluateNode(s, t)

LEMMA CommutesAtFirst ==
  ASSUME NEW s, WellFormed(s), ~Missing(s, s)
  PROVE  Commutes(s, EvaluateNode(s, s))
<1> DEFINE t == EvaluateNode(s, s)
<1>1. ~Missing(t, s)
  BY EvaluatedFinds
<1>2. ~Missing(s, t)
  BY EvaluatedKeeps, MoreFound
<1>3. EvaluateNode(t, s) = EvaluateNode(s, t)
  BY Associative
<1> QED BY <1>1, <1>2, <1>3 DEF Commutes

LEMMA CommutesAfterwards ==
  ASSUME NEW s, WellFormed(s), NEW t, WellFormed(t), Commutes(s, t), ~Missing(t, t)
  PROVE  Commutes(s, EvaluateNode(t, t))
<1> DEFINE u == EvaluateNode(t, t)
<1>1. ~Missing(s, s) /\ ~Missing(s, t) /\ ~Missing(t, s) /\ EvaluateNode(t, s) = EvaluateNode(s, t)
  BY DEF Commutes
<1>2. ~Missing(u, s)
  BY <1>1, EvaluatedFinds
<1>3. ~Missing(s, u)
  BY <1>1, EvaluatedKeeps, MoreFound
<1>4. EvaluateNode(u, s) = EvaluateNode(t, EvaluateNode(t, s))
  BY <1>1, Associative
<1>5. EvaluateNode(t, EvaluateNode(s, t)) = EvaluateNode(EvaluateNode(t, s), t)
  BY <1>1, Associative
<1>6. EvaluateNode(EvaluateNode(s, t), t) = EvaluateNode(s, u)
  BY <1>1, Associative
<1> QED BY <1>1, <1>2, <1>3, <1>4, <1>5, <1>6 DEF Commutes

Unfolds(k) ==
  /\ k.tree = k.snapshot \/ Commutes(k.snapshot, k.tree)
  /\ k.at = "publish" => /\ Commutes(k.snapshot, k.tree)
                         /\ k.recursive => ~ContainsEvaluation(k.tree)

LEMMA AdvancedUnfolds ==
  ASSUME NEW k, NEW l, WellFormed(k.snapshot), WellFormed(k.tree), Advanced(k, l), Unfolds(k)
  PROVE  Unfolds(l)
<1>1. ~Missing(k.tree, k.tree) /\ l.tree = EvaluateNode(k.tree, k.tree) /\ l.snapshot = k.snapshot
  BY DEF Advanced
<1>2. Commutes(l.snapshot, l.tree)
  BY <1>1, CommutesAtFirst, CommutesAfterwards DEF Unfolds
<1> QED BY <1>2 DEF Unfolds, Advanced

TreesUnfold == \A g \in Goroutines : Interpolating(task[g]) => Unfolds(task[g])

LEMMA SpecTreesUnfold == Spec => []TreesUnfold
<1>1. Init => TreesUnfold
  BY DEF Init, TreesUnfold, Interpolating, Idle
<1>2. TypeOK /\ TreesUnfold /\ [Next]_vars => TreesUnfold'
  <2> SUFFICES ASSUME TypeOK, TreesUnfold, [Next]_vars,
                      NEW h \in Goroutines, Interpolating(task'[h])
               PROVE  Unfolds(task'[h])
    BY DEF TreesUnfold, Unfolds, Interpolating
  <2>1. CASE UNCHANGED vars
    BY <2>1 DEF vars, TreesUnfold, Unfolds, Interpolating
  <2>2. ASSUME NEW g \in Goroutines, InterpolateStep(g)
        PROVE  Unfolds(task'[h])
    <3>1. CASE h # g
      <4>1. task'[h] = task[h]
        BY <2>2, <3>1 DEF InterpolateStep, OthersKeep
      <4> QED BY <4>1 DEF TreesUnfold
    <3>2. CASE h = g /\ Started(task'[g])
      BY <3>2 DEF Started, Unfolds
    <3>3. CASE h = g /\ Advanced(task[g], task'[g])
      <4>1. Interpolating(task[g])
        BY <3>3 DEF Advanced, Interpolating
      <4> QED BY <3>3, <4>1, InterpolatingType, AdvancedUnfolds DEF TreesUnfold
    <3> QED BY <2>2, <3>1, <3>2, <3>3 DEF InterpolateStep
  <2> QED BY <2>1, <2>2, Steps DEF Next
<1> QED BY <1>1, <1>2, TypeCorrect, PTL DEF Spec

LEMMA Resolved ==
  ASSUME NEW s, WellFormed(s), NEW t, WellFormed(t), Commutes(s, t), TemplatesOf(t) = {},
         NEW q \in TemplatesOf(s)
  PROVE  Sub(t, q) = Sub(t, Ref[s[q]])
<1> DEFINE p == Ref[s[q]]
           o == EvaluateNode(s, t)
           a == Sub(t, q)
           b == Sub(t, p)
<1>1. o = t
  BY WithoutTemplates DEF Commutes
<1>2. q \in Path /\ p \in Path
  BY EvaluatedAt DEF Commutes
<1>3. \A r \in Path : /\ q \o r \in DOMAIN o <=> p \o r \in DOMAIN t
                      /\ q \o r \in DOMAIN o => o[q \o r] = t[p \o r]
  BY EvaluatedAt DEF Commutes
<1>4. Rooted(t)
  BY WellFormedChildren
<1> HIDE DEF o, p
<1>5. /\ DOMAIN a \subseteq Path
      /\ \A r \in Path : r \in DOMAIN a <=> q \o r \in DOMAIN t
      /\ \A r \in DOMAIN a : a[r] = t[q \o r]
  BY <1>2, <1>4, SubDomain
<1>6. /\ DOMAIN b \subseteq Path
      /\ \A r \in Path : r \in DOMAIN b <=> p \o r \in DOMAIN t
      /\ \A r \in DOMAIN b : b[r] = t[p \o r]
  BY <1>2, <1>4, SubDomain
<1>7. a = [r \in DOMAIN a |-> a[r]] /\ b = [r \in DOMAIN b |-> b[r]]
  BY SubIsFunction
<1> HIDE DEF a, b
<1>8. DOMAIN a = DOMAIN b /\ \A r \in DOMAIN a : a[r] = b[r]
  BY <1>1, <1>3, <1>5, <1>6
<1>9. a = b
  BY <1>7, <1>8
<1> QED BY <1>9 DEF a, b, p

(***************************************************************************)
(* Interpolate with recursion: whatever the templates refer to, scalars,   *)
(* containers, other templates or containers that hold some, a call that   *)
(* succeeds leaves no template, and under each one that was there stands   *)
(* what stands, after all the rounds, at the path it refers to.            *)
(***************************************************************************)
THEOREM Resolves == Spec => InterpolateResolves
<1>1. ASSUME TypeOK, TreesUnfold, NEW g \in Goroutines, InterpolatePublish(g), task[g].recursive
      PROVE  LET snapshot == task[g].snapshot
             IN  /\ ~ContainsEvaluation(root')
                 /\ \A q \in TemplatesOf(snapshot) : Sub(root', q) = Sub(root', Ref[snapshot[q]])
  <2>1. root' = task[g].tree /\ Interpolating(task[g]) /\ task[g].at = "publish"
    BY <1>1 DEF InterpolatePublish, WriteRoot, Interpolating
  <2>2. /\ Commutes(task[g].snapshot, task[g].tree) /\ ~ContainsEvaluation(task[g].tree)
        /\ WellFormed(task[g].snapshot) /\ WellFormed(task[g].tree)
    BY <1>1, <2>1, InterpolatingType DEF TreesUnfold, Unfolds
  <2> QED BY <2>1, <2>2, Resolved DEF ContainsEvaluation
<1>2. TypeOK /\ TreesUnfold /\ [Next]_vars
        => [\A g \in Goroutines :
              InterpolatePublish(g) /\ task[g].recursive
                => LET snapshot == task[g].snapshot
                   IN  /\ ~ContainsEvaluation(root')
                       /\ \A q \in TemplatesOf(snapshot) :
                            Sub(root', q) = Sub(root', Ref[snapshot[q]])]_vars
  BY <1>1
<1> QED BY <1>2, TypeCorrect, SpecTreesUnfold, PTL DEF Spec, InterpolateResolves

-----------------------------------------------------------------------------
(***************************************************************************)
(* The rounds of Interpolate, for trees of any size.  A round halves every *)
(* chain of templates that refer to one another, so after n rounds one is  *)
(* left exactly when the snapshot had one of 2^n templates.  From the      *)
(* count of rounds follow how long a call takes and what it answers, and   *)
(* a round makes of a tree at most the square of its size.                 *)
(***************************************************************************)
\* The subsets of 1..n+1 are those of 1..n, without n+1 and with it.
LEMMA PowersOfTwo ==
  /\ 2^0 = 1
  /\ \A n \in Nat : 2^n \in Nat /\ 2^n >= 1 /\ 2^(n + 1) = 2 * 2^n
<1>1. ASSUME NEW n \in Nat
      PROVE  IsFiniteSet(SUBSET (1..n)) /\ Cardinality(SUBSET (1..n)) = 2^n
  <2>1. IsFiniteSet(1..n) /\ Cardinality(1..n) = n
    BY FS_Interval
  <2> QED BY <2>1, FS_SUBSET
<1>2. 2^0 = 1
  <2>1. SUBSET (1..0) = {{}}
    OBVIOUS
  <2>2. Cardinality({{}}) = 1
    BY FS_Singleton
  <2> QED BY <1>1, <2>1, <2>2
<1>3. ASSUME NEW n \in Nat PROVE 2^n \in Nat /\ 2^n >= 1 /\ 2^(n + 1) = 2 * 2^n
  <2> DEFINE S == SUBSET (1..n)
             F == [X \in S |-> X \cup {n + 1}]
             T == {X \cup {n + 1} : X \in S}
  <2>1. /\ IsFiniteSet(S) /\ Cardinality(S) = 2^n
        /\ IsFiniteSet(SUBSET (1..(n + 1))) /\ Cardinality(SUBSET (1..(n + 1))) = 2^(n + 1)
    BY <1>1
  <2>2. F \in Bijection(S, T)
    <3>1. n + 1 \notin 1..n
      OBVIOUS
    <3>2. F \in Injection(S, T)
      <4>1. F \in [S -> T] /\ DOMAIN F = S
        OBVIOUS
      <4>2. ASSUME NEW X \in S, NEW Y \in S, F[X] = F[Y] PROVE X = Y
        BY <3>1, <4>2
      <4> HIDE DEF S, T, F
      <4>3. IsInjective(F)
        BY <4>1, <4>2 DEF IsInjective
      <4> QED BY <4>1, <4>3 DEF Injection
    <3>3. F \in Surjection(S, T)
      BY DEF Surjection
    <3> QED BY <3>2, <3>3 DEF Bijection
  <2>3. IsFiniteSet(T) /\ Cardinality(T) = Cardinality(S)
    BY <2>1, <2>2, FS_Bijection DEF ExistsBijection
  <2>4. SUBSET (1..(n + 1)) = S \cup T
    <3>1. 1..(n + 1) = (1..n) \cup {n + 1} /\ n + 1 \notin 1..n
      OBVIOUS
    <3>2. ASSUME NEW X \in SUBSET (1..(n + 1)) PROVE X \in S \cup T
      <4>1. CASE n + 1 \in X
        <5>1. X \ {n + 1} \in S /\ X = (X \ {n + 1}) \cup {n + 1}
          BY <3>1, <4>1
        <5> QED BY <5>1
      <4>2. CASE n + 1 \notin X
        BY <3>1, <4>2
      <4> QED BY <4>1, <4>2
    <3>3. ASSUME NEW X \in S PROVE X \subseteq 1..(n + 1) /\ X \cup {n + 1} \subseteq 1..(n + 1)
      BY <3>1
    <3>4. ASSUME NEW X \in S \cup T PROVE X \in SUBSET (1..(n + 1))
      BY <3>3
    <3> HIDE DEF S, T
    <3> QED BY <3>2, <3>4
  <2>5. S \cap T = {}
    <3>1. n + 1 \notin 1..n
      OBVIOUS
    <3> QED BY <3>1
  <2>6. Cardinality(S \cup T) = Cardinality(S) + Cardinality(T) - Cardinality(S \cap T)
    BY <2>1, <2>3, FS_Union
  <2>7. Cardinality(S \cap T) = 0 /\ Cardinality(S) \in Nat
    BY <2>1, <2>5, FS_EmptySet, FS_CardinalityType
  <2>8. Cardinality(S) # 0
    <3>1. {} \in S
      OBVIOUS
    <3> QED BY <2>1, <3>1, FS_EmptySet
  <2> HIDE DEF S, T, F
  <2>9. Cardinality(S \cup T) = 2^(n + 1)
    BY <2>1, <2>4
  <2> QED BY <2>1, <2>3, <2>6, <2>7, <2>8, <2>9
<1> QED BY <1>2, <1>3

LEMMA LargerPower ==
  ASSUME NEW n \in Nat, NEW m \in Nat, m <= n
  PROVE  2^m <= 2^n
<1> DEFINE S == {k \in Nat : m <= k /\ ~(2^m <= 2^k)}
<1> SUFFICES ASSUME S # {} PROVE FALSE
  OBVIOUS
<1>1. PICK k \in S : \A l \in S : k <= l
  BY LeastNatural
<1>2. 2^m \in Nat /\ 2^k \in Nat /\ k # m
  BY <1>1, PowersOfTwo
<1>3. k - 1 \in Nat /\ m <= k - 1 /\ k - 1 \notin S /\ (k - 1) + 1 = k
  BY <1>1, <1>2
<1>4. 2^k = 2 * 2^(k - 1) /\ 2^(k - 1) \in Nat /\ 2^m <= 2^(k - 1)
  BY <1>3, PowersOfTwo
<1> QED BY <1>1, <1>2, <1>4

LEMMA OneOfAPair ==
  ASSUME NEW n \in Nat, NEW i \in 1..(2 * n)
  PROVE  \E j \in 1..n : i = 2 * j - 1 \/ i = 2 * j
<1>1. CASE i % 2 = 0
  BY <1>1
<1>2. CASE i % 2 = 1
  <2>1. (i + 1) \div 2 \in 1..n /\ i = 2 * ((i + 1) \div 2) - 1
    BY <1>2
  <2> QED BY <2>1
<1> QED BY <1>1, <1>2

LEMMA ShorterChain ==
  ASSUME NEW t, NEW n \in Nat, NEW m \in Nat, m <= n, ChainOf(t, n)
  PROVE  ChainOf(t, m)
<1>1. PICK c \in [1..n -> TemplatesOf(t)] :
        \A i \in 1..(n - 1) : IsPrefix(Ref[t[c[i]]], c[i + 1])
  BY DEF ChainOf
<1> DEFINE d == [i \in 1..m |-> c[i]]
<1>2. d \in [1..m -> TemplatesOf(t)]
  BY <1>1
<1>3. ASSUME NEW i \in 1..(m - 1) PROVE IsPrefix(Ref[t[d[i]]], d[i + 1])
  <2>1. i \in 1..(n - 1) /\ i \in 1..m /\ i + 1 \in 1..m
    OBVIOUS
  <2>2. d[i] = c[i] /\ d[i + 1] = c[i + 1]
    BY <2>1
  <2> QED BY <1>1, <2>1, <2>2
<1> HIDE DEF d
<1> QED BY <1>2, <1>3 DEF ChainOf

LEMMA ChainOfOne ==
  ASSUME NEW t
  PROVE  ChainOf(t, 1) <=> ContainsEvaluation(t)
<1>1. ASSUME NEW h \in TemplatesOf(t) PROVE ChainOf(t, 1)
  <2> DEFINE c == [i \in 1..1 |-> h]
  <2>1. c \in [1..1 -> TemplatesOf(t)] /\ 1..(1 - 1) = {}
    OBVIOUS
  <2> HIDE DEF c
  <2> QED BY <2>1 DEF ChainOf
<1>2. ASSUME ChainOf(t, 1) PROVE TemplatesOf(t) # {}
  <2>1. PICK c \in [1..1 -> TemplatesOf(t)] : TRUE
    BY <1>2 DEF ChainOf
  <2>2. c[1] \in TemplatesOf(t)
    BY <2>1
  <2> QED BY <2>2
<1> QED BY <1>1, <1>2 DEF ContainsEvaluation

-----------------------------------------------------------------------------
(***************************************************************************)
(* A template of the evaluated tree is two templates of the tree, of which *)
(* the first refers to where the second is: it stands under the first, and *)
(* is a copy of the second.                                                *)
(***************************************************************************)
First(t, q) == CHOOSE h \in TemplatesOf(t) : IsPrefix(h, q)
Second(t, q) == Ref[t[First(t, q)]] \o Rest(First(t, q), q)
Both(t, h, g) == h \o Rest(Ref[t[h]], g)

LEMMA TwoTemplates ==
  ASSUME NEW t, WellFormed(t), ~Missing(t, t), NEW q \in TemplatesOf(EvaluateNode(t, t))
  PROVE  /\ First(t, q) \in TemplatesOf(t) /\ IsPrefix(First(t, q), q)
         /\ Second(t, q) \in TemplatesOf(t) /\ IsPrefix(Ref[t[First(t, q)]], Second(t, q))
         /\ EvaluateNode(t, t)[q] = t[Second(t, q)]
<1> DEFINE o == EvaluateNode(t, t)
           h == First(t, q)
           r == Rest(h, q)
<1>1. h \in TemplatesOf(t) /\ IsPrefix(h, q)
  <2>1. \E k \in TemplatesOf(t) : IsPrefix(k, q)
    BY EvaluatedTemplates
  <2> QED BY <2>1 DEF First
<1>2. h \in Path /\ Ref[t[h]] \in Path /\ q \in Path
  <2>1. WellFormed(o)
    BY EvaluatedAt
  <2>2. q \in Path
    BY <2>1 DEF TemplatesOf, WellFormed
  <2> QED BY <1>1, <2>2, EvaluatedAt
<1> HIDE DEF h
<1>3. r \in Path /\ h \o r = q
  BY <1>1, <1>2, RestOf
<1> HIDE DEF r
<1>4. /\ Ref[t[h]] \o r \in TemplatesOf(t) <=> h \o r \in TemplatesOf(o)
      /\ h \o r \in TemplatesOf(o) => o[h \o r] = t[Ref[t[h]] \o r]
  <2>1. \A k \in TemplatesOf(t), x \in Path :
          /\ Ref[t[k]] \o x \in TemplatesOf(t) <=> k \o x \in TemplatesOf(o)
          /\ k \o x \in TemplatesOf(o) => o[k \o x] = t[Ref[t[k]] \o x]
    BY EvaluatedTemplates
  <2> HIDE DEF o
  <2> QED BY <1>1, <1>3, <2>1
<1>5. IsPrefix(Ref[t[h]], Ref[t[h]] \o r)
  BY <1>2, <1>3, Joined
<1>6. q \in TemplatesOf(o)
  OBVIOUS
<1> HIDE DEF o
<1>7. Ref[t[h]] \o r \in TemplatesOf(t) /\ o[q] = t[Ref[t[h]] \o r]
  BY <1>3, <1>4, <1>6, Zenon
<1> QED BY <1>1, <1>5, <1>7, Zenon DEF o, h, r, Second

LEMMA FirstReached ==
  ASSUME NEW t, WellFormed(t), ~Missing(t, t), NEW p \in TemplatesOf(EvaluateNode(t, t)),
         NEW q \in TemplatesOf(EvaluateNode(t, t)), IsPrefix(Ref[EvaluateNode(t, t)[p]], q)
  PROVE  IsPrefix(Ref[t[Second(t, p)]], First(t, q))
<1> DEFINE h == First(t, q)
           r == Ref[t[Second(t, p)]]
<1>1. h \in TemplatesOf(t) /\ IsPrefix(h, q) /\ IsPrefix(r, q)
  BY TwoTemplates
<1>2. h \in Path /\ r \in Path /\ r \in DOMAIN t
  BY <1>1, TwoTemplates, EvaluatedAt
<1>3. q \in Path
  <2>1. WellFormed(EvaluateNode(t, t))
    BY EvaluatedAt
  <2> QED BY <2>1 DEF TemplatesOf, WellFormed
<1> HIDE DEF h, r
<1>4. IsPrefix(r, h) \/ IsPrefix(h, r)
  BY <1>1, <1>2, <1>3, PrefixesOrdered
<1>5. IsPrefix(h, r) => h = r
  BY <1>1, <1>2, TemplatesAreLeaves
<1>6. IsPrefix(r, h)
  BY <1>2, <1>4, <1>5, PrefixSelf
<1> QED BY <1>6 DEF h, r

LEMMA OneForBoth ==
  ASSUME NEW t, WellFormed(t), ~Missing(t, t), NEW h \in TemplatesOf(t), NEW g \in TemplatesOf(t),
         IsPrefix(Ref[t[h]], g)
  PROVE  /\ Both(t, h, g) \in TemplatesOf(EvaluateNode(t, t)) /\ IsPrefix(h, Both(t, h, g))
         /\ EvaluateNode(t, t)[Both(t, h, g)] = t[g]
<1> DEFINE o == EvaluateNode(t, t)
           p == Ref[t[h]]
           r == Rest(p, g)
<1>1. h \in Path /\ p \in Path /\ g \in Path
  BY EvaluatedAt
<1>2. r \in Path /\ p \o r = g
  BY <1>1, RestOf
<1> HIDE DEF r
<1>3. /\ p \o r \in TemplatesOf(t) <=> h \o r \in TemplatesOf(o)
      /\ h \o r \in TemplatesOf(o) => o[h \o r] = t[p \o r]
  <2>1. \A k \in TemplatesOf(t), x \in Path :
          /\ Ref[t[k]] \o x \in TemplatesOf(t) <=> k \o x \in TemplatesOf(o)
          /\ k \o x \in TemplatesOf(o) => o[k \o x] = t[Ref[t[k]] \o x]
    BY EvaluatedTemplates
  <2> HIDE DEF o
  <2> QED BY <1>2, <2>1
<1>4. IsPrefix(h, h \o r)
  BY <1>1, <1>2, Joined
<1> HIDE DEF o
<1>5. h \o r \in TemplatesOf(o) /\ o[h \o r] = t[g]
  BY <1>2, <1>3, Zenon
<1> QED BY <1>4, <1>5, Zenon DEF o, p, r, Both

LEMMA ChainTwiceAsLong ==
  ASSUME NEW t, WellFormed(t), ~Missing(t, t), NEW n \in Nat, ChainOf(EvaluateNode(t, t), n)
  PROVE  ChainOf(t, 2 * n)
<1> DEFINE o == EvaluateNode(t, t)
<1>1. PICK c \in [1..n -> TemplatesOf(o)] :
        \A i \in 1..(n - 1) : IsPrefix(Ref[o[c[i]]], c[i + 1])
  BY DEF ChainOf
<1> DEFINE d == [i \in 1..(2 * n) |->
                   IF i % 2 = 1 THEN First(t, c[(i + 1) \div 2]) ELSE Second(t, c[i \div 2])]
<1>2. ASSUME NEW j \in 1..n
      PROVE  /\ 2 * j - 1 \in 1..(2 * n) /\ d[2 * j - 1] = First(t, c[j])
             /\ 2 * j \in 1..(2 * n) /\ d[2 * j] = Second(t, c[j])
             /\ c[j] \in TemplatesOf(o)
  <2>1. 2 * j - 1 \in 1..(2 * n) /\ (2 * j - 1) % 2 = 1 /\ ((2 * j - 1) + 1) \div 2 = j
    OBVIOUS
  <2>2. 2 * j \in 1..(2 * n) /\ (2 * j) % 2 # 1 /\ (2 * j) \div 2 = j
    OBVIOUS
  <2>3. c[j] \in TemplatesOf(o)
    BY <1>1
  <2> HIDE DEF o
  <2>4. d[2 * j - 1] = First(t, c[((2 * j - 1) + 1) \div 2]) /\ d[2 * j] = Second(t, c[(2 * j) \div 2])
    BY <2>1, <2>2
  <2> HIDE DEF d
  <2> QED BY <2>1, <2>2, <2>3, <2>4
<1>3. DOMAIN d = 1..(2 * n) /\ d = [i \in 1..(2 * n) |-> d[i]]
  OBVIOUS
<1> HIDE DEF d, o
<1>4. ASSUME NEW i \in 1..(2 * n) PROVE d[i] \in TemplatesOf(t)
  <2>1. PICK j \in 1..n : i = 2 * j - 1 \/ i = 2 * j
    BY OneOfAPair
  <2>2. First(t, c[j]) \in TemplatesOf(t) /\ Second(t, c[j]) \in TemplatesOf(t)
    BY <1>2, TwoTemplates DEF o
  <2> QED BY <1>2, <2>1, <2>2
<1>5. d \in [1..(2 * n) -> TemplatesOf(t)]
  BY <1>3, <1>4
<1>6. ASSUME NEW i \in 1..(2 * n - 1) PROVE IsPrefix(Ref[t[d[i]]], d[i + 1])
  <2>1. PICK j \in 1..n : i = 2 * j - 1 \/ i = 2 * j
    <3>1. 2 * n \in Nat /\ i \in 1..(2 * n)
      OBVIOUS
    <3> QED BY <3>1, OneOfAPair
  <2>2. CASE i = 2 * j - 1
    <3>1. d[i] = First(t, c[j]) /\ d[i + 1] = Second(t, c[j])
      <4>1. i + 1 = 2 * j
        BY <2>2
      <4> QED BY <1>2, <2>2, <4>1
    <3> QED BY <1>2, <3>1, TwoTemplates DEF o
  <2>3. CASE i = 2 * j
    <3>1. j \in 1..(n - 1) /\ j + 1 \in 1..n /\ i + 1 = 2 * (j + 1) - 1
      BY <2>3
    <3>2. d[i] = Second(t, c[j]) /\ d[i + 1] = First(t, c[j + 1])
      BY <1>2, <2>3, <3>1
    <3>3. IsPrefix(Ref[o[c[j]]], c[j + 1])
      BY <1>1, <3>1
    <3>4. c[j] \in TemplatesOf(o) /\ c[j + 1] \in TemplatesOf(o)
      BY <1>2, <3>1
    <3> QED BY <3>2, <3>3, <3>4, FirstReached DEF o
  <2> QED BY <2>1, <2>2, <2>3
<1> QED BY <1>5, <1>6 DEF ChainOf

LEMMA ChainHalfAsLong ==
  ASSUME NEW t, WellFormed(t), ~Missing(t, t), NEW n \in Nat, ChainOf(t, 2 * n)
  PROVE  ChainOf(EvaluateNode(t, t), n)
<1> DEFINE o == EvaluateNode(t, t)
<1>1. PICK d \in [1..(2 * n) -> TemplatesOf(t)] :
        \A i \in 1..(2 * n - 1) : IsPrefix(Ref[t[d[i]]], d[i + 1])
  BY DEF ChainOf
<1> DEFINE c == [j \in 1..n |-> Both(t, d[2 * j - 1], d[2 * j])]
<1>2. ASSUME NEW j \in 1..n
      PROVE  /\ d[2 * j - 1] \in TemplatesOf(t) /\ d[2 * j] \in TemplatesOf(t)
             /\ c[j] \in TemplatesOf(o) /\ IsPrefix(d[2 * j - 1], c[j]) /\ o[c[j]] = t[d[2 * j]]
  <2>1. 2 * j - 1 \in 1..(2 * n - 1) /\ 2 * j - 1 \in 1..(2 * n) /\ 2 * j \in 1..(2 * n)
        /\ (2 * j - 1) + 1 = 2 * j
    OBVIOUS
  <2>2. /\ d[2 * j - 1] \in TemplatesOf(t) /\ d[2 * j] \in TemplatesOf(t)
        /\ IsPrefix(Ref[t[d[2 * j - 1]]], d[2 * j])
    <3>1. IsPrefix(Ref[t[d[2 * j - 1]]], d[(2 * j - 1) + 1])
      BY <1>1, <2>1
    <3> QED BY <1>1, <2>1, <3>1
  <2>3. c[j] = Both(t, d[2 * j - 1], d[2 * j])
    OBVIOUS
  <2> HIDE DEF c
  <2> QED BY <2>2, <2>3, OneForBoth
<1> HIDE DEF o
<1>3. c \in [1..n -> TemplatesOf(o)]
  BY <1>2
<1> HIDE DEF c
<1>4. ASSUME NEW j \in 1..(n - 1) PROVE IsPrefix(Ref[o[c[j]]], c[j + 1])
  <2>1. j \in 1..n /\ j + 1 \in 1..n /\ 2 * j \in 1..(2 * n - 1) /\ 2 * (j + 1) - 1 = 2 * j + 1
    OBVIOUS
  <2> DEFINE p == Ref[o[c[j]]]
             q == d[2 * j + 1]
  <2>2. o[c[j]] = t[d[2 * j]] /\ d[2 * j] \in TemplatesOf(t)
    BY <1>2, <2>1
  <2>3. IsPrefix(p, q)
    BY <1>1, <2>1, <2>2
  <2>4. q \in TemplatesOf(t) /\ IsPrefix(q, c[j + 1]) /\ c[j + 1] \in TemplatesOf(o)
    BY <1>2, <2>1
  <2>5. p \in Path /\ q \in Path
    BY <2>2, <2>4, EvaluatedAt
  <2>6. c[j + 1] \in Path
    <3>1. WellFormed(o)
      BY EvaluatedAt DEF o
    <3> QED BY <2>4, <3>1 DEF TemplatesOf, WellFormed
  <2> HIDE DEF p, q
  <2>7. IsPrefix(p, c[j + 1])
    BY <2>3, <2>4, <2>5, <2>6, PrefixTransitive
  <2> QED BY <2>7 DEF p
<1> QED BY <1>3, <1>4 DEF ChainOf, o

LEMMA Halved ==
  ASSUME NEW t, WellFormed(t), ~Missing(t, t), NEW n \in Nat
  PROVE  ChainOf(EvaluateNode(t, t), 2^n) <=> ChainOf(t, 2^(n + 1))
<1>1. 2^n \in Nat /\ 2^(n + 1) = 2 * 2^n
  BY PowersOfTwo
<1> QED BY <1>1, ChainTwiceAsLong, ChainHalfAsLong

\* A tree that evaluates to itself has a chain of any length, or no template.
LEMMA NeverShorter ==
  ASSUME NEW t, WellFormed(t), ~Missing(t, t), EvaluateNode(t, t) = t, ContainsEvaluation(t)
  PROVE  \A n \in Nat : ChainOf(t, 2^n)
<1> DEFINE S == {n \in Nat : ~ChainOf(t, 2^n)}
<1> SUFFICES ASSUME S # {} PROVE FALSE
  OBVIOUS
<1>1. PICK m \in S : \A n \in S : m <= n
  BY LeastNatural
<1>2. m # 0
  BY <1>1, PowersOfTwo, ChainOfOne
<1>3. m - 1 \in Nat /\ m - 1 \notin S /\ (m - 1) + 1 = m
  BY <1>1, <1>2
<1>4. ChainOf(t, 2^(m - 1)) <=> ChainOf(t, 2^m)
  BY <1>3, Halved
<1> QED BY <1>1, <1>3, <1>4

-----------------------------------------------------------------------------
(***************************************************************************)
(* After depth rounds, the tree has a chain of 2^n templates exactly when  *)
(* the snapshot has one of 2^(n + depth).                                  *)
(***************************************************************************)
Halves(k) == \A n \in Nat : ChainOf(k.tree, 2^n) <=> ChainOf(k.snapshot, 2^(n + k.depth))

RoundsHalve == \A g \in Goroutines : task[g].at = "round" => Halves(task[g])

LEMMA RoundType ==
  ASSUME TypeOK, NEW g \in Goroutines, task[g].at = "round"
  PROVE  /\ InterpolateOK(task[g])
         /\ WellFormed(task[g].snapshot) /\ WellFormed(task[g].tree)
         /\ task[g].depth \in Nat /\ task[g].maxDepth \in Nat /\ task[g].depth < task[g].maxDepth
<1>1. /\ InterpolateOK(task[g])
      /\ WellFormed(task[g].snapshot) /\ WellFormed(task[g].tree)
  BY InterpolatingType DEF Interpolating
<1>2. task[g].maxDepth \in MaxDepths /\ task[g].depth \in 0..(task[g].maxDepth - 1)
  BY <1>1 DEF InterpolateOK
<1> DEFINE d == task[g].depth
           m == task[g].maxDepth
<1>3. m \in Nat /\ d \in 0..(m - 1)
  BY <1>2, InputsAssumption
<1> HIDE DEF d, m
<1>4. d \in Nat /\ m \in Nat /\ d < m
  BY <1>3
<1> QED BY <1>1, <1>4 DEF d, m

\* One round more: chains of 2^n are left where there were some of 2^(n + 1).
LEMMA OneRoundMore ==
  ASSUME NEW k, WellFormed(k.tree), k.depth \in Nat, ~Missing(k.tree, k.tree), Halves(k), NEW n \in Nat
  PROVE  ChainOf(EvaluateNode(k.tree, k.tree), 2^n) <=> ChainOf(k.snapshot, 2^(n + (k.depth + 1)))
<1>1. ChainOf(EvaluateNode(k.tree, k.tree), 2^n) <=> ChainOf(k.tree, 2^(n + 1))
  BY Halved
<1>2. ChainOf(k.tree, 2^(n + 1)) <=> ChainOf(k.snapshot, 2^((n + 1) + k.depth))
  BY DEF Halves
<1>3. (n + 1) + k.depth = n + (k.depth + 1)
  OBVIOUS
<1> QED BY <1>1, <1>2, <1>3

LEMMA SpecRoundsHalve == Spec => []RoundsHalve
<1>1. Init => RoundsHalve
  BY DEF Init, RoundsHalve, Idle
<1>2. TypeOK /\ RoundsHalve /\ [Next]_vars => RoundsHalve'
  <2> SUFFICES ASSUME TypeOK, RoundsHalve, [Next]_vars,
                      NEW h \in Goroutines, task'[h].at = "round"
               PROVE  Halves(task'[h])
    BY DEF RoundsHalve, Halves, ChainOf, TemplatesOf
  <2>1. CASE UNCHANGED vars
    BY <2>1 DEF vars, RoundsHalve
  <2>2. ASSUME NEW g \in Goroutines, InterpolateStep(g)
        PROVE  Halves(task'[h])
    <3>1. CASE h # g
      <4>1. task'[h] = task[h]
        BY <2>2, <3>1 DEF InterpolateStep, OthersKeep
      <4> QED BY <4>1 DEF RoundsHalve
    <3>2. CASE h = g /\ Started(task'[g])
      <4>1. task'[h].tree = task'[h].snapshot /\ task'[h].depth = 0
        BY <3>2 DEF Started
      <4>2. \A n \in Nat : n + 0 = n
        OBVIOUS
      <4> QED BY <4>1, <4>2 DEF Halves
    <3>3. CASE h = g /\ Advanced(task[g], task'[g])
      <4> DEFINE k == task[g]
                 l == task'[g]
      <4>1. k.at = "round" /\ ~Missing(k.tree, k.tree)
        BY <3>3 DEF Advanced
      <4>2. WellFormed(k.tree) /\ k.depth \in Nat /\ Halves(k)
        BY <4>1, RoundType DEF RoundsHalve
      <4>3. l.tree = EvaluateNode(k.tree, k.tree) /\ l.snapshot = k.snapshot /\ l.depth = k.depth + 1
        BY <3>3 DEF Advanced
      <4> HIDE DEF k, l
      <4>4. Halves(l)
        BY <4>1, <4>2, <4>3, OneRoundMore DEF Halves
      <4> QED BY <3>3, <4>4 DEF l
    <3> QED BY <2>2, <3>1, <3>2, <3>3 DEF InterpolateStep, Interpolating
  <2> QED BY <2>1, <2>2, Steps DEF Next
<1> QED BY <1>1, <1>2, TypeCorrect, PTL DEF Spec

\* Only a round of its own ends the rounds of a call.
LEMMA RoundsEndInARound ==
  ASSUME TypeOK, NEW g \in Goroutines, task[g].at = "round", task'[g].at # "round", Next
  PROVE  InterpolateRound(g)
<1>1. PICK h \in Goroutines : Call(h) \/ Proceed(h)
  BY DEF Next
<1>2. h = g
  BY <1>1, Steps DEF InterpolateStep, OthersKeep
<1>3. Call(g) => task[g] = Idle
  BY DEF Call, Delete, GetValue, SetValue, AppendValue, MergeValue, LoadGet, InterpolateSnapshot
<1>4. task[g] # Idle
  BY DEF Idle
<1> QED BY <1>1, <1>2, <1>3, <1>4 DEF Proceed, LoadCheckRoot, LoadSet, InterpolatePublish

LEMMA LastRound ==
  ASSUME TypeOK, RoundsHalve, NEW g \in Goroutines, InterpolateRound(g), task[g].recursive,
         task'[g].at # "round", result'[g] # "missing"
  PROVE  task'[g] = Idle <=> ChainOf(task[g].snapshot, 2^task[g].maxDepth)
<1> DEFINE k == task[g]
           s == k.snapshot
           t == k.tree
           d == k.depth
           m == k.maxDepth
           next == EvaluateNode(t, t)
<1>1. k.at = "round" /\ InterpolateOK(k)
  BY RoundOutcome
<1>2. /\ WellFormed(t) /\ d \in Nat /\ m \in Nat /\ d < m
      /\ Halves(k)
  BY <1>1, RoundType DEF RoundsHalve
<1>3. \/ Missing(t, t) /\ Return(g, "missing")
      \/ /\ ~Missing(t, t) /\ ~ContainsEvaluation(next)
         /\ Continue(g, [k EXCEPT !.at = "publish", !.tree = next])
      \/ /\ ~Missing(t, t) /\ ContainsEvaluation(next) /\ (t = next \/ d + 1 >= m)
         /\ Return(g, "cycleDetected")
      \/ /\ ~Missing(t, t)
         /\ Continue(g, [k EXCEPT !.tree = next, !.depth = @ + 1])
  BY RoundOutcome
<1>4. /\ \A err : Return(g, err) => task'[g] = Idle /\ result'[g] = err
      /\ \A l : Continue(g, l) => task'[g] = l
  BY DEF TypeOK, Return, Continue
<1>5. [k EXCEPT !.tree = next, !.depth = @ + 1].at = "round"
  BY <1>1 DEF InterpolateOK
<1>6. [k EXCEPT !.at = "publish", !.tree = next].at = "publish"
  BY <1>1 DEF InterpolateOK
<1> HIDE DEF k, s, t, d, m, next
<1>7. ~Missing(t, t) => (ContainsEvaluation(next) <=> ChainOf(s, 2^(d + 1)))
  <2> SUFFICES ASSUME ~Missing(t, t) PROVE ContainsEvaluation(next) <=> ChainOf(s, 2^(d + 1))
    OBVIOUS
  <2>1. ChainOf(next, 2^0) <=> ChainOf(s, 2^(0 + (d + 1)))
    BY <1>2, OneRoundMore DEF k, s, t, d, next
  <2>2. 2^0 = 1 /\ 0 + (d + 1) = d + 1
    BY <1>2, PowersOfTwo
  <2> QED BY <2>1, <2>2, ChainOfOne
<1>8. CASE /\ ~Missing(t, t) /\ ~ContainsEvaluation(next)
           /\ Continue(g, [k EXCEPT !.at = "publish", !.tree = next])
  <2>1. task'[g] # Idle
    <3> DEFINE l == [k EXCEPT !.at = "publish", !.tree = next]
    <3>1. Continue(g, l) /\ l.at = "publish"
      BY <1>6, <1>8
    <3> HIDE DEF l
    <3>2. task'[g] = l
      BY <1>4, <3>1
    <3> QED BY <3>1, <3>2 DEF Idle
  <2>2. ~ChainOf(s, 2^m)
    <3>1. 2^(d + 1) \in Nat /\ 2^m \in Nat /\ 2^(d + 1) <= 2^m
      BY <1>2, LargerPower, PowersOfTwo
    <3> QED BY <1>7, <1>8, <3>1, ShorterChain
  <2> QED BY <2>1, <2>2 DEF k, s, m
<1>9. CASE /\ ~Missing(t, t) /\ ContainsEvaluation(next) /\ (t = next \/ d + 1 >= m)
           /\ Return(g, "cycleDetected")
  <2>1. task'[g] = Idle
    BY <1>4, <1>9
  <2>2. CASE d + 1 >= m
    <3>1. d + 1 = m
      BY <1>2, <2>2
    <3> QED BY <1>7, <1>9, <2>1, <3>1 DEF k, s, m
  <2>3. CASE t = next
    <3>1. m - d \in Nat /\ (m - d) + d = m
      BY <1>2
    <3>2. ChainOf(t, 2^(m - d))
      BY <1>2, <1>9, <2>3, <3>1, NeverShorter DEF next
    <3>3. ChainOf(s, 2^((m - d) + d))
      BY <1>2, <3>1, <3>2 DEF Halves, k, s, t, d
    <3> QED BY <2>1, <3>1, <3>3 DEF k, s, m
  <2> QED BY <1>9, <2>2, <2>3
<1>10. ~(Missing(t, t) /\ Return(g, "missing"))
  BY <1>4
<1>11. ~Continue(g, [k EXCEPT !.tree = next, !.depth = @ + 1])
  BY <1>4, <1>5
<1> QED BY <1>3, <1>8, <1>9, <1>10, <1>11

(***************************************************************************)
(* Interpolate answers that it detected a cycle, rather than with a tree,  *)
(* exactly when 2^maxDepth templates of the snapshot refer to one another  *)
(* in a row: it never gives up on fewer, and never succeeds on more.       *)
(***************************************************************************)
THEOREM CyclesAreLongChains == Spec => CycleMeansLongChain
<1>1. ASSUME TypeOK, RoundsHalve, NEW g \in Goroutines, Next,
             task[g].at = "round" /\ task[g].recursive,
             task'[g].at # "round" /\ result'[g] # "missing"
      PROVE  task'[g] = Idle <=> ChainOf(task[g].snapshot, 2^task[g].maxDepth)
  BY <1>1, RoundsEndInARound, LastRound
<1>2. TypeOK /\ RoundsHalve /\ [Next]_vars
        => [\A g \in Goroutines :
              /\ task[g].at = "round" /\ task[g].recursive
              /\ task'[g].at # "round" /\ result'[g] # "missing"
              => (task'[g] = Idle <=> ChainOf(task[g].snapshot, 2^task[g].maxDepth))]_vars
  BY <1>1
<1> QED BY <1>2, TypeCorrect, SpecRoundsHalve, PTL DEF Spec, CycleMeansLongChain

-----------------------------------------------------------------------------
LEMMA Busy ==
  ASSUME TypeOK, NEW g \in Goroutines
  PROVE  /\ StepsLeft(task[g]) \in Nat
         /\ task[g] # Idle => StepsLeft(task[g]) > 0
<1>1. TaskOK(task[g])
  BY DEF TypeOK
<1>2. CASE task[g].at = "round"
  <2> DEFINE d == task[g].depth
             m == task[g].maxDepth
  <2>1. d \in Nat /\ m \in Nat /\ d < m
    BY <1>2, RoundType
  <2>2. StepsLeft(task[g]) = m - d + 1
    BY <1>2 DEF StepsLeft
  <2> HIDE DEF d, m
  <2> QED BY <2>1, <2>2
<1>3. CASE task[g].at # "round"
  BY <1>1, <1>3 DEF TaskOK, LoadOK, InterpolateOK, Idle, StepsLeft
<1> QED BY <1>2, <1>3

LEMMA ProceedIsCloser ==
  ASSUME TypeOK, NEW g \in Goroutines, Proceed(g)
  PROVE  StepsLeft(task'[g]) \in Nat /\ StepsLeft(task'[g]) < StepsLeft(task[g])
<1>1. /\ \A err : Return(g, err) => StepsLeft(task'[g]) = 0
      /\ \A l : Continue(g, l) => task'[g] = l
  BY DEF TypeOK, Return, Continue, StepsLeft, Idle
<1>2. CASE LoadCheckRoot(g)
  <2>1. StepsLeft(task[g]) = 2
    BY <1>2 DEF LoadCheckRoot, StepsLeft
  <2> DEFINE l == [at |-> "load", path |-> <<>>, value |-> task[g].value]
  <2>2. StepsLeft(l) = 1
    BY DEF StepsLeft
  <2>3. (\E err : Return(g, err)) \/ Continue(g, l)
    BY <1>2 DEF LoadCheckRoot
  <2> HIDE DEF l
  <2> QED BY <1>1, <2>1, <2>2, <2>3
<1>3. CASE LoadSet(g)
  <2>1. StepsLeft(task[g]) = 1 /\ \E err : Return(g, err)
    BY <1>3 DEF LoadSet, StepsLeft
  <2> QED BY <1>1, <2>1
<1>4. CASE InterpolatePublish(g)
  <2>1. StepsLeft(task[g]) = 1 /\ \E err : Return(g, err)
    BY <1>4 DEF InterpolatePublish, StepsLeft
  <2> QED BY <1>1, <2>1
<1>5. CASE InterpolateRound(g)
  <2> DEFINE k == task[g]
             d == k.depth
             m == k.maxDepth
             next == EvaluateNode(k.tree, k.tree)
             last == [k EXCEPT !.at = "publish", !.tree = next]
             more == [k EXCEPT !.tree = next, !.depth = @ + 1]
  <2>1. /\ k.at = "round" /\ InterpolateOK(k)
        /\ (\E err : Return(g, err)) \/ Continue(g, last) \/ Continue(g, more)
    BY <1>5, RoundOutcome
  <2>2. d \in Nat /\ m \in Nat /\ d < m
    BY <2>1, RoundType
  <2>3. StepsLeft(k) = m - d + 1
    BY <2>1 DEF StepsLeft
  <2>4. StepsLeft(last) = 1
    BY <2>1 DEF StepsLeft, InterpolateOK
  <2>5. StepsLeft(more) = m - (d + 1) + 1
    <3>1. more.at = "round" /\ more.maxDepth = m /\ more.depth = d + 1
      BY <2>1 DEF InterpolateOK
    <3> HIDE DEF more
    <3> QED BY <3>1 DEF StepsLeft
  <2> HIDE DEF last, more, d, m
  <2>6. StepsLeft(task'[g]) \in {0, 1, m - (d + 1) + 1}
    BY <1>1, <2>1, <2>4, <2>5
  <2> QED BY <2>2, <2>3, <2>6
<1> QED BY <1>2, <1>3, <1>4, <1>5 DEF Proceed

(***************************************************************************)
(* Every call comes to an end after a number of its own steps that is      *)
(* known when it begins, for Interpolate one round for each of maxDepth    *)
(* and one step more, and nothing other goroutines do adds to them: what   *)
(* remains of CallsReturn is that the scheduler lets each goroutine run.   *)
(***************************************************************************)
THEOREM CallsAreShort == Spec => CallsComeToAnEnd
<1>1. ASSUME TypeOK, Next, NEW g \in Goroutines
      PROVE  /\ Proceed(g) => StepsLeft(task'[g]) < StepsLeft(task[g])
             /\ task[g] # Idle =>
                  StepsLeft(task[g]) > 0 /\ StepsLeft(task'[g]) <= StepsLeft(task[g])
  <2>1. StepsLeft(task[g]) \in Nat /\ (task[g] # Idle => StepsLeft(task[g]) > 0)
    BY <1>1, Busy
  <2>2. Proceed(g) => StepsLeft(task'[g]) < StepsLeft(task[g])
    BY <1>1, ProceedIsCloser
  <2>3. task[g] = Idle \/ Proceed(g) \/ task'[g] = task[g]
    <3>1. PICK h \in Goroutines : Call(h) \/ Proceed(h)
      BY <1>1 DEF Next
    <3>2. h # g => task'[g] = task[g]
      BY <1>1, <3>1, Steps DEF InterpolateStep, OthersKeep
    <3>3. Call(g) => task[g] = Idle
      BY DEF Call, Delete, GetValue, SetValue, AppendValue, MergeValue, LoadGet, InterpolateSnapshot
    <3> QED BY <3>1, <3>2, <3>3
  <2>4. task'[g] = task[g] => StepsLeft(task'[g]) = StepsLeft(task[g])
    OBVIOUS
  <2>5. Proceed(g) => StepsLeft(task'[g]) <= StepsLeft(task[g])
    <3>1. Proceed(g) => StepsLeft(task'[g]) \in Nat
      BY <1>1, ProceedIsCloser
    <3> QED BY <2>1, <2>2, <3>1
  <2> QED BY <2>1, <2>2, <2>3, <2>4, <2>5
<1>2. TypeOK /\ [Next]_vars
        => [\A g \in Goroutines :
              /\ Proceed(g) => StepsLeft(task'[g]) < StepsLeft(task[g])
              /\ task[g] # Idle =>
                   StepsLeft(task[g]) > 0 /\ StepsLeft(task'[g]) <= StepsLeft(task[g])]_vars
  BY <1>1
<1> QED BY <1>2, TypeCorrect, PTL DEF Spec, CallsComeToAnEnd

-----------------------------------------------------------------------------
(***************************************************************************)
(* A node of the evaluated tree is a node of the tree that is kept, or one *)
(* of those that a template refers to: there are no more than pairs.       *)
(***************************************************************************)
Origin(t, q) ==
  IF \E h \in TemplatesOf(t) : IsPrefix(h, q) THEN <<First(t, q), Second(t, q)>> ELSE <<q, q>>

LEMMA UnderATemplate ==
  ASSUME NEW t, WellFormed(t), ~Missing(t, t), NEW q \in DOMAIN EvaluateNode(t, t),
         \E h \in TemplatesOf(t) : IsPrefix(h, q)
  PROVE  /\ First(t, q) \in TemplatesOf(t) /\ First(t, q) \in Path /\ IsPrefix(First(t, q), q)
         /\ Ref[t[First(t, q)]] \in Path /\ Rest(First(t, q), q) \in Path
         /\ First(t, q) \o Rest(First(t, q), q) = q
         /\ Second(t, q) \in DOMAIN t
<1> DEFINE o == EvaluateNode(t, t)
           h == First(t, q)
           r == Rest(h, q)
<1>1. h \in TemplatesOf(t) /\ IsPrefix(h, q)
  BY DEF First
<1>2. h \in Path /\ Ref[t[h]] \in Path /\ q \in Path
  <2>1. WellFormed(o)
    BY EvaluatedAt
  <2>2. q \in Path
    BY <2>1 DEF WellFormed
  <2> QED BY <1>1, <2>2, EvaluatedAt
<1> HIDE DEF h
<1>3. r \in Path /\ h \o r = q
  BY <1>1, <1>2, RestOf
<1> HIDE DEF r
<1>4. h \o r \in DOMAIN o <=> Ref[t[h]] \o r \in DOMAIN t
  BY <1>1, <1>3, EvaluatedAt
<1>5. q \in DOMAIN o
  OBVIOUS
<1> HIDE DEF o
<1>6. Ref[t[h]] \o r \in DOMAIN t
  BY <1>3, <1>4, <1>5, Zenon
<1> QED BY <1>1, <1>2, <1>3, <1>6, Zenon DEF h, r, Second

LEMMA OriginsDiffer ==
  ASSUME NEW t, WellFormed(t), ~Missing(t, t), NEW p \in DOMAIN EvaluateNode(t, t),
         NEW q \in DOMAIN EvaluateNode(t, t), Origin(t, p) = Origin(t, q)
  PROVE  p = q
<1> DEFINE below(x) == \E h \in TemplatesOf(t) : IsPrefix(h, x)
<1>1. ASSUME NEW x, below(x) PROVE Origin(t, x) = <<First(t, x), Second(t, x)>>
  BY <1>1 DEF Origin
<1>2. ASSUME NEW x, ~below(x) PROVE Origin(t, x) = <<x, x>>
  BY <1>2 DEF Origin
<1>3. CASE below(p) /\ below(q)
  <2> DEFINE h == First(t, p)
             s == Ref[t[h]]
             r == Rest(h, p)
             z == Rest(h, q)
  <2>1. First(t, q) = h /\ Second(t, p) = Second(t, q)
    BY <1>1, <1>3
  <2>2. s \in Path /\ r \in Path /\ z \in Path /\ h \o r = p /\ h \o z = q
    BY <1>3, <2>1, UnderATemplate
  <2>3. s \o r = s \o z
    BY <2>1, Zenon DEF Second
  <2> HIDE DEF h, s, r, z
  <2>4. Rest(s, s \o r) = r /\ Rest(s, s \o z) = z
    BY <2>2, Joined
  <2> QED BY <2>2, <2>3, <2>4, Zenon
<1>4. CASE ~below(p) /\ ~below(q)
  BY <1>2, <1>4
<1>5. ASSUME NEW x \in DOMAIN EvaluateNode(t, t), NEW y, below(x), ~below(y)
      PROVE  Origin(t, x) # Origin(t, y)
  <2>1. First(t, x) \in TemplatesOf(t) /\ First(t, x) \in Path
    BY <1>5, UnderATemplate
  <2>2. below(First(t, x))
    BY <2>1, PrefixSelf
  <2>3. First(t, x) # y
    BY <1>5, <2>2
  <2> QED BY <1>1, <1>2, <1>5, <2>3
<1> QED BY <1>3, <1>4, <1>5

LEMMA AtMostSquared ==
  ASSUME NEW t, WellFormed(t), ~Missing(t, t)
  PROVE  Cardinality(DOMAIN EvaluateNode(t, t)) <= Cardinality(DOMAIN t) * Cardinality(DOMAIN t)
<1> DEFINE o == EvaluateNode(t, t)
           D == DOMAIN t
           O == DOMAIN o
           F == [q \in O |-> Origin(t, q)]
<1>1. IsFiniteSet(D) /\ IsFiniteSet(O)
  BY EvaluatedAt DEF WellFormed
<1>2. IsFiniteSet(D \X D) /\ Cardinality(D \X D) = Cardinality(D) * Cardinality(D)
  BY <1>1, FS_Product
<1>3. ASSUME NEW q \in O PROVE Origin(t, q) \in D \X D
  <2>1. CASE \E h \in TemplatesOf(t) : IsPrefix(h, q)
    BY <2>1, UnderATemplate DEF Origin, TemplatesOf
  <2>2. CASE ~(\E h \in TemplatesOf(t) : IsPrefix(h, q))
    <3>1. WellFormed(o) /\ q \in Path
      BY EvaluatedAt DEF WellFormed
    <3>2. q \in D
      BY <2>2, <3>1, EvaluatedAt
    <3> QED BY <2>2, <3>2 DEF Origin
  <2> QED BY <2>1, <2>2
<1>4. \A p, q \in O : Origin(t, p) = Origin(t, q) => p = q
  BY OriginsDiffer
<1>5. F \in Injection(O, D \X D)
  <2>1. F \in [O -> D \X D] /\ DOMAIN F = O /\ \A q \in O : F[q] = Origin(t, q)
    BY <1>3
  <2> HIDE DEF F, O, D
  <2>2. IsInjective(F)
    BY <1>4, <2>1 DEF IsInjective
  <2> QED BY <2>1, <2>2 DEF Injection
<1> HIDE DEF F, O, D
<1>6. Cardinality(O) <= Cardinality(D \X D)
  BY <1>1, <1>2, <1>5, FS_Injection DEF ExistsInjection
<1> QED BY <1>2, <1>6 DEF O, D, o

(***************************************************************************)
(* References to containers that hold references make the tree of an       *)
(* Interpolate grow, but in each of its at most maxDepth rounds to no more *)
(* than the square of the number of its nodes.                             *)
(***************************************************************************)
THEOREM GrowthIsBounded == Spec => RoundsAtMostSquare
<1>1. ASSUME TypeOK, NEW g \in Goroutines, InterpolateRound(g), task'[g] # Idle
      PROVE  Cardinality(DOMAIN task'[g].tree)
               <= Cardinality(DOMAIN task[g].tree) * Cardinality(DOMAIN task[g].tree)
  <2> DEFINE k == task[g]
             next == EvaluateNode(k.tree, k.tree)
             last == [k EXCEPT !.at = "publish", !.tree = next]
             more == [k EXCEPT !.tree = next, !.depth = @ + 1]
  <2>1. /\ k.at = "round" /\ InterpolateOK(k)
        /\ \/ \E err : Return(g, err)
           \/ ~Missing(k.tree, k.tree) /\ (Continue(g, last) \/ Continue(g, more))
    BY <1>1, RoundOutcome
  <2>2. last.tree = next /\ more.tree = next
    BY <2>1 DEF InterpolateOK
  <2>3. /\ \A err : ~Return(g, err)
        /\ \A l : Continue(g, l) => task'[g] = l
    BY <1>1 DEF TypeOK, Return, Continue
  <2>4. WellFormed(k.tree)
    BY <1>1, <2>1, RoundType
  <2> HIDE DEF last, more, k
  <2>5. ~Missing(k.tree, k.tree) /\ task'[g].tree = next
    BY <2>1, <2>2, <2>3
  <2>6. Cardinality(DOMAIN next) <= Cardinality(DOMAIN k.tree) * Cardinality(DOMAIN k.tree)
    BY <2>4, <2>5, AtMostSquared
  <2> QED BY <2>5, <2>6 DEF k
<1>2. TypeOK /\ [Next]_vars
        => [\A g \in Goroutines :
              InterpolateRound(g) /\ task'[g] # Idle
                => Cardinality(DOMAIN task'[g].tree)
                     <= Cardinality(DOMAIN task[g].tree) * Cardinality(DOMAIN task[g].tree)]_vars
  BY <1>1
<1> QED BY <1>2, TypeCorrect, PTL DEF Spec, RoundsAtMostSquare

=============================================================================
