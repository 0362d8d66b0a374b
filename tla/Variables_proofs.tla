--------------------------- MODULE Variables_proofs ---------------------------
(***************************************************************************)
(* The container is sound for any number of goroutines, whatever they do   *)
(* in whatever order: its tree stays one a Value can be, a target that has *)
(* been found can be written back, and a load with ErrorOnConflict         *)
(* overwrites only what another goroutine has put there in the meantime.   *)
(***************************************************************************)
EXTENDS Variables, Interpolation_proofs

Shape ==
  /\ task = [g \in Goroutines |-> task[g]]
  /\ \A g \in Goroutines : "at" \in DOMAIN task[g]

\* A task that is not about to write what it has loaded.
Unrelated(next) == "at" \in DOMAIN next /\ next.at # "load"

\* What a step does to the goroutines that do not take it.
OthersKeep(g) ==
  \A h \in Goroutines \ {g} :
    /\ task'[h] = task[h]
    /\ h \in overlapped => task[h] = Idle \/ h \in overlapped'
    /\ root' # root => task[h] = Idle \/ h \in overlapped'

LEMMA OneStep ==
  ASSUME Shape, ConflictCheckHolds, NEW g \in Goroutines, Shape', OthersKeep(g),
         task'[g].at = "load" => ~Occupied(root', task'[g].path)
  PROVE  ConflictCheckHolds'
<1> SUFFICES ASSUME NEW h \in Goroutines, task'[h].at = "load", h \notin overlapped'
             PROVE  ~Occupied(root', task'[h].path)
  BY DEF ConflictCheckHolds, Occupied, RootHasValue, Exists, Slots, Under
<1>1. CASE h = g
  BY <1>1
<1>2. CASE h # g
  BY <1>2 DEF OthersKeep, ConflictCheckHolds, Idle
<1> QED BY <1>1, <1>2

LEMMA Returned ==
  ASSUME Shape, NEW g \in Goroutines, NEW err, Return(g, err)
  PROVE  Shape' /\ task'[g].at # "load" /\ \A h \in Goroutines \ {g} : task'[h] = task[h]
  BY DEF Shape, Return, Idle

LEMMA Continued ==
  ASSUME Shape, NEW g \in Goroutines, NEW next, Continue(g, next), "at" \in DOMAIN next
  PROVE  Shape' /\ task'[g] = next /\ \A h \in Goroutines \ {g} : task'[h] = task[h]
  BY DEF Shape, Continue

LEMMA Wrote ==
  ASSUME NEW t, WriteRoot(t), NEW g \in Goroutines,
         \A h \in Goroutines \ {g} : task'[h] = task[h]
  PROVE  OthersKeep(g)
  BY DEF WriteRoot, OthersKeep

LEMMA OnlyRead ==
  ASSUME NEW g \in Goroutines, UNCHANGED root, overlapped' = overlapped \/ Look(g),
         \A h \in Goroutines \ {g} : task'[h] = task[h]
  PROVE  OthersKeep(g)
  BY DEF Look, OthersKeep

LEMMA NextHolds == Shape /\ ConflictCheckHolds /\ [Next]_vars => (Shape /\ ConflictCheckHolds)'
<1> SUFFICES ASSUME Shape, ConflictCheckHolds, [Next]_vars
             PROVE  (Shape /\ ConflictCheckHolds)'
  OBVIOUS
<1>1. ASSUME NEW g \in Goroutines, NEW p \in Paths, Delete(g, p) \/ GetValue(g, p)
      PROVE  (Shape /\ ConflictCheckHolds)'
  <2>1. \E err : Return(g, err)
    BY <1>1 DEF Delete, GetValue
  <2>2. (\E t : WriteRoot(t)) \/ UNCHANGED <<root, overlapped>>
    BY <1>1 DEF Delete, GetValue
  <2> QED BY <2>1, <2>2, Returned, Wrote, OnlyRead, OneStep
<1>2. ASSUME NEW g \in Goroutines, NEW p \in Paths, NEW v \in Values,
             SetValue(g, p, v) \/ AppendValue(g, p, v) \/ MergeValue(g, p, v)
      PROVE  (Shape /\ ConflictCheckHolds)'
  <2>1. \E err : Return(g, err)
    BY <1>2 DEF SetValue, AppendValue, MergeValue
  <2>2. (\E t : WriteRoot(t)) \/ UNCHANGED <<root, overlapped>>
    BY <1>2 DEF SetValue, AppendValue, MergeValue
  <2> QED BY <2>1, <2>2, Returned, Wrote, OnlyRead, OneStep
<1>3. ASSUME NEW g \in Goroutines, LoadSet(g) \/ InterpolatePublish(g)
      PROVE  (Shape /\ ConflictCheckHolds)'
  <2>1. (\E err : Return(g, err)) /\ \E t : WriteRoot(t)
    BY <1>3 DEF LoadSet, InterpolatePublish
  <2> QED BY <2>1, Returned, Wrote, OneStep
<1>4. ASSUME NEW g \in Goroutines, NEW p \in Paths, NEW v \in Values, LoadGet(g, p, v)
      PROVE  (Shape /\ ConflictCheckHolds)'
  <2>1. UNCHANGED root /\ Look(g)
    BY <1>4 DEF LoadGet
  <2>2. CASE p # <<>> /\ Exists(root, p)
    <3>1. Return(g, "typeConflict")
      BY <1>4, <2>2 DEF LoadGet
    <3> QED BY <2>1, <3>1, Returned, OnlyRead, OneStep
  <2>3. CASE ~(p # <<>> /\ Exists(root, p))
    <3> DEFINE next == [at |-> IF p = <<>> THEN "checkRoot" ELSE "load", path |-> p, value |-> v]
    <3>1. Continue(g, next)
      BY <1>4, <2>3 DEF LoadGet
    <3>2. "at" \in DOMAIN next /\ (next.at = "load" => p # <<>> /\ next.path = p)
      OBVIOUS
    <3>3. next.at = "load" => ~Occupied(root', next.path)
      BY <2>1, <2>3, <3>2 DEF Occupied
    <3> HIDE DEF next
    <3> QED BY <2>1, <3>1, <3>2, <3>3, Continued, OnlyRead, OneStep
  <2> QED BY <2>2, <2>3
<1>5. ASSUME NEW g \in Goroutines, LoadCheckRoot(g)
      PROVE  (Shape /\ ConflictCheckHolds)'
  <2>1. UNCHANGED root /\ Look(g)
    BY <1>5 DEF LoadCheckRoot
  <2>2. CASE RootHasValue(root)
    <3>1. Return(g, "typeConflict")
      BY <1>5, <2>2 DEF LoadCheckRoot
    <3> QED BY <2>1, <3>1, Returned, OnlyRead, OneStep
  <2>3. CASE ~RootHasValue(root)
    <3> DEFINE next == [at |-> "load", path |-> <<>>, value |-> task[g].value]
    <3>1. Continue(g, next)
      BY <1>5, <2>3 DEF LoadCheckRoot
    <3>2. "at" \in DOMAIN next /\ ~Occupied(root', next.path)
      BY <2>1, <2>3 DEF Occupied
    <3> HIDE DEF next
    <3> QED BY <2>1, <3>1, <3>2, Continued, OnlyRead, OneStep
  <2> QED BY <2>2, <2>3
<1>6. ASSUME NEW g \in Goroutines, NEW recursive \in BOOLEAN, NEW maxDepth \in MaxDepths,
             InterpolateSnapshot(g, recursive, maxDepth)
      PROVE  (Shape /\ ConflictCheckHolds)'
  <2>1. UNCHANGED root /\ Look(g) /\ \E next : Continue(g, next) /\ Unrelated(next)
    BY <1>6 DEF InterpolateSnapshot, Unrelated
  <2> QED BY <2>1, Continued, OnlyRead, OneStep DEF Unrelated
<1>7. ASSUME NEW g \in Goroutines, InterpolateRound(g)
      PROVE  (Shape /\ ConflictCheckHolds)'
  <2>1. UNCHANGED <<root, overlapped>>
    BY <1>7 DEF InterpolateRound
  <2>2. \/ \E err : Return(g, err)
        \/ \E next : Continue(g, [task[g] EXCEPT !.at = "publish", !.tree = next])
        \/ \E next : Continue(g, [task[g] EXCEPT !.tree = next, !.depth = @ + 1])
    BY <1>7 DEF InterpolateRound
  <2>3. \A next : /\ Unrelated([task[g] EXCEPT !.at = "publish", !.tree = next])
                  /\ Unrelated([task[g] EXCEPT !.tree = next, !.depth = @ + 1])
    BY <1>7 DEF InterpolateRound, Shape, Unrelated
  <2>4. (\E err : Return(g, err)) \/ \E next : Continue(g, next) /\ Unrelated(next)
    BY <2>2, <2>3
  <2> QED BY <2>1, <2>4, Returned, Continued, OnlyRead, OneStep DEF Unrelated
<1>8. CASE UNCHANGED vars
  BY <1>8 DEF vars, Shape, ConflictCheckHolds
<1> QED
  BY <1>1, <1>2, <1>3, <1>4, <1>5, <1>6, <1>7, <1>8 DEF Next, Call, Proceed

(***************************************************************************)
(* loadValue: what ErrorOnConflict has found free is free when it writes,  *)
(* unless another goroutine has changed the tree since it looked.          *)
(***************************************************************************)
THEOREM ConflictCheck == Spec => []ConflictCheckHolds
<1>1. Init => Shape /\ ConflictCheckHolds
  BY DEF Init, Shape, ConflictCheckHolds, Idle
<1> QED BY <1>1, NextHolds, PTL DEF Spec

-----------------------------------------------------------------------------
(***************************************************************************)
(* Type correctness: every operation is given well formed trees and makes  *)
(* well formed trees of them.                                              *)
(***************************************************************************)
LEMMA SetErrorType == \A t, p : SetError(t, p) \in Errors \cup {"ok"}
  BY DEF SetError, StepError, Errors

LEMMA CheckErrorType ==
  \A t, p : DeleteCheck(t, p) \in Errors \cup {"ok"} /\ AppendCheck(t, p) \in Errors \cup {"ok"}
  BY DEF DeleteCheck, AppendCheck, Errors

LEMMA ReturnType ==
  ASSUME TypeOK, NEW g \in Goroutines, NEW err \in Errors \cup {"ok"}, Return(g, err),
         WellFormed(root'), overlapped' \subseteq Goroutines
  PROVE  TypeOK'
<1>1. task' = [h \in Goroutines |-> IF h = g THEN Idle ELSE task[h]]
  BY DEF TypeOK, Return
<1>2. \A h \in Goroutines : TaskOK(task'[h])
  BY <1>1 DEF TypeOK, TaskOK
<1>3. result' \in [Goroutines -> Errors \cup {"ok"}]
  BY DEF TypeOK, Return
<1>4. task' = [h \in Goroutines |-> task'[h]]
  BY <1>1
<1> QED BY <1>2, <1>3, <1>4 DEF TypeOK

LEMMA ContinueType ==
  ASSUME TypeOK, NEW g \in Goroutines, NEW next, TaskOK(next), Continue(g, next),
         UNCHANGED root, overlapped' \subseteq Goroutines
  PROVE  TypeOK'
<1>1. task' = [h \in Goroutines |-> IF h = g THEN next ELSE task[h]]
  BY DEF TypeOK, Continue
<1>2. \A h \in Goroutines : TaskOK(task'[h])
  BY <1>1 DEF TypeOK
<1>3. result' \in [Goroutines -> Errors \cup {"ok"}] /\ WellFormed(root')
  BY DEF TypeOK, Continue
<1>4. task' = [h \in Goroutines |-> task'[h]]
  BY <1>1
<1> QED BY <1>2, <1>3, <1>4 DEF TypeOK

LEMMA WroteType ==
  ASSUME NEW t, WellFormed(t), WriteRoot(t)
  PROVE  WellFormed(root') /\ overlapped' \subseteq Goroutines
  BY DEF WriteRoot

LEMMA OnlyReadType ==
  ASSUME TypeOK, NEW g \in Goroutines, UNCHANGED root, UNCHANGED overlapped \/ Look(g)
  PROVE  WellFormed(root') /\ overlapped' \subseteq Goroutines
  BY DEF TypeOK, Look

LEMMA Inputs ==
  /\ \A p \in Paths : p \in Path
  /\ \A v \in Values : WellFormed(v)
  /\ \A t \in InitialRoots : WellFormed(t)
  /\ \A d \in MaxDepths : d \in Nat /\ d >= 1
  BY InputsAssumption

LEMMA AppendSucceeds ==
  ASSUME NEW t, NEW p, AppendCheck(t, p) = "ok"
  PROVE  p \in DOMAIN t /\ t[p] = Array
  BY DEF AppendCheck, Exists

LEMMA CallTypes ==
  ASSUME TypeOK, NEW g \in Goroutines, Call(g)
  PROVE  TypeOK'
<1>0. WellFormed(root) /\ WellFormed(EmptyObject)
  <2>1. Object \in Labels
    BY DEF Labels
  <2>2. WellFormed(EmptyObject)
    BY <2>1, LeafWellFormed DEF EmptyObject
  <2> QED BY <2>2 DEF TypeOK
<1>1. ASSUME NEW p \in Paths, Delete(g, p) PROVE TypeOK'
  <2>1. CASE p = <<>>
    <3>1. Return(g, "ok") /\ WriteRoot(EmptyObject)
      BY <1>1, <2>1 DEF Delete
    <3> QED BY <1>0, <3>1, WroteType, ReturnType
  <2>2. CASE p # <<>> /\ DeleteCheck(root, p) # "ok"
    <3>1. Return(g, DeleteCheck(root, p)) /\ UNCHANGED <<root, overlapped>>
      BY <1>1, <2>2 DEF Delete
    <3> QED BY <3>1, CheckErrorType, OnlyReadType, ReturnType
  <2>3. CASE p # <<>> /\ DeleteCheck(root, p) = "ok"
    <3>1. Return(g, SetError(Cut(root, p), Front(p))) /\ WriteRoot(DeleteAt(root, p))
      BY <1>1, <2>3 DEF Delete
    <3>2. WellFormed(DeleteAt(root, p))
      BY <1>0, <2>3, Inputs, DeleteAtWellFormed
    <3> QED BY <3>1, <3>2, SetErrorType, WroteType, ReturnType
  <2> QED BY <2>1, <2>2, <2>3
<1>2. ASSUME NEW p \in Paths, GetValue(g, p) PROVE TypeOK'
  <2>1. /\ Return(g, IF Exists(root, p) THEN "ok" ELSE "notFound") /\ UNCHANGED <<root, overlapped>>
        /\ (IF Exists(root, p) THEN "ok" ELSE "notFound") \in Errors \cup {"ok"}
    BY <1>2 DEF GetValue, Errors
  <2> QED BY <2>1, OnlyReadType, ReturnType
<1>3. ASSUME NEW p \in Paths, NEW v \in Values, SetValue(g, p, v) PROVE TypeOK'
  <2>1. Return(g, SetError(root, p)) /\ WriteRoot(SetAt(root, p, v))
    BY <1>3 DEF SetValue
  <2>2. WellFormed(SetAt(root, p, v))
    BY <1>0, Inputs, SetAtWellFormed
  <2> QED BY <2>1, <2>2, SetErrorType, WroteType, ReturnType
<1>4. ASSUME NEW p \in Paths, NEW v \in Values, AppendValue(g, p, v) PROVE TypeOK'
  <2>1. CASE AppendCheck(root, p) # "ok"
    <3>1. Return(g, AppendCheck(root, p)) /\ UNCHANGED <<root, overlapped>>
      BY <1>4, <2>1 DEF AppendValue
    <3> QED BY <3>1, CheckErrorType, OnlyReadType, ReturnType
  <2>2. CASE AppendCheck(root, p) = "ok"
    <3>1. Return(g, SetError(root, p)) /\ WriteRoot(SetAt(root, p, Appended(root, p, v)))
      BY <1>4, <2>2 DEF AppendValue
    <3>2. WellFormed(Appended(root, p, v))
      BY <1>0, <2>2, Inputs, AppendSucceeds, AppendedWellFormed
    <3>3. WellFormed(SetAt(root, p, Appended(root, p, v)))
      BY <1>0, <3>2, Inputs, SetAtWellFormed
    <3> QED BY <3>1, <3>3, SetErrorType, WroteType, ReturnType
  <2> QED BY <2>1, <2>2
<1>5. ASSUME NEW p \in Paths, NEW v \in Values, MergeValue(g, p, v) PROVE TypeOK'
  <2>1. Return(g, SetError(root, p)) /\ WriteRoot(MergeAt(root, p, v))
    BY <1>5 DEF MergeValue
  <2>2. WellFormed(MergeAt(root, p, v))
    BY <1>0, Inputs, MergeAtWellFormed
  <2> QED BY <2>1, <2>2, SetErrorType, WroteType, ReturnType
<1>6. ASSUME NEW p \in Paths, NEW v \in Values, LoadGet(g, p, v) PROVE TypeOK'
  <2>1. WellFormed(root') /\ overlapped' \subseteq Goroutines /\ UNCHANGED root
    BY <1>6, OnlyReadType DEF LoadGet
  <2>2. CASE p # <<>> /\ Exists(root, p)
    <3>1. Return(g, "typeConflict") /\ "typeConflict" \in Errors \cup {"ok"}
      BY <1>6, <2>2 DEF LoadGet, Errors
    <3> QED BY <2>1, <3>1, ReturnType
  <2>3. CASE ~(p # <<>> /\ Exists(root, p))
    <3> DEFINE next == [at |-> IF p = <<>> THEN "checkRoot" ELSE "load", path |-> p, value |-> v]
    <3>1. Continue(g, next)
      BY <1>6, <2>3 DEF LoadGet
    <3>2. TaskOK(next)
      BY DEF TaskOK, LoadOK
    <3> HIDE DEF next
    <3> QED BY <2>1, <3>1, <3>2, ContinueType
  <2> QED BY <2>2, <2>3
<1>7. ASSUME NEW recursive \in BOOLEAN, NEW maxDepth \in MaxDepths,
             InterpolateSnapshot(g, recursive, maxDepth)
      PROVE  TypeOK'
  <2> DEFINE next == [at |-> "round", snapshot |-> root, tree |-> root, depth |-> 0,
                      recursive |-> recursive, maxDepth |-> maxDepth]
  <2>1. Continue(g, next) /\ UNCHANGED root /\ overlapped' \subseteq Goroutines
    BY <1>7, OnlyReadType DEF InterpolateSnapshot
  <2>2. maxDepth \in Nat /\ maxDepth >= 1
    BY Inputs
  <2>3. 0 \in 0..(maxDepth - 1)
    BY <2>2
  <2>4. TaskOK(next)
    BY <1>0, <2>3 DEF TaskOK, InterpolateOK
  <2> HIDE DEF next
  <2> QED BY <2>1, <2>4, ContinueType
<1> QED BY <1>1, <1>2, <1>3, <1>4, <1>5, <1>6, <1>7 DEF Call

LEMMA ProceedTypes ==
  ASSUME TypeOK, NEW g \in Goroutines, Proceed(g)
  PROVE  TypeOK'
<1>0. WellFormed(root) /\ TaskOK(task[g])
  BY DEF TypeOK
<1>1. ASSUME LoadCheckRoot(g) PROVE TypeOK'
  <2>1. WellFormed(root') /\ overlapped' \subseteq Goroutines /\ UNCHANGED root
    BY <1>1, OnlyReadType DEF LoadCheckRoot
  <2>2. CASE RootHasValue(root)
    <3>1. Return(g, "typeConflict") /\ "typeConflict" \in Errors \cup {"ok"}
      BY <1>1, <2>2 DEF LoadCheckRoot, Errors
    <3> QED BY <2>1, <3>1, ReturnType
  <2>3. CASE ~RootHasValue(root)
    <3> DEFINE next == [at |-> "load", path |-> <<>>, value |-> task[g].value]
    <3>1. Continue(g, next)
      BY <1>1, <2>3 DEF LoadCheckRoot
    <3>2. task[g].value \in Values
      BY <1>0, <1>1 DEF LoadCheckRoot, TaskOK, LoadOK, InterpolateOK, Idle
    <3>3. TaskOK(next)
      BY <3>2 DEF TaskOK, LoadOK
    <3> HIDE DEF next
    <3> QED BY <2>1, <3>1, <3>3, ContinueType
  <2> QED BY <2>2, <2>3
<1>2. ASSUME LoadSet(g) PROVE TypeOK'
  <2>1. /\ Return(g, SetError(root, task[g].path))
        /\ WriteRoot(SetAt(root, task[g].path, task[g].value))
    BY <1>2 DEF LoadSet
  <2>2. task[g].value \in Values /\ task[g].path \in Paths \cup {<<>>}
    BY <1>0, <1>2 DEF LoadSet, TaskOK, LoadOK, InterpolateOK, Idle
  <2>3. task[g].path \in Path /\ WellFormed(task[g].value)
    BY <2>2, Inputs, EmptyPath
  <2>4. WellFormed(SetAt(root, task[g].path, task[g].value))
    BY <1>0, <2>3, SetAtWellFormed
  <2> QED BY <2>1, <2>4, SetErrorType, WroteType, ReturnType
<1>3. ASSUME InterpolateRound(g) PROVE TypeOK'
  <2> DEFINE k == task[g]
             next == EvaluateNode(k.tree, k.tree)
  <2>1. /\ WellFormed(root') /\ overlapped' \subseteq Goroutines /\ UNCHANGED root
    BY <1>3, OnlyReadType DEF InterpolateRound
  <2>2. InterpolateOK(k)
    BY <1>0, <1>3 DEF InterpolateRound, TaskOK, LoadOK, Idle
  <2>3. /\ k.maxDepth \in Nat /\ k.depth \in 0..(k.maxDepth - 1) /\ k.maxDepth \in MaxDepths
        /\ k.recursive \in BOOLEAN /\ WellFormed(k.tree) /\ WellFormed(k.snapshot)
    BY <2>2, Inputs DEF InterpolateOK
  <2>4. \/ \E err \in {"missing", "cycleDetected"} : Return(g, err)
        \/ /\ ~Missing(k.tree, k.tree)
           /\ \/ Continue(g, [k EXCEPT !.at = "publish", !.tree = next])
              \/ /\ ~(k.depth + 1 >= k.maxDepth)
                 /\ Continue(g, [k EXCEPT !.tree = next, !.depth = @ + 1])
    BY <1>3 DEF InterpolateRound
  <2> HIDE DEF k, next
  <2>5. CASE \E err \in {"missing", "cycleDetected"} : Return(g, err)
    BY <2>1, <2>5, ReturnType DEF Errors
  <2>6. ASSUME ~Missing(k.tree, k.tree) PROVE WellFormed(next)
    BY <2>3, <2>6, EvaluateNodeWellFormed DEF next
  <2>7. CASE /\ ~Missing(k.tree, k.tree)
             /\ Continue(g, [k EXCEPT !.at = "publish", !.tree = next])
    <3> DEFINE new == [k EXCEPT !.at = "publish", !.tree = next]
    <3>1. TaskOK(new)
      BY <2>2, <2>3, <2>6, <2>7 DEF TaskOK, InterpolateOK
    <3> HIDE DEF new
    <3> QED BY <2>1, <2>7, <3>1, ContinueType DEF new
  <2>8. CASE /\ ~Missing(k.tree, k.tree) /\ ~(k.depth + 1 >= k.maxDepth)
             /\ Continue(g, [k EXCEPT !.tree = next, !.depth = @ + 1])
    <3> DEFINE new == [k EXCEPT !.tree = next, !.depth = @ + 1]
    <3>0. k.depth + 1 \in 0..(k.maxDepth - 1)
      BY <2>3, <2>8
    <3>1. TaskOK(new)
      BY <2>2, <2>3, <2>6, <2>8, <3>0 DEF TaskOK, InterpolateOK
    <3> HIDE DEF new
    <3> QED BY <2>1, <2>8, <3>1, ContinueType DEF new
  <2> QED BY <2>4, <2>5, <2>7, <2>8
<1>4. ASSUME InterpolatePublish(g) PROVE TypeOK'
  <2>1. Return(g, "ok") /\ WriteRoot(task[g].tree)
    BY <1>4 DEF InterpolatePublish
  <2>2. WellFormed(task[g].tree)
    BY <1>0, <1>4 DEF InterpolatePublish, TaskOK, LoadOK, InterpolateOK, Idle
  <2> QED BY <2>1, <2>2, WroteType, ReturnType
<1> QED BY <1>1, <1>2, <1>3, <1>4 DEF Proceed

(***************************************************************************)
(* The trees of value.go: whatever the methods of Variables are called     *)
(* with, in whatever interleaving, the root is a tree a Value can be.      *)
(***************************************************************************)
THEOREM TypeCorrect == Spec => []TypeOK
<1>1. Init => TypeOK
  BY Inputs DEF Init, TypeOK, TaskOK, Errors
<1>2. TypeOK /\ [Next]_vars => TypeOK'
  <2> SUFFICES ASSUME TypeOK, [Next]_vars PROVE TypeOK'
    OBVIOUS
  <2>1. CASE UNCHANGED vars
    BY <2>1 DEF vars, TypeOK
  <2> QED BY <2>1, CallTypes, ProceedTypes DEF Next
<1> QED BY <1>1, <1>2, PTL DEF Spec

(***************************************************************************)
(* deleteAt and AppendValue: the setAt that writes the changed target back *)
(* cannot fail, so no caller sees an error after the tree has changed.     *)
(***************************************************************************)
THEOREM WriteBack == Spec => []WriteBackNeverFails
<1>1. TypeOK => WriteBackNeverFails
  <2> SUFFICES ASSUME WellFormed(root), NEW p \in Paths
               PROVE  /\ p # <<>> /\ DeleteCheck(root, p) = "ok" => SetSucceeds(Cut(root, p), Front(p))
                      /\ AppendCheck(root, p) = "ok" => SetSucceeds(root, p)
    BY DEF TypeOK, WriteBackNeverFails
  <2>1. p \in Path
    BY Inputs
  <2> QED BY <2>1, DeleteAtWellFormed, AppendSucceeds, ExistingSucceeds
<1> QED BY <1>1, TypeCorrect, PTL

-----------------------------------------------------------------------------
Alone == \A g, h \in Goroutines : g = h

NoOverlap == overlapped = {}

LEMMA NobodyOverlaps == ASSUME Alone PROVE Spec => []NoOverlap
<1>1. Init => NoOverlap
  BY DEF Init, NoOverlap
<1>2. TypeOK /\ NoOverlap /\ [Next]_vars => NoOverlap'
  <2> SUFFICES ASSUME TypeOK, overlapped = {}, [Next]_vars PROVE overlapped' = {}
    BY DEF NoOverlap
  <2>1. ASSUME NEW g \in Goroutines, NEW err, Return(g, err), NEW t, WriteRoot(t)
        PROVE  overlapped' = {}
    <3>1. \A h \in Goroutines : task'[h] = Idle
      BY <2>1 DEF TypeOK, Return, Alone
    <3> QED BY <2>1, <3>1 DEF WriteRoot
  <2>2. ASSUME NEW g \in Goroutines, Look(g) PROVE overlapped' = {}
    BY <2>2 DEF Look
  <2>3. ASSUME NEW g \in Goroutines, Call(g) PROVE overlapped' = {}
    <3>1. \/ \E err, t : Return(g, err) /\ WriteRoot(t)
          \/ Look(g)
          \/ UNCHANGED overlapped
      BY <2>3 DEF Call, Delete, GetValue, SetValue, AppendValue, MergeValue, LoadGet, InterpolateSnapshot
    <3> QED BY <2>1, <2>2, <3>1
  <2>4. ASSUME NEW g \in Goroutines, Proceed(g) PROVE overlapped' = {}
    <3>1. \/ \E err, t : Return(g, err) /\ WriteRoot(t)
          \/ Look(g)
          \/ UNCHANGED overlapped
      BY <2>4 DEF Proceed, LoadCheckRoot, LoadSet, InterpolateRound, InterpolatePublish
    <3> QED BY <2>1, <2>2, <3>1
  <2> QED BY <2>3, <2>4 DEF Next, vars
<1> QED BY <1>1, <1>2, TypeCorrect, PTL DEF Spec

(***************************************************************************)
(* A goroutine that has the container for itself never overwrites with     *)
(* ErrorOnConflict: what the run load_race shows takes two of them.        *)
(***************************************************************************)
THEOREM AloneNeverOverwrites == ASSUME Alone PROVE Spec => NeverOverwritesOnConflict
<1>1. ConflictCheckHolds /\ NoOverlap /\ [Next]_vars
        => [\A g \in Goroutines : LoadSet(g) => ~Occupied(root, task[g].path)]_vars
  BY DEF ConflictCheckHolds, NoOverlap, LoadSet
<1> QED BY <1>1, ConflictCheck, NobodyOverlaps, PTL DEF Spec, NeverOverwritesOnConflict

=============================================================================
