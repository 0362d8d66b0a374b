------------------------- MODULE StoredVariables_proofs -------------------------
(***************************************************************************)
(* The container with its tree as it is stored implements the container    *)
(* of module Variables, for Values of any size and any sequence of calls.  *)
(***************************************************************************)
EXTENDS StoredVariables, ValueTree_proofs

-----------------------------------------------------------------------------
(***************************************************************************)
(* The operators on trees are the same in the instance of Variables.       *)
(***************************************************************************)
LEMMA SeenPaths ==
  /\ \A s : Seen!NewContainer(s) = NewContainer(s)
  /\ \A p, n : Seen!Prefix(p, n) = Prefix(p, n)
  /\ \A p, q : Seen!IsPrefix(p, q) <=> IsPrefix(p, q)
  /\ \A p, q : Seen!Rest(p, q) = Rest(p, q)
  /\ \A p : Seen!Front(p) = Front(p) /\ Seen!Last(p) = Last(p)
  /\ \A x : Seen!Leaf(x) = Leaf(x)
  BY DEF Seen!NewContainer, NewContainer, Seen!Prefix, Prefix, Seen!IsPrefix, IsPrefix,
         Seen!Rest, Rest, Seen!Front, Front, Seen!Last, Last, Seen!Leaf, Leaf, Seen!Array, Array,
         Seen!Object, Object

LEMMA SeenTrees ==
  /\ \A t, p : Seen!Under(t, p) = Under(t, p)
  /\ \A t, p : Seen!Slots(t, p) = Slots(t, p)
  /\ \A t, p : Seen!Sub(t, p) = Sub(t, p)
  /\ \A t, p, v : Seen!Graft(t, p, v) = Graft(t, p, v)
  /\ \A t, p : Seen!Prune(t, p) = Prune(t, p)
  /\ \A t, p : Seen!Exists(t, p) <=> Exists(t, p)
  /\ \A t, p : Seen!Length(t, p) = Length(t, p)
  /\ \A S : Seen!Cardinality(S) = Cardinality(S)
<1>1. \A t, p : Seen!Under(t, p) = Under(t, p)
  BY SeenPaths DEF Seen!Under, Under
<1>2. \A t, p : Seen!Slots(t, p) = Slots(t, p)
  BY <1>1 DEF Seen!Slots, Slots
<1>3. \A t, p : Seen!Sub(t, p) = Sub(t, p)
  BY <1>1, SeenPaths DEF Seen!Sub, Sub
<1>4. \A t, p, v : Seen!Graft(t, p, v) = Graft(t, p, v)
  BY <1>1, SeenPaths DEF Seen!Graft, Graft
<1>5. \A t, p : Seen!Prune(t, p) = Prune(t, p)
  BY <1>1 DEF Seen!Prune, Prune
<1>6. \A t, p : Seen!Exists(t, p) <=> Exists(t, p)
  BY DEF Seen!Exists, Exists
<1>7. \A S : Seen!Cardinality(S) = Cardinality(S)
  BY Zenon DEF Seen!Cardinality, Cardinality
<1>8. \A t, p : Seen!Length(t, p) = Length(t, p)
  BY <1>2, <1>7 DEF Seen!Length, Length
<1> QED BY <1>1, <1>2, <1>3, <1>4, <1>5, <1>6, <1>7, <1>8

LEMMA SeenSet ==
  /\ \A t, p, n : Seen!StepError(t, p, n) = StepError(t, p, n)
  /\ \A t, p : Seen!SetSucceeds(t, p) <=> SetSucceeds(t, p)
  /\ \A t, p : Seen!SetError(t, p) = SetError(t, p)
  /\ \A t, p, v : Seen!SetAt(t, p, v) = SetAt(t, p, v)
<1>1. \A t, p, n : Seen!Standing(t, p, n) = Standing(t, p, n)
  BY SeenPaths DEF Seen!Standing, Standing, Seen!Null, Null
<1>2. \A t, p, n : Seen!StepError(t, p, n) = StepError(t, p, n)
  BY <1>1, SeenPaths DEF Seen!StepError, StepError
<1>3. \A t, p : Seen!SetSucceeds(t, p) <=> SetSucceeds(t, p)
  BY <1>2 DEF Seen!SetSucceeds, SetSucceeds
<1>4. \A t, p : Seen!SetError(t, p) = SetError(t, p)
  <2> SUFFICES ASSUME NEW t, NEW p PROVE Seen!SetError(t, p) = SetError(t, p)
    OBVIOUS
  <2> DEFINE failing == {n \in 1..Len(p) : StepError(t, p, n) # "ok"}
             seen    == {n \in 1..Len(p) : Seen!StepError(t, p, n) # "ok"}
             First(S) == CHOOSE n \in S : \A m \in S : n <= m
  <2>1. seen = failing
    BY <1>2
  <2>2. Seen!SetError(t, p)
          = IF Seen!SetSucceeds(t, p) THEN "ok" ELSE Seen!StepError(t, p, First(seen))
    BY DEF Seen!SetError
  <2>3. SetError(t, p) = IF SetSucceeds(t, p) THEN "ok" ELSE StepError(t, p, First(failing))
    BY DEF SetError
  <2> HIDE DEF First, failing, seen
  <2> QED BY <1>2, <1>3, <2>1, <2>2, <2>3
<1>5. \A p, n : Seen!Padding(p, n) = Padding(p, n)
  BY SeenPaths DEF Seen!Padding, Padding, Seen!Index, Index
<1>6. \A t, p : Seen!Opened(t, p) = Opened(t, p)
  BY <1>5, SeenPaths DEF Seen!Opened, Opened, Seen!Null, Null
<1>7. \A t, p : Seen!PaddedRoot(t, p) = PaddedRoot(t, p)
  BY <1>2, <1>5 DEF Seen!PaddedRoot, PaddedRoot, Seen!Null, Null
<1>8. \A t, p, v : Seen!SetAt(t, p, v) = SetAt(t, p, v)
  BY <1>3, <1>6, <1>7, SeenTrees DEF Seen!SetAt, SetAt
<1> QED BY <1>2, <1>3, <1>4, <1>8

LEMMA SeenCalls ==
  /\ \A t, p : Seen!AppendCheck(t, p) = AppendCheck(t, p)
  /\ \A t, p, v : Seen!Appended(t, p, v) = Appended(t, p, v)
  /\ \A t, p : Seen!DeleteCheck(t, p) = DeleteCheck(t, p)
  /\ \A t, p : Seen!Cut(t, p) = Cut(t, p)
  /\ \A t, p : Seen!DeleteAt(t, p) = DeleteAt(t, p)
  /\ \A t, p, v : Seen!MergeAt(t, p, v) = MergeAt(t, p, v)
  /\ \A t : Seen!RootHasValue(t) <=> RootHasValue(t)
  /\ Seen!EmptyObject = EmptyObject /\ Seen!Idle = Idle
<1>1. \A t, p : Seen!AppendCheck(t, p) = AppendCheck(t, p)
  BY SeenTrees DEF Seen!AppendCheck, AppendCheck, Seen!Array, Array
<1>2. \A t, p, v : Seen!Appended(t, p, v) = Appended(t, p, v)
  BY SeenTrees DEF Seen!Appended, Appended, Seen!Index, Index
<1>3. \A t, p : Seen!DeleteCheck(t, p) = DeleteCheck(t, p)
  BY SeenPaths, SeenTrees DEF Seen!DeleteCheck, DeleteCheck
<1>4. \A t, p : Seen!Cut(t, p) = Cut(t, p)
  BY SeenPaths, SeenTrees DEF Seen!Cut, Cut, Seen!Null, Null
<1>5. \A t, p : Seen!DeleteAt(t, p) = DeleteAt(t, p)
  BY <1>4, SeenPaths, SeenTrees, SeenSet DEF Seen!DeleteAt, DeleteAt
<1>6. \A t, v, q : Seen!Survives(t, v, q) <=> Survives(t, v, q)
  BY SeenPaths DEF Seen!Survives, Survives, Seen!Object, Object
<1>7. \A t, v : Seen!MergeNodes(t, v) = MergeNodes(t, v)
  BY <1>6 DEF Seen!MergeNodes, MergeNodes
<1>8. \A t, p, v : Seen!MergeAt(t, p, v) = MergeAt(t, p, v)
  BY <1>7, SeenTrees, SeenSet DEF Seen!MergeAt, MergeAt
<1>9. \A t : Seen!RootHasValue(t) <=> RootHasValue(t)
  BY SeenTrees DEF Seen!RootHasValue, RootHasValue, Seen!IsContainer, IsContainer,
                   Seen!Null, Null, Seen!Object, Object, Seen!Array, Array
<1>10. Seen!EmptyObject = EmptyObject /\ Seen!Idle = Idle
  BY SeenPaths DEF Seen!EmptyObject, EmptyObject, Seen!Idle, Idle, Seen!Object, Object
<1> QED BY <1>1, <1>2, <1>3, <1>4, <1>5, <1>8, <1>9, <1>10

LEMMA SeenInterpolate ==
  /\ \A t, e : Seen!Missing(t, e) <=> Missing(t, e)
  /\ \A t, e : Seen!EvaluateNode(t, e) = EvaluateNode(t, e)
  /\ \A t : Seen!ContainsEvaluation(t) <=> ContainsEvaluation(t)
<1>1. \A t : Seen!TemplatesOf(t) = TemplatesOf(t)
  BY DEF Seen!TemplatesOf, TemplatesOf
<1>2. \A t, e : Seen!Missing(t, e) <=> Missing(t, e)
  BY <1>1, SeenTrees DEF Seen!Missing, Missing
<1>3. \A t, e : Seen!EvaluateNode(t, e) = EvaluateNode(t, e)
  <2> SUFFICES ASSUME NEW t, NEW e PROVE Seen!EvaluateNode(t, e) = EvaluateNode(t, e)
    OBVIOUS
  <2> DEFINE Env(q) == Sub(e, Ref[t[q]])
             Replaced == UNION {{q \o r : r \in DOMAIN Env(q)} : q \in TemplatesOf(t)}
             Template(q) == CHOOSE h \in TemplatesOf(t) : IsPrefix(h, q)
             SeenEnv(q) == Seen!Sub(e, Ref[t[q]])
             SeenReplaced == UNION {{q \o r : r \in DOMAIN SeenEnv(q)} : q \in Seen!TemplatesOf(t)}
             SeenTemplate(q) == CHOOSE h \in Seen!TemplatesOf(t) : Seen!IsPrefix(h, q)
  <2>1. \A q : SeenEnv(q) = Env(q)
    BY SeenTrees
  <2>2. SeenReplaced = Replaced
    <3> HIDE DEF Env, SeenEnv
    <3> QED BY <1>1, <2>1
  <2>3. ASSUME NEW q PROVE SeenTemplate(q) = Template(q)
    <3>1. \A h : (h \in Seen!TemplatesOf(t) /\ Seen!IsPrefix(h, q))
                    <=> (h \in TemplatesOf(t) /\ IsPrefix(h, q))
      BY <1>1, SeenPaths
    <3> QED BY <3>1, Zenon
  <2>4. Seen!EvaluateNode(t, e) = [q \in DOMAIN t \cup SeenReplaced |->
          IF q \in SeenReplaced THEN SeenEnv(SeenTemplate(q))[Seen!Rest(SeenTemplate(q), q)]
          ELSE t[q]]
    BY DEF Seen!EvaluateNode
  <2>5. EvaluateNode(t, e) = [q \in DOMAIN t \cup Replaced |->
          IF q \in Replaced THEN Env(Template(q))[Rest(Template(q), q)] ELSE t[q]]
    BY DEF EvaluateNode
  <2> HIDE DEF Env, Replaced, Template, SeenEnv, SeenReplaced, SeenTemplate
  <2> QED BY <2>1, <2>2, <2>3, <2>4, <2>5, SeenPaths
<1>4. \A t : Seen!ContainsEvaluation(t) <=> ContainsEvaluation(t)
  BY <1>1 DEF Seen!ContainsEvaluation, ContainsEvaluation
<1> QED BY <1>2, <1>3, <1>4

-----------------------------------------------------------------------------
(***************************************************************************)
(* The ends of a step, as Variables has them.                              *)
(***************************************************************************)
LEMMA SeenIdle ==
  /\ task = Idle => PathsOfTask = Idle
  /\ [g \in {Goroutine} |-> PathsOfTask][Goroutine] = PathsOfTask
  BY DEF PathsOfTask, Idle

LEMMA SeenReturn ==
  ASSUME NEW err, task' = Idle, result' = err
  PROVE  Seen!Return(Goroutine, err)
<1>1. PathsOfTask' = Idle
  BY DEF PathsOfTask, Idle
<1>2. [g \in {Goroutine} |-> PathsOfTask'] = [[g \in {Goroutine} |-> PathsOfTask] EXCEPT ![Goroutine] = Idle]
  BY <1>1
<1>3. [g \in {Goroutine} |-> result'] = [[g \in {Goroutine} |-> result] EXCEPT ![Goroutine] = err]
  OBVIOUS
<1> QED BY <1>2, <1>3, SeenCalls DEF Seen!Return

LEMMA SeenWriteRoot ==
  ASSUME task' = Idle
  PROVE  Seen!WriteRoot(PathsOf(root'))
<1>1. PathsOfTask' = Seen!Idle
  BY SeenCalls DEF PathsOfTask, Idle
<1> QED BY <1>1 DEF Seen!WriteRoot

LEMMA SeenContinue ==
  ASSUME result' = result
  PROVE  Seen!Continue(Goroutine, PathsOfTask')
<1>1. [g \in {Goroutine} |-> PathsOfTask'] = [[g \in {Goroutine} |-> PathsOfTask] EXCEPT ![Goroutine] = PathsOfTask']
  OBVIOUS
<1> QED BY <1>1 DEF Seen!Continue

LEMMA SeenLook == Seen!Look(Goroutine)
  BY DEF Seen!Look

-----------------------------------------------------------------------------
(***************************************************************************)
(* One step of each operation: it keeps the type invariant, and is the     *)
(* operation of Variables on the trees seen.                               *)
(***************************************************************************)
LEMMA TasksDiffer ==
  ASSUME TypeOK
  PROVE  /\ task.at = "idle" => task = Idle
         /\ task.at \in {"checkRoot", "load"} => LoadOK(task)
         /\ task.at \in {"round", "publish"} => InterpolateOK(task)
  BY DEF TypeOK, Idle, LoadOK, InterpolateOK

\* The outcome of a call that stores a Value and reports an error.
LEMMA StoreStep ==
  ASSUME NEW outcome, Store(outcome), IsValue(outcome.node),
         NEW err, outcome.err = err,
         NEW t, PathsOf(outcome.node) = t
  PROVE  TypeOK' /\ Seen!Return(Goroutine, err) /\ Seen!WriteRoot(t)
<1>1. task' = Idle /\ result' = err /\ root' = outcome.node
  BY DEF Store
<1>2. Seen!Return(Goroutine, err)
  BY <1>1, SeenReturn
<1>3. Seen!WriteRoot(PathsOf(root'))
  BY <1>1, SeenWriteRoot
<1>4. TypeOK'
  BY <1>1 DEF TypeOK
<1> QED BY <1>1, <1>2, <1>3, <1>4

\* A call that only reports.
LEMMA ReturnStep ==
  ASSUME TypeOK, NEW err, task' = Idle, result' = err, root' = root
  PROVE  TypeOK' /\ Seen!Return(Goroutine, err) /\ UNCHANGED <<PathsOf(root), {}>>
<1>1. Seen!Return(Goroutine, err)
  BY SeenReturn
<1> QED BY <1>1 DEF TypeOK

LEMMA SetValueStep ==
  ASSUME TypeOK, NEW p \in Paths, NEW v \in Values, SetValue(p, v)
  PROVE  TypeOK' /\ Seen!SetValue(Goroutine, p, PathsOf(v))
<1>1. IsValue(root) /\ p \in Path /\ IsValue(v)
  BY StoredAssumption DEF TypeOK
<1> DEFINE outcome == SetInto(root, p, v)
<1>2. /\ outcome.err = SetError(PathsOf(root), p)
      /\ IsValue(outcome.node)
      /\ PathsOf(outcome.node) = SetAt(PathsOf(root), p, PathsOf(v))
  BY <1>1, SetIntoAgrees
<1>3. task = Idle /\ Store(outcome)
  BY DEF SetValue
<1> HIDE DEF outcome
<1>4. /\ TypeOK' /\ Seen!Return(Goroutine, SetError(PathsOf(root), p))
      /\ Seen!WriteRoot(SetAt(PathsOf(root), p, PathsOf(v)))
  BY <1>2, <1>3, StoreStep
<1> QED BY <1>3, <1>4, SeenIdle, SeenSet, SeenCalls DEF Seen!SetValue

LEMMA AppendValueStep ==
  ASSUME TypeOK, NEW p \in Paths, NEW v \in Values, AppendValue(p, v)
  PROVE  TypeOK' /\ Seen!AppendValue(Goroutine, p, PathsOf(v))
<1> DEFINE t       == PathsOf(root)
           outcome == appendAt(root, p, v)
           check   == AppendCheck(t, p)
<1>1. IsValue(root) /\ p \in Path /\ IsValue(v)
  BY StoredAssumption DEF TypeOK
<1>2. task = Idle /\ Store(outcome) /\ (Small \/ getAt(root, p).kind # Array)
  BY DEF AppendValue
<1>3. [g \in {Goroutine} |-> PathsOfTask][Goroutine] = Seen!Idle
  BY <1>2, SeenIdle, SeenCalls
<1>4. IF check # "ok" THEN outcome = Outcome(check, root)
      ELSE /\ outcome.err = SetError(t, p)
           /\ IsValue(outcome.node)
           /\ PathsOf(outcome.node) = SetAt(t, p, Appended(t, p, PathsOf(v)))
  BY <1>1, AppendAtAgrees
<1>5. CASE check # "ok"
  <2>1. outcome = Outcome(check, root)
    BY <1>4, <1>5
  <2>2. task' = Idle /\ result' = check /\ root' = root
    <3> HIDE DEF outcome, check
    <3> QED BY <1>2, <2>1 DEF Store, Outcome
  <2> HIDE DEF outcome, check
  <2>3. TypeOK' /\ Seen!Return(Goroutine, check) /\ UNCHANGED <<PathsOf(root), {}>>
    BY <2>2, ReturnStep
  <2> USE DEF check
  <2> QED BY <1>3, <1>5, <2>3, SeenCalls DEF Seen!AppendValue
<1>6. CASE check = "ok"
  <2>1. getAt(root, p).kind = Array
    <3>1. p \in DOMAIN t /\ t[p] = Array
      BY <1>6 DEF AppendCheck, Exists
    <3> QED BY <1>1, <3>1, ReadValue
  <2>2. Seen!Cardinality(DOMAIN t) <= MaxNodes
    BY <1>2, <2>1, SeenTrees DEF Small
  <2>3. /\ outcome.err = SetError(t, p)
        /\ IsValue(outcome.node)
        /\ PathsOf(outcome.node) = SetAt(t, p, Appended(t, p, PathsOf(v)))
    BY <1>4, <1>6
  <2>4. /\ TypeOK' /\ Seen!Return(Goroutine, SetError(t, p))
        /\ Seen!WriteRoot(SetAt(t, p, Appended(t, p, PathsOf(v))))
    <3> HIDE DEF outcome, t
    <3> QED BY <1>2, <2>3, StoreStep
  <2> QED BY <1>3, <1>6, <2>2, <2>4, SeenSet, SeenCalls DEF Seen!AppendValue
<1> QED BY <1>5, <1>6

LEMMA DeleteStep ==
  ASSUME TypeOK, NEW p \in Paths, Delete(p)
  PROVE  TypeOK' /\ Seen!Delete(Goroutine, p)
<1> DEFINE t       == PathsOf(root)
           emptied == emptyContainer(Key("any"))
           outcome == deleteAt(root, p)
           check   == DeleteCheck(t, p)
<1>1. IsValue(root) /\ p \in Path
  BY StoredAssumption DEF TypeOK
<1>2. task = Idle /\ Store(IF p = <<>> THEN Outcome("ok", emptied) ELSE outcome)
  BY DEF Delete
<1>3. [g \in {Goroutine} |-> PathsOfTask][Goroutine] = Seen!Idle
  BY <1>2, SeenIdle, SeenCalls
<1>4. CASE p = <<>>
  <2>1. Store(Outcome("ok", emptied))
    BY <1>2, <1>4
  <2>2. IsValue(emptied) /\ PathsOf(emptied) = EmptyObject
    BY EmptyValues DEF NewContainer, Key, EmptyObject
  <2>3. Outcome("ok", emptied).err = "ok" /\ Outcome("ok", emptied).node = emptied
    BY DEF Outcome
  <2>4. TypeOK' /\ Seen!Return(Goroutine, "ok") /\ Seen!WriteRoot(EmptyObject)
    <3> HIDE DEF emptied
    <3> QED BY <2>1, <2>2, <2>3, StoreStep
  <2> QED BY <1>3, <1>4, <2>4, SeenCalls DEF Seen!Delete
<1>5. CASE p # <<>> /\ check # "ok"
  <2>1. outcome = Outcome(check, root)
    BY <1>1, <1>5, DeleteAtAgrees
  <2>2. task' = Idle /\ result' = check /\ root' = root
    <3> HIDE DEF outcome, check
    <3> QED BY <1>2, <1>5, <2>1 DEF Store, Outcome
  <2>3. TypeOK' /\ Seen!Return(Goroutine, check) /\ UNCHANGED <<PathsOf(root), {}>>
    <3> HIDE DEF check
    <3> QED BY <2>2, ReturnStep
  <2> QED BY <1>3, <1>5, <2>3, SeenCalls DEF Seen!Delete
<1>6. CASE p # <<>> /\ check = "ok"
  <2>1. /\ outcome.err = SetError(Cut(t, p), Front(p))
        /\ IsValue(outcome.node)
        /\ PathsOf(outcome.node) = DeleteAt(t, p)
    BY <1>1, <1>6, DeleteAtAgrees
  <2>2. /\ TypeOK' /\ Seen!Return(Goroutine, SetError(Cut(t, p), Front(p)))
        /\ Seen!WriteRoot(DeleteAt(t, p))
    <3> HIDE DEF outcome, t
    <3> QED BY <1>2, <1>6, <2>1, StoreStep
  <2> QED BY <1>3, <1>6, <2>2, SeenPaths, SeenSet, SeenCalls DEF Seen!Delete
<1> QED BY <1>4, <1>5, <1>6

LEMMA MergeValueStep ==
  ASSUME TypeOK, NEW p \in Paths, NEW v \in Values, MergeValue(p, v)
  PROVE  TypeOK' /\ Seen!MergeValue(Goroutine, p, PathsOf(v))
<1>1. IsValue(root) /\ p \in Path /\ IsValue(v)
  BY StoredAssumption DEF TypeOK
<1> DEFINE outcome == mergeAt(root, p, v)
<1>2. /\ outcome.err = SetError(PathsOf(root), p)
      /\ IsValue(outcome.node)
      /\ PathsOf(outcome.node) = MergeAt(PathsOf(root), p, PathsOf(v))
  BY <1>1, MergeAtAgrees
<1>3. task = Idle /\ Store(outcome)
  BY DEF MergeValue
<1> HIDE DEF outcome
<1>4. /\ TypeOK' /\ Seen!Return(Goroutine, SetError(PathsOf(root), p))
      /\ Seen!WriteRoot(MergeAt(PathsOf(root), p, PathsOf(v)))
  BY <1>2, <1>3, StoreStep
<1> QED BY <1>3, <1>4, SeenIdle, SeenSet, SeenCalls DEF Seen!MergeValue

\* What is at a path, in both trees.
LEMMA SeenExists ==
  ASSUME TypeOK, NEW p \in Path
  PROVE  getAt(root, p) # NoValue <=> Seen!Exists(PathsOf(root), p)
<1>1. IsValue(root)
  BY DEF TypeOK
<1> QED BY <1>1, ReadValue, SeenTrees DEF Exists

LEMMA GetValueStep ==
  ASSUME TypeOK, NEW p \in Paths, GetValue(p)
  PROVE  TypeOK' /\ Seen!GetValue(Goroutine, p)
<1> DEFINE err == IF getAt(root, p) = NoValue THEN "notFound" ELSE "ok"
<1>1. p \in Path
  BY StoredAssumption
<1>2. task = Idle /\ task' = Idle /\ result' = err /\ root' = root
  BY DEF GetValue, Return
<1>3. err = IF Seen!Exists(PathsOf(root), p) THEN "ok" ELSE "notFound"
  BY <1>1, SeenExists
<1> HIDE DEF err
<1>4. TypeOK' /\ Seen!Return(Goroutine, err) /\ UNCHANGED <<PathsOf(root), {}>>
  BY <1>2, ReturnStep
<1> QED BY <1>2, <1>3, <1>4, SeenIdle, SeenCalls DEF Seen!GetValue

\* A load that goes on with a Value goes on, in Variables, with its paths.
LEMMA LoadContinues ==
  ASSUME TypeOK, NEW at \in {"checkRoot", "load"}, NEW p \in Paths \cup {<<>>}, NEW v \in Values,
         at = "checkRoot" => p = <<>>,
         Continue([at |-> at, path |-> p, value |-> v])
  PROVE  /\ TypeOK' /\ UNCHANGED PathsOf(root)
         /\ Seen!Continue(Goroutine, [at |-> at, path |-> p, value |-> PathsOf(v)])
<1>1. task' = [at |-> at, path |-> p, value |-> v] /\ root' = root /\ result' = result
  BY DEF Continue
<1>2. PathsOfTask' = [at |-> at, path |-> p, value |-> PathsOf(v)]
  BY <1>1 DEF PathsOfTask
<1>3. LoadOK(task')
  BY <1>1 DEF LoadOK
<1>4. Seen!Continue(Goroutine, PathsOfTask')
  BY <1>1, SeenContinue
<1> QED BY <1>1, <1>2, <1>3, <1>4 DEF TypeOK

LEMMA LoadGetStep ==
  ASSUME TypeOK, NEW p \in Paths, NEW v \in Values, LoadGet(p, v)
  PROVE  TypeOK' /\ Seen!LoadGet(Goroutine, p, PathsOf(v))
<1>1. p \in Path
  BY StoredAssumption
<1>2. [g \in {Goroutine} |-> PathsOfTask][Goroutine] = Seen!Idle
  BY SeenIdle, SeenCalls DEF LoadGet
<1>3. CASE p # <<>> /\ getAt(root, p) # NoValue
  <2>1. task' = Idle /\ result' = "typeConflict" /\ root' = root
    BY <1>3 DEF LoadGet, Return
  <2>2. TypeOK' /\ Seen!Return(Goroutine, "typeConflict") /\ UNCHANGED <<PathsOf(root), {}>>
    BY <2>1, ReturnStep
  <2> QED BY <1>1, <1>2, <1>3, <2>2, SeenExists, SeenLook DEF Seen!LoadGet
<1>4. CASE ~(p # <<>> /\ getAt(root, p) # NoValue)
  <2> DEFINE at == IF p = <<>> THEN "checkRoot" ELSE "load"
  <2>1. Continue([at |-> at, path |-> p, value |-> v])
    BY <1>4 DEF LoadGet
  <2>2. at \in {"checkRoot", "load"} /\ (at = "checkRoot" => p = <<>>)
    OBVIOUS
  <2> HIDE DEF at
  <2>3. /\ TypeOK' /\ UNCHANGED PathsOf(root)
        /\ Seen!Continue(Goroutine, [at |-> at, path |-> p, value |-> PathsOf(v)])
    BY <2>1, <2>2, LoadContinues
  <2> USE DEF at
  <2> QED BY <1>1, <1>2, <1>4, <2>3, SeenExists, SeenLook DEF Seen!LoadGet
<1> QED BY <1>3, <1>4

LEMMA LoadCheckRootStep ==
  ASSUME TypeOK, LoadCheckRoot
  PROVE  TypeOK' /\ Seen!LoadCheckRoot(Goroutine)
<1>1. LoadOK(task) /\ task.at = "checkRoot" /\ IsValue(root)
  BY TasksDiffer DEF LoadCheckRoot, TypeOK
<1>2. task.value \in Values
  BY <1>1 DEF LoadOK
<1>3. PathsOfTask.at = "checkRoot" /\ PathsOfTask.value = PathsOf(task.value)
  BY <1>1 DEF PathsOfTask, LoadOK
<1>4. rootHasValue(root) <=> Seen!RootHasValue(PathsOf(root))
  BY <1>1, RootHasValueAgrees, SeenCalls
<1>5. CASE rootHasValue(root)
  <2>1. task' = Idle /\ result' = "typeConflict" /\ root' = root
    BY <1>5 DEF LoadCheckRoot, Return
  <2>2. TypeOK' /\ Seen!Return(Goroutine, "typeConflict") /\ UNCHANGED <<PathsOf(root), {}>>
    BY <2>1, ReturnStep
  <2> QED BY <1>3, <1>4, <1>5, <2>2, SeenIdle, SeenLook DEF Seen!LoadCheckRoot
<1>6. CASE ~rootHasValue(root)
  <2>1. Continue([at |-> "load", path |-> <<>>, value |-> task.value])
    BY <1>6 DEF LoadCheckRoot
  <2>2. /\ TypeOK' /\ UNCHANGED PathsOf(root)
        /\ Seen!Continue(Goroutine, [at |-> "load", path |-> <<>>, value |-> PathsOf(task.value)])
    BY <1>2, <2>1, LoadContinues
  <2> QED BY <1>3, <1>4, <1>6, <2>2, SeenIdle, SeenLook DEF Seen!LoadCheckRoot
<1> QED BY <1>5, <1>6

LEMMA LoadSetStep ==
  ASSUME TypeOK, LoadSet
  PROVE  TypeOK' /\ Seen!LoadSet(Goroutine)
<1> DEFINE outcome == SetInto(root, task.path, task.value)
           t       == PathsOf(root)
<1>1. LoadOK(task) /\ task.at = "load" /\ IsValue(root)
  BY TasksDiffer DEF LoadSet, TypeOK
<1>2. task.path \in Path /\ IsValue(task.value)
  <2>1. task.path \in Paths \cup {<<>>} /\ task.value \in Values
    BY <1>1 DEF LoadOK
  <2>2. <<>> \in Path
    BY DEF Path
  <2> QED BY <2>1, <2>2, StoredAssumption
<1>3. /\ PathsOfTask.at = "load" /\ PathsOfTask.path = task.path
      /\ PathsOfTask.value = PathsOf(task.value)
  BY <1>1 DEF PathsOfTask, LoadOK
<1>4. /\ outcome.err = SetError(t, task.path)
      /\ IsValue(outcome.node)
      /\ PathsOf(outcome.node) = SetAt(t, task.path, PathsOf(task.value))
  BY <1>1, <1>2, SetIntoAgrees
<1>5. Store(outcome)
  BY DEF LoadSet
<1>6. /\ TypeOK' /\ Seen!Return(Goroutine, SetError(t, task.path))
      /\ Seen!WriteRoot(SetAt(t, task.path, PathsOf(task.value)))
  <2> HIDE DEF outcome, t
  <2> QED BY <1>4, <1>5, StoreStep
<1> QED BY <1>3, <1>6, SeenIdle, SeenSet DEF Seen!LoadSet

LEMMA InterpolateSnapshotStep ==
  ASSUME TypeOK, NEW recursive \in BOOLEAN, InterpolateSnapshot(recursive)
  PROVE  TypeOK' /\ Seen!InterpolateSnapshot(Goroutine, recursive, MaxDepth)
<1> DEFINE next(t) == [at |-> "round", snapshot |-> t, tree |-> t, depth |-> 0,
                       recursive |-> recursive, maxDepth |-> MaxDepth]
<1>1. task = Idle /\ Small /\ task' = next(root) /\ root' = root /\ result' = result
  BY DEF InterpolateSnapshot, Continue
<1>2. PathsOfTask' = next(PathsOf(root))
  BY <1>1 DEF PathsOfTask
<1>3. InterpolateOK(task')
  BY <1>1, StoredAssumption DEF InterpolateOK, TypeOK
<1>4. TypeOK'
  BY <1>1, <1>3 DEF TypeOK
<1>5. Seen!Continue(Goroutine, next(PathsOf(root)))
  BY <1>1, <1>2, SeenContinue
<1>6. Seen!Cardinality(DOMAIN PathsOf(root)) <= MaxNodes
  BY <1>1, SeenTrees DEF Small
<1>7. [g \in {Goroutine} |-> PathsOfTask][Goroutine] = Seen!Idle
  BY <1>1, SeenIdle, SeenCalls
<1> QED BY <1>1, <1>4, <1>5, <1>6, <1>7, SeenLook DEF Seen!InterpolateSnapshot

InterpolateTask(at, snapshot, tree, depth, recursive, maxDepth) ==
  [at |-> at, snapshot |-> snapshot, tree |-> tree, depth |-> depth,
   recursive |-> recursive, maxDepth |-> maxDepth]

WithAt(k, x)       == [k EXCEPT !.at = x]
WithSnapshot(k, x) == [k EXCEPT !.snapshot = x]
WithTree(k, x)     == [k EXCEPT !.tree = x]
WithDepth(k, x)    == [k EXCEPT !.depth = x]

LEMMA TaskEdits ==
  ASSUME NEW at, NEW s, NEW t, NEW d, NEW r, NEW m
  PROVE  LET k == InterpolateTask(at, s, t, d, r, m)
         IN  /\ k.at = at /\ k.snapshot = s /\ k.tree = t
             /\ k.depth = d /\ k.recursive = r /\ k.maxDepth = m
             /\ \A x : WithAt(k, x) = InterpolateTask(x, s, t, d, r, m)
             /\ \A x : WithSnapshot(k, x) = InterpolateTask(at, x, t, d, r, m)
             /\ \A x : WithTree(k, x) = InterpolateTask(at, s, x, d, r, m)
             /\ \A x : WithDepth(k, x) = InterpolateTask(at, s, t, x, r, m)
<1> DEFINE k == InterpolateTask(at, s, t, d, r, m)
<1>1. k.at = at /\ k.snapshot = s /\ k.tree = t /\ k.depth = d /\ k.recursive = r /\ k.maxDepth = m
  BY DEF InterpolateTask
<1>2. \A x : WithAt(k, x) = InterpolateTask(x, s, t, d, r, m)
  BY DEF InterpolateTask, WithAt
<1>3. \A x : WithSnapshot(k, x) = InterpolateTask(at, x, t, d, r, m)
  BY DEF InterpolateTask, WithSnapshot
<1>4. \A x : WithTree(k, x) = InterpolateTask(at, s, x, d, r, m)
  BY DEF InterpolateTask, WithTree
<1>5. \A x : WithDepth(k, x) = InterpolateTask(at, s, t, x, r, m)
  BY DEF InterpolateTask, WithDepth
<1> QED BY <1>1, <1>2, <1>3, <1>4, <1>5

LEMMA InterpolateRoundStep ==
  ASSUME TypeOK, InterpolateRound
  PROVE  TypeOK' /\ Seen!InterpolateRound(Goroutine)
<1> DEFINE next    == evaluateNode(task.tree, task.tree)
           current == PathsOf(task.tree)
           after   == EvaluateNode(current, current)
           seen    == [g \in {Goroutine} |-> PathsOfTask][Goroutine]
<1>1. InterpolateOK(task) /\ task.at = "round" /\ IsValue(task.tree) /\ IsValue(task.snapshot)
  BY TasksDiffer DEF InterpolateRound, InterpolateOK
<1>2. seen = WithTree(WithSnapshot(task, PathsOf(task.snapshot)), current)
  BY <1>1, SeenIdle DEF PathsOfTask, WithTree, WithSnapshot
<1>3. task = InterpolateTask("round", task.snapshot, task.tree, task.depth, task.recursive, task.maxDepth)
  BY <1>1 DEF InterpolateOK, InterpolateTask
<1>4. seen = InterpolateTask("round", PathsOf(task.snapshot), current, task.depth, task.recursive,
                             task.maxDepth)
  <2> HIDE DEF seen
  <2> QED BY <1>2, <1>3, TaskEdits
<1>5. /\ seen.at = "round" /\ seen.tree = current /\ seen.depth = task.depth
       /\ seen.recursive = task.recursive /\ seen.maxDepth = task.maxDepth
  <2> HIDE DEF seen
  <2> QED BY <1>4, TaskEdits
<1>6. /\ task.depth \in 0..(MaxDepth - 1) /\ task.recursive \in BOOLEAN /\ task.maxDepth = MaxDepth
  BY <1>1 DEF InterpolateOK
<1>7. next = NoValue <=> Seen!Missing(current, current)
  BY <1>1, EvaluateNodeAgrees, SeenInterpolate
<1>8. next # NoValue => IsValue(next) /\ PathsOf(next) = after
  BY <1>1, EvaluateNodeAgrees
<1>9. Seen!EvaluateNode(current, current) = after
  BY SeenInterpolate
<1>10. next # NoValue => (containsEvaluation(next) <=> Seen!ContainsEvaluation(after))
  BY <1>8, ContainsEvaluationAgrees, SeenInterpolate
<1>11. next # NoValue => (task.tree = next <=> current = after)
  BY <1>1, <1>8, SameValue
<1>12. /\ root' = root
       /\ IF next = NoValue THEN task' = Idle /\ result' = "missing"
          ELSE IF ~task.recursive \/ ~containsEvaluation(next)
          THEN task' = [task EXCEPT !.at = "publish", !.tree = next] /\ result' = result
          ELSE IF task.tree = next \/ task.depth + 1 >= task.maxDepth
          THEN task' = Idle /\ result' = "cycleDetected"
          ELSE task' = [task EXCEPT !.tree = next, !.depth = @ + 1] /\ result' = result
  BY DEF InterpolateRound, Return, Continue
<1> HIDE DEF next, after, seen
<1>13. CASE next = NoValue
  <2>1. TypeOK' /\ Seen!Return(Goroutine, "missing") /\ UNCHANGED <<PathsOf(root), {}>>
    BY <1>12, <1>13, ReturnStep
  <2> QED BY <1>5, <1>7, <1>13, <2>1 DEF Seen!InterpolateRound, seen
<1>14. CASE next # NoValue /\ (~task.recursive \/ ~containsEvaluation(next))
  <2>1. task' = InterpolateTask("publish", task.snapshot, next, task.depth, task.recursive, task.maxDepth)
    <3>1. task' = WithTree(WithAt(task, "publish"), next)
      BY <1>12, <1>14 DEF WithTree, WithAt
    <3> QED BY <1>3, <3>1, TaskEdits
  <2>2. InterpolateOK(task')
    BY <1>1, <1>6, <1>8, <1>14, <2>1 DEF InterpolateOK, InterpolateTask
  <2>3. TypeOK'
    BY <1>12, <2>2 DEF TypeOK
  <2>4. PathsOfTask' = [seen EXCEPT !.at = "publish", !.tree = after]
    <3>1. task'.at = "publish" /\ task'.snapshot = task.snapshot /\ task'.tree = next
      BY <2>1, TaskEdits
    <3>2. PathsOfTask' = WithTree(WithSnapshot(task', PathsOf(task'.snapshot)), PathsOf(task'.tree))
      BY <3>1 DEF PathsOfTask, WithTree, WithSnapshot
    <3>3. PathsOfTask' = InterpolateTask("publish", PathsOf(task.snapshot), PathsOf(next), task.depth,
                                         task.recursive, task.maxDepth)
      BY <2>1, <3>1, <3>2, TaskEdits
    <3>4. WithTree(WithAt(seen, "publish"), after)
            = InterpolateTask("publish", PathsOf(task.snapshot), after, task.depth, task.recursive,
                              task.maxDepth)
      BY <1>4, TaskEdits
    <3> QED BY <1>8, <1>14, <3>3, <3>4 DEF WithTree, WithAt
  <2>5. Seen!Continue(Goroutine, [seen EXCEPT !.at = "publish", !.tree = after])
    BY <1>12, <1>14, <2>4, SeenContinue
  <2>6. UNCHANGED <<PathsOf(root), {}>>
    BY <1>12
  <2> QED BY <1>5, <1>7, <1>9, <1>10, <1>14, <2>3, <2>5, <2>6 DEF Seen!InterpolateRound, seen
<1>15. CASE /\ next # NoValue /\ task.recursive /\ containsEvaluation(next)
            /\ task.tree = next \/ task.depth + 1 >= task.maxDepth
  <2>1. TypeOK' /\ Seen!Return(Goroutine, "cycleDetected") /\ UNCHANGED <<PathsOf(root), {}>>
    BY <1>12, <1>15, ReturnStep
  <2> QED BY <1>5, <1>7, <1>9, <1>10, <1>11, <1>15, <2>1 DEF Seen!InterpolateRound, seen
<1>16. CASE /\ next # NoValue /\ task.recursive /\ containsEvaluation(next)
            /\ ~(task.tree = next \/ task.depth + 1 >= task.maxDepth)
  <2>1. task' = InterpolateTask("round", task.snapshot, next, task.depth + 1, task.recursive, task.maxDepth)
    <3>1. task' = WithDepth(WithTree(task, next), task.depth + 1)
      BY <1>12, <1>16 DEF WithTree, WithDepth
    <3> QED BY <1>3, <3>1, TaskEdits
  <2>2. task.depth + 1 \in 0..(MaxDepth - 1)
    BY <1>6, <1>16, StoredAssumption
  <2>3. InterpolateOK(task')
    BY <1>1, <1>6, <1>8, <1>16, <2>1, <2>2 DEF InterpolateOK, InterpolateTask
  <2>4. TypeOK'
    BY <1>12, <2>3 DEF TypeOK
  <2>5. PathsOfTask' = [seen EXCEPT !.tree = after, !.depth = @ + 1]
    <3>1. task'.at = "round" /\ task'.snapshot = task.snapshot /\ task'.tree = next
      BY <2>1, TaskEdits
    <3>2. PathsOfTask' = WithTree(WithSnapshot(task', PathsOf(task'.snapshot)), PathsOf(task'.tree))
      BY <3>1 DEF PathsOfTask, WithTree, WithSnapshot
    <3>3. PathsOfTask' = InterpolateTask("round", PathsOf(task.snapshot), PathsOf(next), task.depth + 1,
                                         task.recursive, task.maxDepth)
      BY <2>1, <3>1, <3>2, TaskEdits
    <3>4. WithDepth(WithTree(seen, after), seen.depth + 1)
            = InterpolateTask("round", PathsOf(task.snapshot), after, task.depth + 1, task.recursive,
                              task.maxDepth)
      BY <1>4, <1>5, TaskEdits
    <3> QED BY <1>8, <1>16, <3>3, <3>4 DEF WithTree, WithDepth
  <2>6. Seen!Continue(Goroutine, [seen EXCEPT !.tree = after, !.depth = @ + 1])
    BY <1>12, <1>16, <2>5, SeenContinue
  <2>7. UNCHANGED <<PathsOf(root), {}>>
    BY <1>12
  <2> QED BY <1>5, <1>7, <1>9, <1>10, <1>11, <1>16, <2>4, <2>6, <2>7 DEF Seen!InterpolateRound, seen
<1> QED BY <1>13, <1>14, <1>15, <1>16

LEMMA InterpolatePublishStep ==
  ASSUME TypeOK, InterpolatePublish
  PROVE  TypeOK' /\ Seen!InterpolatePublish(Goroutine)
<1> DEFINE outcome == Outcome("ok", task.tree)
<1>1. InterpolateOK(task) /\ task.at = "publish" /\ IsValue(task.tree)
  BY TasksDiffer DEF InterpolatePublish, InterpolateOK
<1>2. PathsOfTask.at = "publish" /\ PathsOfTask.tree = PathsOf(task.tree)
  BY <1>1 DEF PathsOfTask, InterpolateOK
<1>3. Store(outcome) /\ outcome.err = "ok" /\ outcome.node = task.tree
  BY DEF InterpolatePublish, Outcome
<1> HIDE DEF outcome
<1>4. TypeOK' /\ Seen!Return(Goroutine, "ok") /\ Seen!WriteRoot(PathsOf(task.tree))
  BY <1>1, <1>3, StoreStep
<1> QED BY <1>2, <1>4, SeenIdle DEF Seen!InterpolatePublish

-----------------------------------------------------------------------------
LEMMA InitIsSeen == ASSUME Init PROVE TypeOK /\ Seen!Init
<1>1. IsValue(root) /\ PathsOf(root) = EmptyObject
  BY EmptyValues DEF Init, NewContainer, Key, EmptyObject
<1>2. task = Idle /\ result = "ok" /\ PathsOfTask = Idle
  BY SeenIdle DEF Init
<1> QED BY <1>1, <1>2, SeenCalls DEF TypeOK, Seen!Init

LEMMA StepIsSeen ==
  ASSUME TypeOK, [Next]_vars
  PROVE  TypeOK' /\ [Seen!Next]_Seen!vars
<1> DEFINE seenValues == {PathsOf(v) : v \in Values}
<1>1. ASSUME NEW p \in Paths, Delete(p) PROVE TypeOK' /\ Seen!Next
  BY <1>1, DeleteStep DEF Seen!Next, Seen!Call
<1>2. ASSUME NEW p \in Paths, GetValue(p) PROVE TypeOK' /\ Seen!Next
  BY <1>2, GetValueStep DEF Seen!Next, Seen!Call
<1>3. ASSUME NEW p \in Paths, NEW v \in Values,
             SetValue(p, v) \/ AppendValue(p, v) \/ MergeValue(p, v) \/ LoadGet(p, v)
      PROVE  TypeOK' /\ Seen!Next
  <2>1. /\ TypeOK'
        /\ \/ Seen!SetValue(Goroutine, p, PathsOf(v))
           \/ Seen!AppendValue(Goroutine, p, PathsOf(v))
           \/ Seen!MergeValue(Goroutine, p, PathsOf(v))
           \/ Seen!LoadGet(Goroutine, p, PathsOf(v))
    BY <1>3, SetValueStep, AppendValueStep, MergeValueStep, LoadGetStep
  <2>2. PathsOf(v) \in seenValues
    OBVIOUS
  <2>3. Seen!Call(Goroutine)
    BY <2>1, <2>2 DEF Seen!Call
  <2> QED BY <2>1, <2>3 DEF Seen!Next
<1>4. ASSUME NEW recursive \in BOOLEAN, InterpolateSnapshot(recursive) PROVE TypeOK' /\ Seen!Next
  <2>1. TypeOK' /\ Seen!InterpolateSnapshot(Goroutine, recursive, MaxDepth)
    BY <1>4, InterpolateSnapshotStep
  <2> QED BY <2>1 DEF Seen!Next, Seen!Call
<1>5. CASE LoadCheckRoot
  BY <1>5, LoadCheckRootStep DEF Seen!Next, Seen!Proceed
<1>6. CASE LoadSet
  BY <1>6, LoadSetStep DEF Seen!Next, Seen!Proceed
<1>7. CASE InterpolateRound
  BY <1>7, InterpolateRoundStep DEF Seen!Next, Seen!Proceed
<1>8. CASE InterpolatePublish
  BY <1>8, InterpolatePublishStep DEF Seen!Next, Seen!Proceed
<1>9. CASE UNCHANGED vars
  BY <1>9 DEF vars, TypeOK, Seen!vars, PathsOfTask
<1> QED BY <1>1, <1>2, <1>3, <1>4, <1>5, <1>6, <1>7, <1>8, <1>9 DEF Next

\* The inputs are ones that Variables assumes of its callers.
LEMMA SeenInputs ==
  /\ \A v \in {PathsOf(x) : x \in Values} \cup {EmptyObject} : WellFormed(v)
  /\ Paths \subseteq Path /\ {MaxDepth} \subseteq Nat \ {0} /\ MaxNodes \in Nat
<1>1. \A x \in Values : WellFormed(PathsOf(x))
  BY StoredAssumption, ValueIsShown
<1>2. WellFormed(EmptyObject)
  <2>1. NewContainer(Key("any")) = Object
    BY DEF NewContainer, Key
  <2>2. IsValue(emptyContainer(Key("any"))) /\ PathsOf(emptyContainer(Key("any"))) = EmptyObject
    BY <2>1, EmptyValues DEF EmptyObject
  <2> QED BY <2>2, ValueIsShown
<1> QED BY <1>1, <1>2, StoredAssumption

(***************************************************************************)
(* The root and every tree that a call is working on are Values: finite,   *)
(* with one of the kinds of value.go in each place, whatever is stored     *)
(* where; and Interpolate keeps within its maxDepth.                       *)
(***************************************************************************)
THEOREM TypeOKHolds == Spec => []TypeOK
<1>1. Init => TypeOK
  BY InitIsSeen
<1>2. TypeOK /\ [Next]_vars => TypeOK'
  BY StepIsSeen
<1> QED BY <1>1, <1>2, PTL DEF Spec

(***************************************************************************)
(* The recursions of setAt, deleteAt, AppendValue, mergeNodes, getAt and   *)
(* evaluateNode over nested Values do what module Variables says of the    *)
(* tree on paths: every run of the one is a run of the other, errors       *)
(* included.  So what is proved of Variables is proved of the Values.      *)
(***************************************************************************)
THEOREM StoredImplementsVariables == Spec => ImplementsVariables
<1>1. Init => Seen!Init
  BY InitIsSeen
<1>2. TypeOK /\ [Next]_vars => [Seen!Next]_Seen!vars
  BY StepIsSeen
<1> QED BY <1>1, <1>2, TypeOKHolds, PTL DEF Spec, ImplementsVariables, Seen!Spec

=============================================================================
