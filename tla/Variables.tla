------------------------------ MODULE Variables ------------------------------
(***************************************************************************)
(* The Variables container, used by several goroutines at once.            *)
(*                                                                         *)
(* Every method that takes v.mu does all its work between Lock and Unlock, *)
(* or RLock and RUnlock, so a critical section is one action here.  The    *)
(* methods made of several sections are where goroutines interleave:       *)
(* loading with ErrorOnConflict looks, unlocks and then writes, and        *)
(* Interpolate takes a snapshot, evaluates it unlocked and then replaces   *)
(* the root.  Module LockedRead is about what happens inside the sections. *)
(***************************************************************************)
EXTENDS Interpolation

CONSTANTS
  Goroutines,
  Paths,       \* the paths the callers use
  Values,      \* the values they store and load
  InitialRoots,\* the trees the goroutines may start from
  MaxDepths,   \* the depths given to WithMaxDepth
  MaxNodes     \* bound: trees with more nodes are neither appended to nor interpolated

ASSUME InputsAssumption ==
  /\ Paths \subseteq Path
  /\ \A v \in Values \cup InitialRoots : WellFormed(v)
  /\ MaxDepths \subseteq Nat \ {0}
  /\ MaxNodes \in Nat

VARIABLES
  root,        \* v.root
  task,        \* what each goroutine is in the middle of
  result,      \* what each goroutine's last call returned
  overlapped   \* history: the goroutines since whose last look the root has changed

vars == <<root, task, result, overlapped>>

Idle == [at |-> "idle"]
Errors == {"notFound", "typeConflict", "indexOutOfRange", "cycleDetected", "missing"}

Init ==
  /\ root \in InitialRoots
  /\ task = [g \in Goroutines |-> Idle]
  /\ result = [g \in Goroutines |-> "ok"]
  /\ overlapped = {}

(***************************************************************************)
(* The end of a critical section.  Return ends the call as well.           *)
(***************************************************************************)
WriteRoot(t) ==
  /\ root' = t
  /\ overlapped' = {g \in Goroutines : task'[g] # Idle /\ (g \in overlapped \/ t # root)}

Return(g, err) ==
  /\ task' = [task EXCEPT ![g] = Idle]
  /\ result' = [result EXCEPT ![g] = err]

Continue(g, next) ==
  /\ task' = [task EXCEPT ![g] = next]
  /\ UNCHANGED result

(***************************************************************************)
(* The methods that are a single critical section.                         *)
(***************************************************************************)
SetValue(g, p, v) ==
  /\ task[g] = Idle
  /\ Return(g, SetError(root, p))
  /\ WriteRoot(SetAt(root, p, v))

AppendValue(g, p, v) ==
  /\ task[g] = Idle
  /\ IF AppendCheck(root, p) # "ok"
     THEN Return(g, AppendCheck(root, p)) /\ UNCHANGED <<root, overlapped>>
     ELSE /\ Cardinality(DOMAIN root) <= MaxNodes
          /\ Return(g, SetError(root, p))
          /\ WriteRoot(SetAt(root, p, Appended(root, p, v)))

Delete(g, p) ==
  /\ task[g] = Idle
  /\ IF p = <<>>
     THEN Return(g, "ok") /\ WriteRoot(EmptyObject)
     ELSE IF DeleteCheck(root, p) # "ok"
     THEN Return(g, DeleteCheck(root, p)) /\ UNCHANGED <<root, overlapped>>
     ELSE /\ Return(g, SetError(Cut(root, p), Front(p)))
          /\ WriteRoot(DeleteAt(root, p))

\* mergeValue, reached by loading with DeepMerge.
MergeValue(g, p, v) ==
  /\ task[g] = Idle
  /\ Return(g, SetError(root, p))
  /\ WriteRoot(MergeAt(root, p, v))

\* GetValue, and Exists, Get, Decode, Items and Children, which answer from it.
GetValue(g, p) ==
  /\ task[g] = Idle
  /\ Return(g, IF Exists(root, p) THEN "ok" ELSE "notFound")
  /\ UNCHANGED <<root, overlapped>>

(***************************************************************************)
(* Loading with ErrorOnConflict: the occupied prefix is looked for in one  *)
(* critical section, and at the root in two, the value set in another.     *)
(***************************************************************************)
Occupied(t, p) == IF p = <<>> THEN RootHasValue(t) ELSE Exists(t, p)

Look(g) == overlapped' = overlapped \ {g}

\* A mistake: the root is not checked.
LoadGetUnchecked(g, p, v) ==
  /\ task[g] = Idle
  /\ IF p # <<>> /\ Exists(root, p)
     THEN Return(g, "typeConflict")
     ELSE Continue(g, [at |-> "load", path |-> p, value |-> v])
  /\ Look(g)
  /\ UNCHANGED root

LoadGet(g, p, v) ==
  /\ task[g] = Idle
  /\ IF p # <<>> /\ Exists(root, p)
     THEN Return(g, "typeConflict")
     ELSE Continue(g, [at |-> IF p = <<>> THEN "checkRoot" ELSE "load", path |-> p, value |-> v])
  /\ Look(g)
  /\ UNCHANGED root

LoadCheckRoot(g) ==
  /\ task[g].at = "checkRoot"
  /\ IF RootHasValue(root)
     THEN Return(g, "typeConflict")
     ELSE Continue(g, [at |-> "load", path |-> <<>>, value |-> task[g].value])
  /\ Look(g)
  /\ UNCHANGED root

LoadSet(g) ==
  /\ task[g].at = "load"
  /\ Return(g, SetError(root, task[g].path))
  /\ WriteRoot(SetAt(root, task[g].path, task[g].value))

(***************************************************************************)
(* Interpolate: a snapshot, rounds of evaluation on it, then the new root. *)
(***************************************************************************)
InterpolateSnapshot(g, recursive, maxDepth) ==
  /\ task[g] = Idle
  /\ Cardinality(DOMAIN root) <= MaxNodes
  /\ Continue(g, [at |-> "round", snapshot |-> root, tree |-> root, depth |-> 0,
                  recursive |-> recursive, maxDepth |-> maxDepth])
  /\ Look(g)
  /\ UNCHANGED root

\* A mistake: every round looks references up in the first tree.
InterpolateRoundOverSnapshot(g) ==
  /\ task[g].at = "round"
  /\ LET current == task[g].tree
         next    == EvaluateNode(current, task[g].snapshot)
     IN  IF Missing(current, current) THEN Return(g, "missing")
         ELSE IF ~task[g].recursive \/ ~ContainsEvaluation(next)
         THEN Continue(g, [task[g] EXCEPT !.at = "publish", !.tree = next])
         ELSE IF current = next \/ task[g].depth + 1 >= task[g].maxDepth
         THEN Return(g, "cycleDetected")
         ELSE Continue(g, [task[g] EXCEPT !.tree = next, !.depth = @ + 1])
  /\ UNCHANGED <<root, overlapped>>

\* A mistake: two rounds are counted as one.
InterpolateRoundTwice(g) ==
  /\ task[g].at = "round"
  /\ LET current == task[g].tree
         once    == EvaluateNode(current, current)
         next    == EvaluateNode(once, once)
     IN  IF Missing(current, current) THEN Return(g, "missing")
         ELSE IF ~task[g].recursive \/ ~ContainsEvaluation(next)
         THEN Continue(g, [task[g] EXCEPT !.at = "publish", !.tree = next])
         ELSE IF current = next \/ task[g].depth + 1 >= task[g].maxDepth
         THEN Return(g, "cycleDetected")
         ELSE Continue(g, [task[g] EXCEPT !.tree = next, !.depth = @ + 1])
  /\ UNCHANGED <<root, overlapped>>

\* A mistake: what is taken for a cycle is tried again.
InterpolateRoundAgain(g) ==
  /\ task[g].at = "round"
  /\ LET current == task[g].tree
         next    == EvaluateNode(current, current)
     IN  IF Missing(current, current) THEN Return(g, "missing")
         ELSE IF ~task[g].recursive \/ ~ContainsEvaluation(next)
         THEN Continue(g, [task[g] EXCEPT !.at = "publish", !.tree = next])
         ELSE IF current = next \/ task[g].depth + 1 >= task[g].maxDepth
         THEN Continue(g, [task[g] EXCEPT !.tree = task[g].snapshot, !.depth = 0])
         ELSE Continue(g, [task[g] EXCEPT !.tree = next, !.depth = @ + 1])
  /\ UNCHANGED <<root, overlapped>>

InterpolateRound(g) ==
  /\ task[g].at = "round"
  /\ LET current == task[g].tree
         next    == EvaluateNode(current, current)
     IN  IF Missing(current, current) THEN Return(g, "missing")
         ELSE IF ~task[g].recursive \/ ~ContainsEvaluation(next)
         THEN Continue(g, [task[g] EXCEPT !.at = "publish", !.tree = next])
         ELSE IF current = next \/ task[g].depth + 1 >= task[g].maxDepth
         THEN Return(g, "cycleDetected")
         ELSE Continue(g, [task[g] EXCEPT !.tree = next, !.depth = @ + 1])
  /\ UNCHANGED <<root, overlapped>>

InterpolatePublish(g) ==
  /\ task[g].at = "publish"
  /\ Return(g, "ok")
  /\ WriteRoot(task[g].tree)

Call(g) ==
  \/ \E p \in Paths :
       \/ Delete(g, p)
       \/ GetValue(g, p)
       \/ \E v \in Values :
            \/ SetValue(g, p, v)
            \/ AppendValue(g, p, v)
            \/ MergeValue(g, p, v)
            \/ LoadGet(g, p, v)
  \/ \E recursive \in BOOLEAN, maxDepth \in MaxDepths : InterpolateSnapshot(g, recursive, maxDepth)

\* A call under way goes on without waiting for anything.
Proceed(g) ==
  \/ LoadCheckRoot(g)
  \/ LoadSet(g)
  \/ InterpolateRound(g)
  \/ InterpolatePublish(g)

Next == \E g \in Goroutines : Call(g) \/ Proceed(g)

Spec == Init /\ [][Next]_vars

\* The Go scheduler runs every goroutine that can run.
FairSpec == Spec /\ \A g \in Goroutines : WF_vars(Proceed(g))

-----------------------------------------------------------------------------
(***************************************************************************)
(* Type invariant: the root, and every tree a goroutine is working on, is  *)
(* one a Value can be.                                                     *)
(***************************************************************************)
LoadOK(k) ==
  /\ k \in [at: {"checkRoot", "load"}, path: Paths \cup {<<>>}, value: Values]
  /\ k.at = "checkRoot" => k.path = <<>>

InterpolateOK(k) ==
  /\ k.at \in {"round", "publish"}
  /\ k \in [at: {"round", "publish"}, snapshot: {k.snapshot}, tree: {k.tree},
            depth: 0..(k.maxDepth - 1), recursive: BOOLEAN, maxDepth: MaxDepths]
  /\ WellFormed(k.snapshot) /\ WellFormed(k.tree)

TaskOK(k) == k = Idle \/ LoadOK(k) \/ InterpolateOK(k)

TypeOK ==
  /\ WellFormed(root)
  /\ task = [g \in Goroutines |-> task[g]]
  /\ \A g \in Goroutines : TaskOK(task[g])
  /\ result \in [Goroutines -> Errors \cup {"ok"}]
  /\ overlapped \subseteq Goroutines

(***************************************************************************)
(* deleteAt and AppendValue have already changed, or are committed to,     *)
(* their target when they call setAt to write it back, and setAt can fail. *)
(* In no reachable tree does it: a delete or an append that found its      *)
(* target reports success.                                                 *)
(***************************************************************************)
WriteBackNeverFails ==
  \A p \in Paths :
    /\ p # <<>> /\ DeleteCheck(root, p) = "ok" => SetSucceeds(Cut(root, p), Front(p))
    /\ AppendCheck(root, p) = "ok" => SetSucceeds(root, p)

Acts(g) == Call(g) \/ Proceed(g)

\* The nodes that lead to p, and the elements that an array needs before the
\* one that p goes through.
Above(p)  == {Prefix(p, n) : n \in 0..(Len(p) - 1)}
Before(p) ==
  UNION {{Append(Prefix(p, n - 1), Index(j)) : j \in 0..(p[n].index - 1)} :
           n \in {n \in 1..Len(p) : p[n].kind = "index"}}

\* root' has the nodes of root outside p, except that nulls that lead to p, the
\* root never, may have become the containers that p needs there.  What is new
\* outside p is such a container, or a null before p in an array.
UnchangedOutside(p) ==
  LET opened(q) == q \in Above(p) /\ root'[q] = NewContainer(p[Len(q) + 1])
  IN  /\ \A q \in DOMAIN root \ Under(root, p) :
           q \in DOMAIN root' /\ (root'[q] = root[q] \/ (root[q] = Null /\ q # <<>> /\ opened(q)))
      /\ \A q \in DOMAIN root' \ (Under(root', p) \cup DOMAIN root) :
           opened(q) \/ (q \in Before(p) /\ root'[q] = Null)

(***************************************************************************)
(* A successful Set stores the value and changes nothing beside its path.  *)
(***************************************************************************)
SetIsLocal ==
  [][\A g \in Goroutines, p \in Paths, v \in Values :
       SetValue(g, p, v) /\ result'[g] = "ok" => Sub(root', p) = v /\ UnchangedOutside(p)]_vars

(***************************************************************************)
(* A call that reports an error leaves the tree as it was, with one        *)
(* exception in the code: a Set may have appended nulls to a root array.   *)
(***************************************************************************)
OnlyRootPadded ==
  /\ root[<<>>] = Array
  /\ \A q \in DOMAIN root : q \in DOMAIN root' /\ root'[q] = root[q]
  /\ \A q \in DOMAIN root' \ DOMAIN root : Len(q) = 1 /\ root'[q] = Null

ErrorsLeaveTheTree ==
  [][\A g \in Goroutines :
       Acts(g) /\ result'[g] # "ok" => root' = root \/ OnlyRootPadded]_vars

(***************************************************************************)
(* Deleting an element of an array leaves every other element at its       *)
(* index: no call but one on an enclosing path moves or removes it.        *)
(***************************************************************************)
DeleteIsLocal ==
  [][\A g \in Goroutines, p \in Paths :
       Delete(g, p) /\ result'[g] = "ok"
         => /\ UnchangedOutside(p)
            /\ p # <<>> => Under(root', p) = {q \in {p} : Last(p).kind = "index"}]_vars

(***************************************************************************)
(* Append leaves every existing element of the array where it is.          *)
(***************************************************************************)
AppendKeepsElements ==
  [][\A g \in Goroutines, p \in Paths, v \in Values :
       AppendValue(g, p, v) /\ result'[g] = "ok"
         => /\ \A q \in DOMAIN root : q \in DOMAIN root' /\ root'[q] = root[q]
            /\ Sub(root', Append(p, Index(Length(root, p)))) = v]_vars

(***************************************************************************)
(* A deep merge delivers everything it loads, keeps what is beside its     *)
(* prefix, and done again changes nothing.                                 *)
(***************************************************************************)
MergeDelivers ==
  [][\A g \in Goroutines, p \in Paths, v \in Values :
       MergeValue(g, p, v) /\ result'[g] = "ok"
         => /\ \A r \in DOMAIN v : p \o r \in DOMAIN root' /\ root'[p \o r] = v[r]
            /\ UnchangedOutside(p)
            /\ MergeAt(root', p, v) = root']_vars

(***************************************************************************)
(* What is at a path is lost to an ErrorOnConflict load only if another    *)
(* goroutine put it there after the load had looked.                       *)
(***************************************************************************)
ConflictCheckHolds ==
  \A g \in Goroutines :
    task[g].at = "load" /\ g \notin overlapped => ~Occupied(root, task[g].path)

\* What the tests expect of ErrorOnConflict: it fails rather than overwrite.
NeverOverwritesOnConflict ==
  [][\A g \in Goroutines : LoadSet(g) => ~Occupied(root, task[g].path)]_vars

(***************************************************************************)
(* An Interpolate during which nobody else wrote only replaces templates:  *)
(* everything else in the tree is still there, with its value.             *)
(***************************************************************************)
InterpolateReplacesTemplatesOnly ==
  [][\A g \in Goroutines :
       InterpolatePublish(g) /\ g \notin overlapped
         => \A q \in DOMAIN root :
              q \in DOMAIN root' /\ (root[q] \in Templates \/ root'[q] = root[q])]_vars

(***************************************************************************)
(* A recursive Interpolate that succeeds leaves no template behind, and    *)
(* where a template was there is now what stands at the path it refers to. *)
(***************************************************************************)
InterpolateResolves ==
  [][\A g \in Goroutines :
       InterpolatePublish(g) /\ task[g].recursive
         => LET snapshot == task[g].snapshot
            IN  /\ ~ContainsEvaluation(root')
                /\ \A q \in TemplatesOf(snapshot) : Sub(root', q) = Sub(root', Ref[snapshot[q]])]_vars

(***************************************************************************)
(* Each round halves every chain of references, as the environment it is   *)
(* evaluated in is the result of the round before.  So maxDepth rounds are *)
(* too few, and ErrCycleDetected is the answer, exactly when 2^maxDepth    *)
(* templates follow one another; a cycle is such a chain for any maxDepth. *)
(***************************************************************************)
ChainOf(t, n) ==
  \E c \in [1..n -> TemplatesOf(t)] : \A i \in 1..(n - 1) : IsPrefix(Ref[t[c[i]]], c[i + 1])

CycleMeansLongChain ==
  [][\A g \in Goroutines :
       /\ task[g].at = "round" /\ task[g].recursive
       /\ task'[g].at # "round" /\ result'[g] # "missing"
       => (task'[g] = Idle <=> ChainOf(task[g].snapshot, 2^task[g].maxDepth))]_vars

(***************************************************************************)
(* References to containers that hold references, or to the root, make the *)
(* tree of an Interpolate grow, but in each of its at most maxDepth rounds *)
(* to no more than the square of the number of its nodes.                  *)
(***************************************************************************)
RoundsAtMostSquare ==
  [][\A g \in Goroutines :
       InterpolateRound(g) /\ task'[g] # Idle
         => Cardinality(DOMAIN task'[g].tree)
              <= Cardinality(DOMAIN task[g].tree) * Cardinality(DOMAIN task[g].tree)]_vars

(***************************************************************************)
(* Interpolate comes to an end whatever its templates refer to, cycles     *)
(* included, and so does every other call.                                 *)
(***************************************************************************)
CallsReturn == \A g \in Goroutines : task[g] # Idle ~> task[g] = Idle

(***************************************************************************)
(* Each step of a call brings its end nearer, and nothing that others do   *)
(* puts it off: how long it takes is known when it begins, in rounds of    *)
(* Interpolate at most maxDepth.                                           *)
(***************************************************************************)
StepsLeft(k) ==
  IF k.at = "checkRoot" THEN 2
  ELSE IF k.at \in {"load", "publish"} THEN 1
  ELSE IF k.at = "round" THEN k.maxDepth - k.depth + 1
  ELSE 0

CallsComeToAnEnd ==
  [][\A g \in Goroutines :
       /\ Proceed(g) => StepsLeft(task'[g]) < StepsLeft(task[g])
       /\ task[g] # Idle => StepsLeft(task[g]) > 0 /\ StepsLeft(task'[g]) <= StepsLeft(task[g])]_vars

=============================================================================
