--------------------------- MODULE StoredVariables ---------------------------
(***************************************************************************)
(* The Variables container with its tree as it is stored, run by one       *)
(* goroutine, and shown to be the container of module Variables.           *)
(***************************************************************************)
EXTENDS ValueTree

CONSTANTS
  Paths,       \* the paths the caller uses
  Values,      \* the Values it stores and loads
  MaxDepth,    \* the depth given to WithMaxDepth
  MaxNodes     \* bound: trees with more nodes are neither appended to nor interpolated

ASSUME StoredAssumption ==
  /\ Paths \subseteq Path
  /\ \A v \in Values : IsValue(v)
  /\ MaxDepth \in Nat \ {0} /\ MaxNodes \in Nat

VARIABLES
  root,        \* v.root
  task,        \* what the caller is in the middle of
  result       \* what its last call returned

vars == <<root, task, result>>

Idle == [at |-> "idle"]

Init ==
  /\ root = emptyContainer(Key("any"))
  /\ task = Idle
  /\ result = "ok"

Small == Cardinality(DOMAIN PathsOf(root)) <= MaxNodes

Store(outcome) ==
  /\ task' = Idle
  /\ result' = outcome.err
  /\ root' = outcome.node

Return(err) ==
  /\ task' = Idle
  /\ result' = err
  /\ UNCHANGED root

Continue(next) ==
  /\ task' = next
  /\ UNCHANGED <<root, result>>

SetValue(p, v) == task = Idle /\ Store(SetInto(root, p, v))

AppendValue(p, v) ==
  /\ task = Idle
  /\ Small \/ getAt(root, p).kind # Array
  /\ Store(appendAt(root, p, v))

Delete(p) ==
  /\ task = Idle
  /\ Store(IF p = <<>> THEN Outcome("ok", emptyContainer(Key("any"))) ELSE deleteAt(root, p))

MergeValue(p, v) == task = Idle /\ Store(mergeAt(root, p, v))

GetValue(p) ==
  /\ task = Idle
  /\ Return(IF getAt(root, p) = NoValue THEN "notFound" ELSE "ok")

LoadGet(p, v) ==
  /\ task = Idle
  /\ IF p # <<>> /\ getAt(root, p) # NoValue
     THEN Return("typeConflict")
     ELSE Continue([at |-> IF p = <<>> THEN "checkRoot" ELSE "load", path |-> p, value |-> v])

LoadCheckRoot ==
  /\ task.at = "checkRoot"
  /\ IF rootHasValue(root) THEN Return("typeConflict")
     ELSE Continue([at |-> "load", path |-> <<>>, value |-> task.value])

LoadSet == task.at = "load" /\ Store(SetInto(root, task.path, task.value))

InterpolateSnapshot(recursive) ==
  /\ task = Idle /\ Small
  /\ Continue([at |-> "round", snapshot |-> root, tree |-> root, depth |-> 0,
               recursive |-> recursive, maxDepth |-> MaxDepth])

\* A mistake: one round more than maxDepth.
InterpolateRoundTooOften ==
  /\ task.at = "round"
  /\ LET next == evaluateNode(task.tree, task.tree)
     IN  IF next = NoValue THEN Return("missing")
         ELSE IF ~task.recursive \/ ~containsEvaluation(next)
         THEN Continue([task EXCEPT !.at = "publish", !.tree = next])
         ELSE IF task.tree = next \/ task.depth + 1 > task.maxDepth
         THEN Return("cycleDetected")
         ELSE Continue([task EXCEPT !.tree = next, !.depth = @ + 1])

InterpolateRound ==
  /\ task.at = "round"
  /\ LET next == evaluateNode(task.tree, task.tree)
     IN  IF next = NoValue THEN Return("missing")
         ELSE IF ~task.recursive \/ ~containsEvaluation(next)
         THEN Continue([task EXCEPT !.at = "publish", !.tree = next])
         ELSE IF task.tree = next \/ task.depth + 1 >= task.maxDepth
         THEN Return("cycleDetected")
         ELSE Continue([task EXCEPT !.tree = next, !.depth = @ + 1])

InterpolatePublish == task.at = "publish" /\ Store(Outcome("ok", task.tree))

Next ==
  \/ \E p \in Paths : Delete(p) \/ GetValue(p)
  \/ \E p \in Paths, v \in Values :
       SetValue(p, v) \/ AppendValue(p, v) \/ MergeValue(p, v) \/ LoadGet(p, v)
  \/ \E recursive \in BOOLEAN : InterpolateSnapshot(recursive)
  \/ LoadCheckRoot \/ LoadSet \/ InterpolateRound \/ InterpolatePublish

Spec == Init /\ [][Next]_vars

-----------------------------------------------------------------------------
(***************************************************************************)
(* Type invariant: the root, and every tree the caller is working on, is a *)
(* Value, finite and without a node that Go could not hold; a round that   *)
(* is still to come is within the depth that was asked for.                *)
(***************************************************************************)
LoadOK(k) ==
  /\ k \in [at: {"checkRoot", "load"}, path: Paths \cup {<<>>}, value: Values]
  /\ k.at = "checkRoot" => k.path = <<>>

InterpolateOK(k) ==
  /\ k.at \in {"round", "publish"}
  /\ k \in [at: {"round", "publish"}, snapshot: {k.snapshot}, tree: {k.tree},
            depth: 0..(MaxDepth - 1), recursive: BOOLEAN, maxDepth: {MaxDepth}]
  /\ IsValue(k.snapshot) /\ IsValue(k.tree)

TypeOK == IsValue(root) /\ (task = Idle \/ LoadOK(task) \/ InterpolateOK(task))

(***************************************************************************)
(* Seen through its paths, the tree goes through the same states as that   *)
(* of module Variables, and every call returns the same error: the         *)
(* recursions of the source and the definitions on paths agree on every    *)
(* tree the calls can build.                                               *)
(***************************************************************************)
Goroutine == "g"

PathsOfTask ==
  IF task.at \in {"checkRoot", "load"} THEN [task EXCEPT !.value = PathsOf(@)]
  ELSE IF task.at \in {"round", "publish"}
  THEN [task EXCEPT !.snapshot = PathsOf(@), !.tree = PathsOf(@)]
  ELSE task

Seen == INSTANCE Variables WITH
  Goroutines   <- {Goroutine},
  Values       <- {PathsOf(v) : v \in Values},
  InitialRoots <- {EmptyObject},
  MaxDepths    <- {MaxDepth},
  root         <- PathsOf(root),
  task         <- [g \in {Goroutine} |-> PathsOfTask],
  result       <- [g \in {Goroutine} |-> result],
  overlapped   <- {}

ImplementsVariables == Seen!Spec

=============================================================================
