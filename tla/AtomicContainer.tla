--------------------------- MODULE AtomicContainer ---------------------------
(***************************************************************************)
(* What the lock of a Variables container is there to promise: every call  *)
(* takes effect at one instant.  A writer changes one entry of the tree; a *)
(* reader returns a copy of the tree as it is.                             *)
(***************************************************************************)
CONSTANTS
  Goroutines,
  Entries,     \* the entries of the containers in the tree
  Contents     \* what an entry can hold, or that it is absent

VARIABLES
  root,        \* what every entry holds
  result       \* the tree each goroutine was last given, if any

vars == <<root, result>>

NoTree == [e \in {} |-> e]

Init ==
  /\ root \in [Entries -> Contents]
  /\ result = [g \in Goroutines |-> NoTree]

Write(e, x) ==
  /\ root' = [root EXCEPT ![e] = x]
  /\ UNCHANGED result

Read(g) ==
  /\ result' = [result EXCEPT ![g] = root]
  /\ UNCHANGED root

Next ==
  \/ \E e \in Entries, x \in Contents : Write(e, x)
  \/ \E g \in Goroutines : Read(g)

Spec == Init /\ [][Next]_vars

=============================================================================
