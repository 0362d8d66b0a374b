------------------------------ MODULE LockedRead ------------------------------
(***************************************************************************)
(* Inside the critical sections of a Variables container: sync.RWMutex,    *)
(* writers that change an entry of the tree in place, and readers that     *)
(* copy the tree entry by entry.                                           *)
(*                                                                         *)
(* GetValue, SnapshotValue, Clone and CompileExpression make their copy    *)
(* under the read lock.  EvalValue and Select evaluate under the read lock *)
(* and copy after giving it up: what they copy is then not a tree of their *)
(* own but the live one.                                                   *)
(***************************************************************************)
EXTENDS Naturals

CONSTANTS
  Goroutines,
  Nobody,      \* in the place of a goroutine, when no writer has the mutex
  Entries,     \* the entries of the containers in the tree
  Contents,    \* what an entry can hold, or that it is absent
  Calls,       \* the calls the goroutines make
  Functions    \* how the custom functions called by expressions behave

ASSUME LockedReadAssumption ==
  /\ Nobody \notin Goroutines
  /\ Calls \subseteq {"GetValue", "EvalValue", "SetValue"}
  /\ Functions \subseteq {"pure", "callsBack", "panics"}

VARIABLES
  root,        \* what every entry holds
  writer,      \* the goroutine that locks, or has locked, the mutex for writing
  readers,     \* how many read locks each goroutine holds
  pc,          \* where each goroutine is
  copy,        \* the entries each goroutine has copied so far
  result,      \* the tree each goroutine was last given, if any
  seen,        \* history: the trees the container has held during a read
  crashed      \* has the runtime found a map written while it is iterated?

vars == <<root, writer, readers, pc, copy, result, seen, crashed>>

NoTree == [e \in {} |-> e]

Init ==
  /\ root \in [Entries -> Contents]
  /\ writer = Nobody
  /\ readers = [g \in Goroutines |-> 0]
  /\ pc = [g \in Goroutines |-> "idle"]
  /\ copy = [g \in Goroutines |-> NoTree]
  /\ result = [g \in Goroutines |-> NoTree]
  /\ seen = [g \in Goroutines |-> {}]
  /\ crashed = FALSE

Goto(g, label) == pc' = [pc EXCEPT ![g] = label]

(***************************************************************************)
(* sync.RWMutex.  A writer first takes the mutex from other writers, which *)
(* stops new readers, then waits for those inside to leave.  Its Unlock    *)
(* lets in every reader that was stopped.                                  *)
(***************************************************************************)
Waiting == {"getWaits", "evalWaits", "functionWaits"}

Admitted(label) ==
  IF label = "getWaits" THEN "copying"
  ELSE IF label = "evalWaits" THEN "evaluating"
  ELSE "inFunction"

RLock(g, waits) ==
  IF writer = Nobody
  THEN /\ readers' = [readers EXCEPT ![g] = @ + 1]
       /\ Goto(g, Admitted(waits))
  ELSE /\ Goto(g, waits)
       /\ UNCHANGED readers

\* A mistake: unlocked by hand and by the defer.
RUnlockTwice(g) == readers' = [readers EXCEPT ![g] = @ - 2]

RUnlock(g) == readers' = [readers EXCEPT ![g] = @ - 1]

\* A mistake: the readers that were stopped are not let in.
UnlockAlone(g) ==
  /\ writer' = Nobody
  /\ Goto(g, "idle")
  /\ UNCHANGED readers

Unlock(g) ==
  /\ writer' = Nobody
  /\ readers' = [h \in Goroutines |-> IF pc[h] \in Waiting THEN readers[h] + 1 ELSE readers[h]]
  /\ pc' = [h \in Goroutines |-> IF h = g THEN "idle"
                              ELSE IF pc[h] \in Waiting THEN Admitted(pc[h]) ELSE pc[h]]

(***************************************************************************)
(* SetValue, and AppendValue, Delete and mergeValue below the root.        *)
(***************************************************************************)
CallSet(g) ==
  /\ pc[g] = "idle" /\ "SetValue" \in Calls
  /\ Goto(g, "locks")
  /\ UNCHANGED <<root, writer, readers, copy, result, seen, crashed>>

TakeMutex(g) ==
  /\ pc[g] = "locks" /\ writer = Nobody
  /\ writer' = g
  /\ Goto(g, "drains")
  /\ UNCHANGED <<root, readers, copy, result, seen, crashed>>

\* A mistake: the readers inside are not waited for.
DrainedAtOnce(g) ==
  /\ pc[g] = "drains"
  /\ Goto(g, "writing")
  /\ UNCHANGED <<root, writer, readers, copy, result, seen, crashed>>

Drained(g) ==
  /\ pc[g] = "drains" /\ \A h \in Goroutines : readers[h] = 0
  /\ Goto(g, "writing")
  /\ UNCHANGED <<root, writer, readers, copy, result, seen, crashed>>

Write(g, e, x) ==
  /\ pc[g] = "writing"
  /\ root' = [root EXCEPT ![e] = x]
  /\ seen' = [h \in Goroutines |-> IF seen[h] = {} THEN {} ELSE seen[h] \cup {root'}]
  /\ Unlock(g)
  /\ UNCHANGED <<copy, result, crashed>>

(***************************************************************************)
(* GetValue: the copy is made, and the result fixed, before the deferred   *)
(* RUnlock.                                                                *)
(***************************************************************************)
Begin(g) == seen' = [seen EXCEPT ![g] = {root}]

\* A mistake: the copy is made in a buffer that is not emptied.
ReturnBuffer(g) ==
  /\ result' = [result EXCEPT ![g] = copy[g]]
  /\ seen' = [seen EXCEPT ![g] = {}]
  /\ Goto(g, "idle")
  /\ UNCHANGED copy

ReturnCopy(g) ==
  /\ result' = [result EXCEPT ![g] = copy[g]]
  /\ copy' = [copy EXCEPT ![g] = NoTree]
  /\ seen' = [seen EXCEPT ![g] = {}]
  /\ Goto(g, "idle")

\* A mistake: the read lock is given up before the copy is made.
CallGetUnlocked(g) ==
  /\ pc[g] = "idle" /\ "GetValue" \in Calls
  /\ Goto(g, "cloning")
  /\ Begin(g)
  /\ UNCHANGED <<root, writer, readers, copy, result, crashed>>

CallGet(g) ==
  /\ pc[g] = "idle" /\ "GetValue" \in Calls
  /\ RLock(g, "getWaits")
  /\ Begin(g)
  /\ UNCHANGED <<root, writer, copy, result, crashed>>

CopyEntry(g, e) ==
  copy' = [copy EXCEPT ![g] = [f \in DOMAIN @ \cup {e} |-> IF f = e THEN root[e] ELSE @[f]]]

GetCopies(g, e) ==
  /\ pc[g] = "copying" /\ e \notin DOMAIN copy[g]
  /\ CopyEntry(g, e)
  /\ UNCHANGED <<root, writer, readers, pc, result, seen, crashed>>

GetReturns(g) ==
  /\ pc[g] = "copying" /\ DOMAIN copy[g] = Entries
  /\ ReturnCopy(g)
  /\ RUnlock(g)
  /\ UNCHANGED <<root, writer, crashed>>

(***************************************************************************)
(* EvalValue and Select: the expression is evaluated under the read lock,  *)
(* which is not released by a defer, and its result copied without it.     *)
(***************************************************************************)
CallEval(g) ==
  /\ pc[g] = "idle" /\ "EvalValue" \in Calls
  /\ RLock(g, "evalWaits")
  /\ Begin(g)
  /\ UNCHANGED <<root, writer, copy, result, crashed>>

\* A custom function reads the container it is called by.
FunctionCallsBack(g) ==
  /\ pc[g] = "evaluating" /\ "callsBack" \in Functions
  /\ RLock(g, "functionWaits")
  /\ UNCHANGED <<root, writer, copy, result, seen, crashed>>

FunctionReturns(g) ==
  /\ pc[g] = "inFunction"
  /\ RUnlock(g)
  /\ Goto(g, "evaluated")
  /\ UNCHANGED <<root, writer, copy, result, seen, crashed>>

\* A panic in a custom function, recovered from by the caller of EvalValue,
\* which makes no further calls.
FunctionPanics(g) ==
  /\ pc[g] = "evaluating" /\ "panics" \in Functions
  /\ Goto(g, "panicked")
  /\ UNCHANGED <<root, writer, readers, copy, result, seen, crashed>>

EvalUnlocks(g) ==
  /\ pc[g] = "evaluated" \/ (pc[g] = "evaluating" /\ "pure" \in Functions)
  /\ RUnlock(g)
  /\ Goto(g, "cloning")
  /\ UNCHANGED <<root, writer, copy, result, seen, crashed>>

\* An iteration step while a writer is at work may be fatal to the program.
EvalCopies(g, e) ==
  /\ pc[g] = "cloning" /\ e \notin DOMAIN copy[g]
  /\ CopyEntry(g, e)
  /\ \/ UNCHANGED crashed
     \/ /\ \E h \in Goroutines : pc[h] = "writing"
        /\ crashed' = TRUE
  /\ UNCHANGED <<root, writer, readers, pc, result, seen>>

EvalReturns(g) ==
  /\ pc[g] = "cloning" /\ DOMAIN copy[g] = Entries
  /\ ReturnCopy(g)
  /\ UNCHANGED <<root, writer, readers, crashed>>

Call(g) == CallSet(g) \/ CallGet(g) \/ CallEval(g)

Proceed(g) ==
  \/ Drained(g)
  \/ \E e \in Entries, x \in Contents : Write(g, e, x)
  \/ \E e \in Entries : GetCopies(g, e) \/ EvalCopies(g, e)
  \/ GetReturns(g)
  \/ FunctionCallsBack(g) \/ FunctionReturns(g) \/ FunctionPanics(g)
  \/ EvalUnlocks(g) \/ EvalReturns(g)

Next == ~crashed /\ \E g \in Goroutines : Call(g) \/ TakeMutex(g) \/ Proceed(g)

Spec == Init /\ [][Next]_vars

\* Goroutines are scheduled, and sync.Mutex, once a goroutine has waited long
\* enough, goes to the one that has waited longest.
FairSpec ==
  /\ Spec
  /\ \A g \in Goroutines : WF_vars(~crashed /\ Proceed(g)) /\ SF_vars(~crashed /\ TakeMutex(g))

-----------------------------------------------------------------------------
Labels == {"idle", "locks", "drains", "writing", "copying", "evaluating", "evaluated",
           "inFunction", "panicked", "cloning"} \cup Waiting

\* A copy under way: some of the entries, each with what one can hold.
Partial == UNION {[E -> Contents] : E \in SUBSET Entries}

(***************************************************************************)
(* Type invariant.                                                         *)
(***************************************************************************)
TypeOK ==
  /\ root \in [Entries -> Contents]
  /\ writer \in Goroutines \cup {Nobody}
  /\ readers \in [Goroutines -> 0..2]
  /\ pc \in [Goroutines -> Labels]
  /\ copy \in [Goroutines -> Partial]
  /\ result \in [Goroutines -> Partial]
  /\ seen \in [Goroutines -> SUBSET [Entries -> Contents]]
  /\ crashed \in BOOLEAN

(***************************************************************************)
(* The lock does its work: while a writer writes, nobody is inside with a  *)
(* read lock and nobody else writes; and a writer that has announced       *)
(* itself is the only one.                                                 *)
(***************************************************************************)
ReadLocks(g) ==
  IF pc[g] = "inFunction" THEN 2
  ELSE IF pc[g] \in {"copying", "evaluating", "evaluated", "functionWaits", "panicked"} THEN 1
  ELSE 0

LockOK ==
  /\ \A g \in Goroutines : pc[g] \in {"drains", "writing"} <=> writer = g
  /\ \A g \in Goroutines : readers[g] = ReadLocks(g)
  /\ \A g, h \in Goroutines : pc[g] = "writing" => readers[h] = 0
  /\ \A g \in Goroutines : pc[g] \in Waiting => writer # Nobody

(***************************************************************************)
(* What GetValue has copied so far is what the tree holds now, however     *)
(* long the copying takes.                                                 *)
(***************************************************************************)
CopyIsCurrent ==
  \A g \in Goroutines : pc[g] = "copying" => \A e \in DOMAIN copy[g] : copy[g][e] = root[e]

(***************************************************************************)
(* README: "Return snapshots and values as deep copies".  What a call      *)
(* returns is the tree as the container held it at some instant of that    *)
(* call, not a mixture of several.                                         *)
(***************************************************************************)
ReturnsOneTree ==
  [][\A g \in Goroutines : result'[g] # result[g] => result'[g] \in seen[g]]_vars

(***************************************************************************)
(* Seen from outside, reads under the lock and writes are atomic.          *)
(***************************************************************************)
Atomic == INSTANCE AtomicContainer
ImplementsAtomic == Atomic!Spec

\* A custom function has panicked, so that a read lock is never released, or
\* has called back and waits for the read lock behind a writer.
Blamed == \E g \in Goroutines : pc[g] \in {"panicked", "functionWaits"}

(***************************************************************************)
(* Every call ends, unless a custom function panics or calls back while a  *)
(* writer waits: readers let a waiting writer in, and the writer lets in   *)
(* the readers it has stopped.                                             *)
(***************************************************************************)
CallsReturn == \A g \in Goroutines : pc[g] # "idle" ~> pc[g] = "idle" \/ crashed \/ Blamed

(***************************************************************************)
(* If no call under way can go on, a custom function is to blame: it       *)
(* panicked, so that its read lock is never released, or it called back    *)
(* while a writer was waiting for its read lock.                           *)
(***************************************************************************)
CanGoOn(g) ==
  \/ pc[g] = "locks" /\ writer = Nobody
  \/ pc[g] = "drains" /\ \A h \in Goroutines : readers[h] = 0
  \/ pc[g] \in {"writing", "copying", "evaluating", "inFunction", "evaluated", "cloning"}

StuckOnlyByFunctions ==
  (/\ \E g \in Goroutines : pc[g] \notin {"idle", "panicked"}
   /\ \A g \in Goroutines : ~CanGoOn(g))
  => Blamed

=============================================================================
