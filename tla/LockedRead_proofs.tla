-------------------------- MODULE LockedRead_proofs --------------------------
(***************************************************************************)
(* For any number of goroutines, entries and contents, and whatever custom *)
(* functions do: the lock excludes, what is copied under it is current,    *)
(* and without EvalValue and Select every call is atomic.                  *)
(***************************************************************************)
EXTENDS LockedRead, TLAPS

\* A copy is begun with nothing in it.
NothingCopied == \A g \in Goroutines : pc[g] \notin {"copying", "cloning"} => copy[g] = NoTree

IInv == TypeOK /\ LockOK /\ CopyIsCurrent /\ NothingCopied

LEMMA EmptyCopy == NoTree \in Partial /\ DOMAIN NoTree = {}
  BY DEF Partial, NoTree

LEMMA LargerCopy ==
  ASSUME NEW c \in Partial, NEW e \in Entries, NEW x \in Contents
  PROVE  [f \in DOMAIN c \cup {e} |-> IF f = e THEN x ELSE c[f]] \in Partial
<1>1. PICK E \in SUBSET Entries : c \in [E -> Contents]
  BY DEF Partial
<1>2. [f \in DOMAIN c \cup {e} |-> IF f = e THEN x ELSE c[f]] \in [E \cup {e} -> Contents]
  BY <1>1
<1> QED BY <1>2 DEF Partial

LEMMA CopyEntryTyped ==
  ASSUME TypeOK, NEW g \in Goroutines, NEW e \in Entries, CopyEntry(g, e)
  PROVE  copy' \in [Goroutines -> Partial]
<1>1. copy \in [Goroutines -> Partial] /\ root[e] \in Contents
  BY DEF TypeOK
<1>2. [f \in DOMAIN copy[g] \cup {e} |-> IF f = e THEN root[e] ELSE copy[g][f]] \in Partial
  BY <1>1, LargerCopy
<1> QED BY <1>1, <1>2 DEF CopyEntry

LEMMA InitIInv == Init => IInv
<1> SUFFICES ASSUME Init PROVE IInv
  OBVIOUS
<1>1. TypeOK
  <2>1. crashed \in BOOLEAN
    BY DEF Init
  <2>2. /\ pc \in [Goroutines -> Labels]
        /\ readers \in [Goroutines -> 0..2]
    BY DEF Init, Labels
  <2> QED BY EmptyCopy, <2>1, <2>2 DEF Init, TypeOK
<1>2. LockOK
  <2>1. \A g \in Goroutines : pc[g] \in {"drains", "writing"} <=> writer = g
    BY LockedReadAssumption DEF Init
  <2>2. \A g \in Goroutines : readers[g] = ReadLocks(g)
    BY DEF Init, ReadLocks
  <2>3. \A g, h \in Goroutines : pc[g] = "writing" => readers[h] = 0
    BY DEF Init
  <2>4. \A g \in Goroutines : pc[g] \in Waiting => writer # Nobody
    BY DEF Init, Waiting
  <2> QED BY <2>1, <2>2, <2>3, <2>4 DEF LockOK
<1>3. CopyIsCurrent /\ NothingCopied
  BY DEF Init, CopyIsCurrent, NothingCopied
<1> QED BY <1>1, <1>2, <1>3 DEF IInv

LockTyped == readers \in [Goroutines -> 0..2] /\ pc \in [Goroutines -> Labels]

LEMMA Acquire ==
  ASSUME TypeOK, LockOK, NEW g \in Goroutines, NEW waits \in Waiting,
         waits = "functionWaits" => pc[g] = "evaluating",
         waits # "functionWaits" => pc[g] = "idle",
         RLock(g, waits), UNCHANGED writer
  PROVE  (LockTyped /\ LockOK)'
<1> LockTyped
  BY DEF TypeOK, LockTyped
<1>1. /\ waits = "functionWaits" => readers[g] = 1
      /\ waits # "functionWaits" => readers[g] = 0
  BY DEF LockOK, ReadLocks
<1>2. CASE writer = Nobody
  <2>1. /\ readers' = [readers EXCEPT ![g] = readers[g] + 1]
        /\ pc' = [pc EXCEPT ![g] = Admitted(waits)]
    BY <1>2 DEF RLock, Goto
  <2>2. /\ Admitted(waits) \in Labels \ ({"drains", "writing"} \cup Waiting)
        /\ Admitted(waits) \in {"copying", "evaluating", "inFunction"}
        /\ Admitted(waits) = "inFunction" <=> waits = "functionWaits"
    BY DEF Admitted, Waiting, Labels
  <2>3. LockTyped'
    <3>1. readers[g] + 1 \in 0..2
      BY <1>1
    <3>2. readers' \in [Goroutines -> 0..2]
      BY <2>1, <3>1 DEF LockTyped
    <3> QED BY <2>1, <2>2, <3>2 DEF LockTyped
  <2>4. \A h \in Goroutines : pc[h] # "writing"
    BY <1>2, LockedReadAssumption DEF LockOK
  <2>5. \A h \in Goroutines : readers'[h] = ReadLocks(h)'
    BY <1>1, <2>1, <2>2 DEF LockTyped, LockOK, ReadLocks
  <2> QED BY <1>2, <2>1, <2>2, <2>3, <2>4, <2>5 DEF LockTyped, LockOK
<1>3. CASE writer # Nobody
  <2>1. readers' = readers /\ pc' = [pc EXCEPT ![g] = waits]
    BY <1>3 DEF RLock, Goto
  <2>2. LockTyped'
    BY <2>1 DEF LockTyped, Labels
  <2>3. \A h \in Goroutines : readers'[h] = ReadLocks(h)'
    BY <1>1, <2>1 DEF LockTyped, LockOK, ReadLocks, Waiting
  <2> QED BY <1>3, <2>1, <2>2, <2>3 DEF LockTyped, LockOK, Waiting
<1> QED BY <1>2, <1>3

LEMMA Release ==
  ASSUME TypeOK, LockOK, NEW g \in Goroutines, NEW label \in {"idle", "evaluated", "cloning"},
         pc[g] \in {"copying", "evaluating", "evaluated", "inFunction"},
         pc[g] = "inFunction" <=> label = "evaluated",
         RUnlock(g), Goto(g, label), UNCHANGED writer
  PROVE  (LockTyped /\ LockOK)'
<1> LockTyped
  BY DEF TypeOK, LockTyped
<1>1. /\ label = "evaluated" => readers[g] = 2
      /\ label # "evaluated" => readers[g] = 1
  BY DEF LockOK, ReadLocks
<1>2. readers' = [readers EXCEPT ![g] = readers[g] - 1] /\ pc' = [pc EXCEPT ![g] = label]
  BY DEF RUnlock, Goto
<1>3. LockTyped'
  <2>1. readers[g] - 1 \in 0..2
    BY <1>1
  <2>2. readers' \in [Goroutines -> 0..2]
    BY <1>2, <2>1 DEF LockTyped
  <2>3. label \in Labels
    BY DEF Labels
  <2> QED BY <1>2, <2>2, <2>3 DEF LockTyped
<1>4. \A h \in Goroutines : readers'[h] = ReadLocks(h)'
  BY <1>1, <1>2 DEF LockTyped, LockOK, ReadLocks
<1>5. \A h \in Goroutines : readers[h] = 0 => readers'[h] = 0
  BY <1>1, <1>2 DEF LockTyped
<1> QED BY <1>2, <1>3, <1>4, <1>5 DEF LockTyped, LockOK, Waiting

LEMMA NextIInv == IInv /\ [Next]_vars => IInv'
<1> SUFFICES ASSUME IInv, [Next]_vars PROVE IInv'
  OBVIOUS
<1> USE DEF IInv
<1>1. ASSUME NEW g \in Goroutines, CallSet(g) PROVE IInv'
  <2>1. TypeOK'
    BY <1>1 DEF TypeOK, LockOK, Labels, CallSet, Goto
  <2>2. LockOK'
    BY LockedReadAssumption, <1>1 DEF TypeOK, LockOK, ReadLocks, Waiting, CallSet, Goto
  <2>3. CopyIsCurrent' /\ NothingCopied'
    BY <1>1 DEF TypeOK, CopyIsCurrent, NothingCopied, CallSet, Goto
  <2> QED BY <2>1, <2>2, <2>3
<1>2. ASSUME NEW g \in Goroutines, TakeMutex(g) PROVE IInv'
  <2>1. TypeOK'
    BY <1>2 DEF TypeOK, LockOK, Labels, TakeMutex, Goto
  <2>2. LockOK'
    BY LockedReadAssumption, <1>2 DEF TypeOK, LockOK, ReadLocks, Waiting, TakeMutex, Goto
  <2>3. CopyIsCurrent' /\ NothingCopied'
    BY <1>2 DEF TypeOK, CopyIsCurrent, NothingCopied, TakeMutex, Goto
  <2> QED BY <2>1, <2>2, <2>3
<1>3. ASSUME NEW g \in Goroutines, Drained(g) PROVE IInv'
  <2>1. TypeOK'
    BY <1>3 DEF TypeOK, LockOK, Labels, Drained, Goto
  <2>2. LockOK'
    BY LockedReadAssumption, <1>3 DEF TypeOK, LockOK, ReadLocks, Waiting, Drained, Goto
  <2>3. CopyIsCurrent' /\ NothingCopied'
    BY <1>3 DEF TypeOK, CopyIsCurrent, NothingCopied, Drained, Goto
  <2> QED BY <2>1, <2>2, <2>3
<1>4. ASSUME NEW g \in Goroutines, CallGet(g) PROVE IInv'
  <2>1. (LockTyped /\ LockOK)'
    BY Acquire, <1>4 DEF CallGet, Waiting
  <2>2. TypeOK'
    BY <1>4, <2>1 DEF TypeOK, LockTyped, CallGet, Begin
  <2>3. CopyIsCurrent' /\ NothingCopied'
    BY EmptyCopy, <1>4 DEF TypeOK, CopyIsCurrent, NothingCopied, CallGet, RLock, Goto, Admitted
  <2> QED BY <2>1, <2>2, <2>3
<1>5. ASSUME NEW g \in Goroutines, GetReturns(g) PROVE IInv'
  <2>1. (LockTyped /\ LockOK)'
    BY Release, <1>5 DEF ReturnCopy, GetReturns
  <2>2. TypeOK'
    BY EmptyCopy, <1>5, <2>1 DEF TypeOK, LockTyped, ReturnCopy, GetReturns
  <2>3. CopyIsCurrent' /\ NothingCopied'
    BY <1>5 DEF TypeOK, CopyIsCurrent, NothingCopied, ReturnCopy, GetReturns, Goto
  <2> QED BY <2>1, <2>2, <2>3
<1>6. ASSUME NEW g \in Goroutines, CallEval(g) PROVE IInv'
  <2>1. (LockTyped /\ LockOK)'
    BY Acquire, <1>6 DEF CallEval, Waiting
  <2>2. TypeOK'
    BY <1>6, <2>1 DEF TypeOK, LockTyped, CallEval, Begin
  <2>3. CopyIsCurrent' /\ NothingCopied'
    BY EmptyCopy, <1>6 DEF TypeOK, CopyIsCurrent, NothingCopied, CallEval, RLock, Goto, Admitted
  <2> QED BY <2>1, <2>2, <2>3
<1>7. ASSUME NEW g \in Goroutines, FunctionCallsBack(g) PROVE IInv'
  <2>1. (LockTyped /\ LockOK)'
    BY Acquire, <1>7 DEF FunctionCallsBack, Waiting
  <2>2. TypeOK'
    BY <1>7, <2>1 DEF TypeOK, LockTyped, FunctionCallsBack
  <2>3. CopyIsCurrent' /\ NothingCopied'
    BY EmptyCopy, <1>7 DEF TypeOK, CopyIsCurrent, NothingCopied, FunctionCallsBack, RLock, Goto, Admitted
  <2> QED BY <2>1, <2>2, <2>3
<1>8. ASSUME NEW g \in Goroutines, FunctionReturns(g) PROVE IInv'
  <2>1. (LockTyped /\ LockOK)'
    BY Release, <1>8 DEF FunctionReturns
  <2>2. TypeOK'
    BY <1>8, <2>1 DEF TypeOK, LockTyped, FunctionReturns
  <2>3. CopyIsCurrent' /\ NothingCopied'
    BY <1>8 DEF TypeOK, CopyIsCurrent, NothingCopied, FunctionReturns, Goto
  <2> QED BY <2>1, <2>2, <2>3
<1>9. ASSUME NEW g \in Goroutines, FunctionPanics(g) PROVE IInv'
  <2>1. TypeOK'
    BY <1>9 DEF TypeOK, LockOK, Labels, FunctionPanics, Goto
  <2>2. LockOK'
    BY LockedReadAssumption, <1>9 DEF TypeOK, LockOK, ReadLocks, Waiting, FunctionPanics, Goto
  <2>3. CopyIsCurrent' /\ NothingCopied'
    BY <1>9 DEF TypeOK, CopyIsCurrent, NothingCopied, FunctionPanics, Goto
  <2> QED BY <2>1, <2>2, <2>3
<1>10. ASSUME NEW g \in Goroutines, EvalUnlocks(g) PROVE IInv'
  <2>1. (LockTyped /\ LockOK)'
    BY Release, <1>10 DEF EvalUnlocks
  <2>2. TypeOK'
    BY <1>10, <2>1 DEF TypeOK, LockTyped, EvalUnlocks
  <2>3. CopyIsCurrent' /\ NothingCopied'
    BY <1>10 DEF TypeOK, CopyIsCurrent, NothingCopied, EvalUnlocks, Goto
  <2> QED BY <2>1, <2>2, <2>3
<1>11. ASSUME NEW g \in Goroutines, EvalReturns(g) PROVE IInv'
  <2>1. TypeOK'
    BY EmptyCopy, <1>11 DEF TypeOK, LockOK, Labels, EvalReturns, ReturnCopy, Goto
  <2>2. LockOK'
    BY LockedReadAssumption, <1>11 DEF TypeOK, LockOK, ReadLocks, Waiting, EvalReturns, ReturnCopy, Goto
  <2>3. CopyIsCurrent' /\ NothingCopied'
    BY <1>11 DEF TypeOK, CopyIsCurrent, NothingCopied, EvalReturns, ReturnCopy, Goto
  <2> QED BY <2>1, <2>2, <2>3
<1>12. ASSUME NEW g \in Goroutines, NEW e \in Entries, NEW x \in Contents, Write(g, e, x)
       PROVE  IInv'
  <2>1. \A h \in Goroutines : readers[h] = 0 /\ pc[h] # "copying"
    BY <1>12 DEF Write, LockOK, ReadLocks
  <2>2. LockTyped'
    <3>1. readers' \in [Goroutines -> 0..2]
      BY <1>12, <2>1 DEF Write, Unlock
    <3>2. \A h \in Goroutines : pc[h] \in Labels /\ Admitted(pc[h]) \in Labels
      BY DEF TypeOK, Admitted, Labels
    <3>3. pc' \in [Goroutines -> Labels]
      BY <1>12, <3>2 DEF Write, Unlock, Labels
    <3> QED BY <3>1, <3>3 DEF LockTyped
  <2>3. TypeOK'
    <3>1. root' \in [Entries -> Contents]
      BY <1>12 DEF TypeOK, Write
    <3>2. seen' \in [Goroutines -> SUBSET [Entries -> Contents]]
      BY <1>12, <3>1 DEF TypeOK, Write
    <3> QED BY <1>12, <2>2, <3>1, <3>2 DEF TypeOK, LockTyped, Write, Unlock
  <2>4. LockOK'
    <3>1. \A h \in Goroutines : pc[h] \in {"drains", "writing"} => h = g
      BY <1>12 DEF Write, LockOK
    <3>2. \A h \in Goroutines : pc'[h] \notin {"drains", "writing"} \cup Waiting
      BY <1>12, <3>1 DEF TypeOK, Write, Unlock, Admitted, Waiting
    <3>3. \A h \in Goroutines : readers'[h] = ReadLocks(h)'
      BY <1>12, <2>1 DEF TypeOK, LockOK, Write, Unlock, Admitted, Waiting, ReadLocks
    <3> QED BY <1>12, <3>2, <3>3, LockedReadAssumption DEF LockOK, Write, Unlock
  <2>5. CopyIsCurrent' /\ NothingCopied'
    <3>1. \A h \in Goroutines : pc'[h] = "copying" => copy[h] = NoTree
      BY <1>12, <2>1 DEF TypeOK, NothingCopied, Write, Unlock, Admitted, Waiting
    <3>2. CopyIsCurrent'
      BY <1>12, <3>1, EmptyCopy DEF CopyIsCurrent, Write
    <3>3. NothingCopied'
      BY <1>12, <2>1 DEF TypeOK, NothingCopied, Write, Unlock, Waiting
    <3> QED BY <3>2, <3>3
  <2> QED BY <2>3, <2>4, <2>5
<1>13. ASSUME NEW g \in Goroutines, NEW e \in Entries, GetCopies(g, e) PROVE IInv'
  <2>1. copy' \in [Goroutines -> Partial]
    BY <1>13, CopyEntryTyped DEF GetCopies
  <2>2. TypeOK' /\ LockOK'
    BY <1>13, <2>1 DEF TypeOK, LockOK, ReadLocks, GetCopies
  <2>3. CopyIsCurrent' /\ NothingCopied'
    BY <1>13 DEF TypeOK, CopyIsCurrent, NothingCopied, GetCopies, CopyEntry
  <2> QED BY <2>2, <2>3
<1>14. ASSUME NEW g \in Goroutines, NEW e \in Entries, EvalCopies(g, e) PROVE IInv'
  <2>1. /\ pc[g] = "cloning" /\ CopyEntry(g, e)
        /\ UNCHANGED <<root, writer, readers, pc, result, seen>>
    BY <1>14, Zenon DEF EvalCopies
  <2>2. copy' \in [Goroutines -> Partial]
    BY <2>1, CopyEntryTyped
  <2>3. crashed' \in BOOLEAN
    <3>1. crashed \in BOOLEAN
      BY DEF TypeOK
    <3>2. crashed' = crashed \/ crashed' = TRUE
      BY <1>14 DEF EvalCopies
    <3> QED BY <3>1, <3>2
  <2>4. TypeOK' /\ LockOK'
    BY <2>1, <2>2, <2>3 DEF TypeOK, LockOK, ReadLocks
  <2>5. CopyIsCurrent' /\ NothingCopied'
    BY <2>1 DEF TypeOK, CopyIsCurrent, NothingCopied, CopyEntry
  <2> QED BY <2>4, <2>5
<1>15. CASE UNCHANGED vars
  BY <1>15 DEF vars, TypeOK, LockOK, ReadLocks, CopyIsCurrent, NothingCopied
<1> QED
  BY <1>1, <1>2, <1>3, <1>4, <1>5, <1>6, <1>7, <1>8, <1>9, <1>10, <1>11, <1>12, <1>13, <1>14, <1>15
  DEF Next, Call, Proceed

LEMMA SpecIInv == Spec => []IInv
  BY InitIInv, NextIInv, PTL DEF Spec

(***************************************************************************)
(* Types, for every value of the constants.                                *)
(***************************************************************************)
THEOREM TypeCorrect == Spec => []TypeOK
  BY SpecIInv, PTL DEF IInv

(***************************************************************************)
(* RWMutex as it is used by variables.go and expression_eval.go: whatever  *)
(* a custom function does, no writer writes while anybody is inside with a *)
(* read lock, and every read lock but that of a goroutine whose function   *)
(* panicked belongs to a call that will give it back.                      *)
(***************************************************************************)
THEOREM LockCorrect == Spec => []LockOK
  BY SpecIInv, PTL DEF IInv

(***************************************************************************)
(* GetValue, SnapshotValue and Clone: nothing copied under the read lock   *)
(* is out of date before the copy is complete.                             *)
(***************************************************************************)
THEOREM CopyCurrent == Spec => []CopyIsCurrent
  BY SpecIInv, PTL DEF IInv

(***************************************************************************)
(* A call that is under way can go on unless it waits for the lock, and    *)
(* whoever it waits for either can go on or has been stopped by a custom   *)
(* function: the writer that has announced itself waits for the readers    *)
(* inside, and these, unless they called back, for nobody.                 *)
(***************************************************************************)
LEMMA WritersGoOn ==
  ASSUME IInv, ~Blamed, NEW w \in Goroutines, writer = w
  PROVE  \E h \in Goroutines : CanGoOn(h)
<1>1. pc[w] = "drains" \/ pc[w] = "writing"
  BY DEF IInv, LockOK
<1>2. CASE \A h \in Goroutines : readers[h] = 0
  BY <1>1, <1>2 DEF CanGoOn
<1>3. CASE \E h \in Goroutines : readers[h] # 0
  <2>1. PICK h \in Goroutines : readers[h] # 0
    BY <1>3
  <2>2. pc[h] \in {"inFunction", "copying", "evaluating", "evaluated"}
    BY <2>1 DEF IInv, LockOK, ReadLocks, Blamed
  <2> QED BY <2>2 DEF CanGoOn
<1> QED BY <1>2, <1>3

(***************************************************************************)
(* Calls hang only behind a custom function of EvalValue or Select: one    *)
(* that panicked, so that the RUnlock, which is not deferred, was skipped, *)
(* or one that reads the container again while a writer waits.             *)
(***************************************************************************)
THEOREM StuckBehindFunctions == Spec => []StuckOnlyByFunctions
<1>1. IInv => StuckOnlyByFunctions
  <2> SUFFICES ASSUME IInv, ~Blamed, NEW g \in Goroutines, pc[g] \notin {"idle", "panicked"}
               PROVE  \E h \in Goroutines : CanGoOn(h)
    BY DEF StuckOnlyByFunctions
  <2>1. CASE writer = Nobody
    <3>1. pc[g] \notin Waiting /\ pc[g] # "drains"
      BY <2>1, LockedReadAssumption DEF IInv, LockOK
    <3> QED BY <2>1, <3>1 DEF IInv, TypeOK, Labels, CanGoOn
  <2>2. CASE writer \in Goroutines
    BY <2>2, WritersGoOn
  <2> QED BY <2>1, <2>2 DEF IInv, TypeOK
<1> QED BY <1>1, SpecIInv, PTL

(***************************************************************************)
(* A read that makes its copy under the lock has the tree it will return   *)
(* among those it has seen, the current one, until it returns.             *)
(***************************************************************************)
SeesRoot == \A g \in Goroutines : pc[g] \in {"getWaits", "copying"} => root \in seen[g]

LEMMA SpecSeesRoot == Spec => []SeesRoot
<1>1. Init => SeesRoot
  BY DEF Init, SeesRoot
<1>2. IInv /\ SeesRoot /\ [Next]_vars => SeesRoot'
  <2> SUFFICES ASSUME IInv, SeesRoot, [Next]_vars PROVE SeesRoot'
    OBVIOUS
  <2>1. ASSUME NEW g \in Goroutines, Call(g) PROVE SeesRoot'
    BY <2>1 DEF IInv, TypeOK, SeesRoot, Call, CallSet, CallGet, CallEval, RLock, Goto, Begin,
                Admitted
  <2>2. ASSUME NEW g \in Goroutines, NEW e \in Entries, NEW x \in Contents, Write(g, e, x)
        PROVE  SeesRoot'
    <3>1. ASSUME NEW h \in Goroutines, pc'[h] \in {"getWaits", "copying"}
          PROVE  pc[h] \in {"getWaits", "copying"}
      BY <2>2, <3>1 DEF IInv, TypeOK, Write, Unlock, Admitted, Waiting
    <3> QED BY <2>2, <3>1 DEF SeesRoot, Write
  <2>3. ASSUME NEW g \in Goroutines,
               \/ TakeMutex(g) \/ Drained(g) \/ GetReturns(g) \/ FunctionCallsBack(g)
               \/ FunctionReturns(g) \/ FunctionPanics(g) \/ EvalUnlocks(g) \/ EvalReturns(g)
        PROVE  SeesRoot'
    BY <2>3 DEF IInv, TypeOK, SeesRoot, TakeMutex, Drained, GetReturns, FunctionCallsBack, RLock,
                Admitted, FunctionReturns, FunctionPanics, EvalUnlocks, EvalReturns, ReturnCopy, Goto
  <2>4. ASSUME NEW g \in Goroutines, NEW e \in Entries, GetCopies(g, e) \/ EvalCopies(g, e)
        PROVE  SeesRoot'
    BY <2>4 DEF SeesRoot, GetCopies, EvalCopies
  <2>5. CASE UNCHANGED vars
    BY <2>5 DEF vars, SeesRoot
  <2> QED BY <2>1, <2>2, <2>3, <2>4, <2>5 DEF Next, Proceed
<1> QED BY <1>1, <1>2, SpecIInv, PTL DEF Spec

\* A complete copy that is current is the tree.
LEMMA CompleteCopy ==
  ASSUME IInv, NEW g \in Goroutines, GetReturns(g)
  PROVE  copy[g] = root
<1>1. PICK E \in SUBSET Entries : copy[g] \in [E -> Contents]
  BY DEF IInv, TypeOK, Partial
<1>2. E = Entries /\ \A e \in Entries : copy[g][e] = root[e]
  BY <1>1 DEF GetReturns, IInv, CopyIsCurrent
<1> QED BY <1>1, <1>2 DEF IInv, TypeOK

LEMMA OnlyReturnsGive ==
  ASSUME IInv, SeesRoot, [Next]_vars, NEW h \in Goroutines, result'[h] # result[h]
  PROVE  (pc[h] = "copying" /\ result'[h] \in seen[h]) \/ pc[h] = "cloning"
<1>1. ASSUME NEW g \in Goroutines, GetReturns(g)
      PROVE  pc[h] = "copying" /\ result'[h] \in seen[h]
  <2>1. result' = [result EXCEPT ![g] = root] /\ pc[g] = "copying"
    BY <1>1, CompleteCopy DEF GetReturns, ReturnCopy
  <2> QED BY <2>1 DEF IInv, TypeOK, SeesRoot
<1>2. ASSUME NEW g \in Goroutines, EvalReturns(g)
      PROVE  pc[h] = "cloning"
  BY <1>2 DEF EvalReturns, ReturnCopy, IInv, TypeOK
<1>3. ASSUME NEW g \in Goroutines,
             \/ Call(g) \/ TakeMutex(g) \/ Drained(g) \/ FunctionCallsBack(g)
             \/ FunctionReturns(g) \/ FunctionPanics(g) \/ EvalUnlocks(g)
      PROVE  FALSE
  BY <1>3 DEF Call, CallSet, CallGet, CallEval, TakeMutex, Drained, FunctionCallsBack,
              FunctionReturns, FunctionPanics, EvalUnlocks
<1>4. ASSUME NEW g \in Goroutines, NEW e \in Entries,
             GetCopies(g, e) \/ EvalCopies(g, e) \/ \E x \in Contents : Write(g, e, x)
      PROVE  FALSE
  BY <1>4 DEF GetCopies, EvalCopies, Write
<1>5. CASE UNCHANGED vars
  BY <1>5 DEF vars
<1> QED BY <1>1, <1>2, <1>3, <1>4, <1>5 DEF Next, Proceed

(***************************************************************************)
(* GetValue, SnapshotValue and Clone return one tree, whatever else the    *)
(* other goroutines do, EvalValue and Select included.                     *)
(***************************************************************************)
CopiesOneTree ==
  [][\A g \in Goroutines :
       pc[g] = "copying" /\ result'[g] # result[g] => result'[g] \in seen[g]]_vars

THEOREM GetReturnsOneTree == Spec => CopiesOneTree
<1>1. IInv /\ SeesRoot /\ [Next]_vars
        => [\A g \in Goroutines :
              pc[g] = "copying" /\ result'[g] # result[g] => result'[g] \in seen[g]]_vars
  BY OnlyReturnsGive
<1> QED BY <1>1, SpecIInv, SpecSeesRoot, PTL DEF Spec, CopiesOneTree

(***************************************************************************)
(* Where no expression is evaluated, nobody gets to a label of EvalValue.  *)
(***************************************************************************)
NoEvaluation ==
  \A g \in Goroutines : pc[g] \in {"idle", "locks", "drains", "writing", "getWaits", "copying"}

LEMMA SpecNoEvaluation ==
  ASSUME "EvalValue" \notin Calls
  PROVE  Spec => []NoEvaluation
<1>1. Init => NoEvaluation
  BY DEF Init, NoEvaluation
<1>2. IInv /\ NoEvaluation /\ [Next]_vars => NoEvaluation'
  <2> SUFFICES ASSUME IInv, NoEvaluation, [Next]_vars PROVE NoEvaluation'
    OBVIOUS
  <2>1. ASSUME NEW g \in Goroutines, Call(g) PROVE NoEvaluation'
    <3>1. CASE CallSet(g)
      BY <3>1 DEF IInv, TypeOK, NoEvaluation, CallSet, Goto
    <3>2. CASE CallGet(g)
      BY <3>2 DEF IInv, TypeOK, NoEvaluation, CallGet, RLock, Goto, Admitted
    <3>3. ~CallEval(g)
      BY DEF CallEval
    <3> QED BY <2>1, <3>1, <3>2, <3>3 DEF Call
  <2>2. ASSUME NEW g \in Goroutines, NEW e \in Entries, NEW x \in Contents, Write(g, e, x)
        PROVE  NoEvaluation'
    BY <2>2 DEF IInv, TypeOK, NoEvaluation, Write, Unlock, Admitted, Waiting
  <2>3. ASSUME NEW g \in Goroutines, TakeMutex(g) \/ Drained(g) \/ GetReturns(g)
        PROVE  NoEvaluation'
    BY <2>3 DEF IInv, TypeOK, NoEvaluation, TakeMutex, Drained, GetReturns, ReturnCopy, Goto
  <2>4. ASSUME NEW g \in Goroutines, NEW e \in Entries, GetCopies(g, e) \/ EvalCopies(g, e)
        PROVE  NoEvaluation'
    BY <2>4 DEF NoEvaluation, GetCopies, EvalCopies
  <2>5. ASSUME NEW g \in Goroutines,
               \/ FunctionCallsBack(g) \/ FunctionReturns(g) \/ FunctionPanics(g)
               \/ EvalUnlocks(g) \/ EvalReturns(g)
        PROVE  FALSE
    BY <2>5 DEF NoEvaluation, FunctionCallsBack, FunctionReturns, FunctionPanics, EvalUnlocks,
                EvalReturns
  <2>6. CASE UNCHANGED vars
    BY <2>6 DEF vars, NoEvaluation
  <2> QED BY <2>1, <2>2, <2>3, <2>4, <2>5, <2>6 DEF Next, Proceed
<1> QED BY <1>1, <1>2, SpecIInv, PTL DEF Spec

LEMMA StepIsAtomic ==
  ASSUME IInv, NoEvaluation, [Next]_vars
  PROVE  [Atomic!Next]_Atomic!vars
<1>1. ASSUME NEW g \in Goroutines, NEW e \in Entries, NEW x \in Contents, Write(g, e, x)
      PROVE  Atomic!Next
  BY <1>1 DEF Write, Atomic!Next, Atomic!Write
<1>2. ASSUME NEW g \in Goroutines, GetReturns(g)
      PROVE  Atomic!Next
  <2>1. copy[g] = root
    BY <1>2, CompleteCopy
  <2> QED BY <1>2, <2>1 DEF GetReturns, ReturnCopy, Atomic!Next, Atomic!Read
<1>3. ASSUME NEW g \in Goroutines, Call(g) \/ TakeMutex(g) \/ Drained(g)
      PROVE  UNCHANGED Atomic!vars
  BY <1>3 DEF Call, CallSet, CallGet, CallEval, TakeMutex, Drained, Atomic!vars
<1>4. ASSUME NEW g \in Goroutines, NEW e \in Entries, GetCopies(g, e) \/ EvalCopies(g, e)
      PROVE  UNCHANGED Atomic!vars
  BY <1>4 DEF GetCopies, EvalCopies, Atomic!vars
<1>5. ASSUME NEW g \in Goroutines,
             \/ FunctionCallsBack(g) \/ FunctionReturns(g) \/ FunctionPanics(g)
             \/ EvalUnlocks(g) \/ EvalReturns(g)
      PROVE  FALSE
  BY <1>5 DEF NoEvaluation, FunctionCallsBack, FunctionReturns, FunctionPanics, EvalUnlocks,
              EvalReturns
<1>6. CASE UNCHANGED vars
  BY <1>6 DEF vars, Atomic!vars
<1> QED BY <1>1, <1>2, <1>3, <1>4, <1>5, <1>6 DEF Next, Proceed

(***************************************************************************)
(* Reading with GetValue, SnapshotValue or Clone and writing with SetValue *)
(* and its like implement AtomicContainer.  EvalValue and Select, which    *)
(* copy outside the lock, do not: a run of MCLockedRead shows that.        *)
(***************************************************************************)
THEOREM AtomicWithoutEvalValue ==
  ASSUME "EvalValue" \notin Calls
  PROVE  Spec => ImplementsAtomic
<1>1. Init => Atomic!Init
  BY DEF Init, NoTree, Atomic!Init, Atomic!NoTree
<1>2. IInv /\ NoEvaluation /\ [Next]_vars => [Atomic!Next]_Atomic!vars
  BY StepIsAtomic
<1> QED BY <1>1, <1>2, SpecIInv, SpecNoEvaluation, PTL DEF Spec, ImplementsAtomic, Atomic!Spec

(***************************************************************************)
(* The promise of README.md, that values are returned as deep copies, is   *)
(* kept as long as nobody calls EvalValue or Select; run eval_tears shows  *)
(* how these break it.                                                     *)
(***************************************************************************)
THEOREM OneTreeWithoutEvalValue ==
  ASSUME "EvalValue" \notin Calls
  PROVE  Spec => ReturnsOneTree
<1>1. IInv /\ SeesRoot /\ NoEvaluation /\ [Next]_vars
        => [\A g \in Goroutines : result'[g] # result[g] => result'[g] \in seen[g]]_vars
  BY OnlyReturnsGive DEF NoEvaluation
<1> QED BY <1>1, SpecIInv, SpecSeesRoot, SpecNoEvaluation, PTL DEF Spec, ReturnsOneTree

=============================================================================
