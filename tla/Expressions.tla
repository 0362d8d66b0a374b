----------------------------- MODULE Expressions -----------------------------
(***************************************************************************)
(* Goroutines that compile expressions and evaluate them while others      *)
(* write to the tree.                                                      *)
(*                                                                         *)
(* EvalString and SelectString take the lock twice: they check the         *)
(* expression against a copy of the tree, let go, and evaluate it on the   *)
(* tree they find then.  That the evaluation itself reads one tree is the  *)
(* matter of module LockedRead; here each of the two steps is one action.  *)
(***************************************************************************)
EXTENDS Checker

CONSTANTS
  Roots,      \* the trees that writers leave behind
  Programs,   \* the expressions, as syntax trees
  Callers,    \* the goroutines that evaluate
  Options     \* how they compile: [tree: BOOLEAN, strict: BOOLEAN]

VARIABLES
  root,       \* the tree
  calls       \* what each caller is doing

vars == <<root, calls>>

(***************************************************************************)
(* A call is idle, asked for, rejected, or compiled, from where it can     *)
(* evaluate as often as it likes.  What it has learnt is remembered for as *)
(* long as the tree is the one that it learnt it from: a sequence of one,  *)
(* and empty after a write.  "checked" is the type of the expression, or   *)
(* that it has none, and "answer" what it was last answered.               *)
(***************************************************************************)
Idle == [pc |-> "idle"]

Error       == [err |-> TRUE]
Value(v)    == [err |-> FALSE, value |-> v]
Selected(m) == [err |-> FALSE, matches |-> m]

Modes == {"eval", "select"}

History == {"checked", "answer"}

Checked(c) == calls[c].pc \in {"rejected", "compiled"}

Init ==
  /\ root \in Roots
  /\ calls = [c \in Callers |-> Idle]

\* A writer, whichever: of the methods that write, and of what they do to the
\* tree, module Variables tells.
Write ==
  /\ \E tree \in Roots \ {root} : root' = tree
  /\ calls' = [c \in Callers |->
       [f \in DOMAIN calls[c] |-> IF f \in History THEN <<>> ELSE calls[c][f]]]

Ask(c) ==
  /\ calls[c] = Idle
  /\ \E expr \in Programs, option \in Options :
       calls' = [calls EXCEPT ![c] = [pc |-> "asked", expr |-> expr, option |-> option]]
  /\ UNCHANGED root

CompileExpression(c) ==
  LET option == calls[c].option
      check  == IF option.tree THEN CompileOn(calls[c].expr, root, option.strict)
                ELSE CompileAlone(calls[c].expr, option.strict)
  IN  /\ calls[c].pc = "asked"
      /\ calls' = [calls EXCEPT ![c] =
           [pc |-> IF check.err THEN "rejected" ELSE "compiled",
            checked |-> <<check>>, answer |-> <<>>] @@ calls[c]]
      /\ UNCHANGED root

Answered(c, mode, outcome) ==
  calls' = [calls EXCEPT ![c].answer = <<[mode |-> mode, outcome |-> outcome]>>]

EvalValue(c) ==
  LET result == Eval(calls[c].expr, Context(root))
  IN  /\ calls[c].pc = "compiled"
      /\ Answered(c, "eval", IF result.err THEN Error ELSE Value(output(result)))
      /\ UNCHANGED root

Select(c) ==
  LET result == Eval(calls[c].expr, Context(root))
  IN  /\ calls[c].pc = "compiled"
      /\ Answered(c, "select", IF result.err \/ ~result.selected THEN Error ELSE Selected(result.matches))
      /\ UNCHANGED root

Return(c) ==
  /\ Checked(c)
  /\ calls' = [calls EXCEPT ![c] = Idle]
  /\ UNCHANGED root

Next ==
  \/ Write
  \/ \E c \in Callers :
       \/ Ask(c)
       \/ CompileExpression(c)
       \/ EvalValue(c)
       \/ Select(c)
       \/ Return(c)

Spec == Init /\ [][Next]_vars

(***************************************************************************)
(* Properties.                                                             *)
(***************************************************************************)
\* What the call last found in the tree as it is.
Answer(c, mode) == Checked(c) /\ calls[c].answer # <<>> /\ calls[c].answer[1].mode = mode
Outcome(c)      == calls[c].answer[1].outcome

\* The expression was checked against the tree as it is, and evaluated on it.
Evaluated(c) == Answer(c, "eval") /\ calls[c].checked # <<>> /\ calls[c].option.tree

\* The state has the shape that the definitions above rely on.
TypeOK ==
  /\ root \in Roots
  /\ DOMAIN calls = Callers
  /\ \A c \in Callers :
       /\ calls[c].pc \in {"idle", "asked", "rejected", "compiled"}
       /\ calls[c] # Idle => {"expr", "option"} \subseteq DOMAIN calls[c] /\ calls[c].option \in Options
       /\ Checked(c) =>
            /\ \A i \in DOMAIN calls[c].checked :
                 IF calls[c].pc = "rejected" THEN calls[c].checked[i].err
                 ELSE calls[c].checked[i].type.kind \in StaticKinds
            /\ \A i \in DOMAIN calls[c].answer :
                 calls[c].answer[i].mode \in Modes /\ calls[c].answer[i].outcome.err \in BOOLEAN

RECURSIVE NodesOf(_)
NodesOf(v) ==
  LET slots == IF v.kind = "object" THEN {Key(k) : k \in DOMAIN v.obj}
               ELSE IF v.kind = "array" THEN {Index(i - 1) : i \in DOMAIN v.arr}
               ELSE {}
  IN  {Match(<<>>, v)} \cup
      UNION {{Match(<<s>> \o m.path, m.value) : m \in NodesOf(ChildAt(v, s))} : s \in slots}

\* Select answers with nodes of the tree that it is evaluated on, whatever tree
\* the expression was checked against: each at its path and no node twice.  What
\* optional access adds is null, at a path that the tree does not have.
SelectedAreNodes ==
  \A c \in Callers : Answer(c, "select") /\ ~Outcome(c).err =>
    LET matches == Outcome(c).matches
        nodes   == NodesOf(root)
    IN  /\ \A i \in DOMAIN matches :
             \/ matches[i] \in nodes
             \/ matches[i].value = NullValue /\ \A m \in nodes : m.path # matches[i].path
        /\ \A i, j \in DOMAIN matches : matches[i].path = matches[j].path => i = j

\* What a value of type t can be: null apart, which the merging of types loses
\* sight of.
RECURSIVE Conforms(_, _)
Conforms(v, t) ==
  \/ v.kind = "null"
  \/ /\ CASE ~isKnown(t)             -> TRUE
           [] t.kind = "number"        -> IsNumber(v)
           [] t.kind \in {"integer", "float"} -> IsNumber(v) /\ v.type = t.kind
           [] OTHER                    -> v.kind = t.kind
     /\ t.const # <<>> => valuesEqual(v, t.const[1])
     /\ v.kind = "array" /\ t.elements # <<>> =>
          /\ Len(v.arr) = Len(t.elements)
          /\ \A i \in DOMAIN v.arr : Conforms(v.arr[i], t.elements[i])
     /\ v.kind = "array" => \A i \in DOMAIN v.arr : Conforms(v.arr[i], ElemOf(t))
     /\ v.kind = "object" /\ isKnownObject(t) =>
          \A k \in DOMAIN v.obj : HasStaticField(t, k) /\ Conforms(v.obj[k], StaticFieldOf(t, k))

\* What an expression evaluates to is what the compiler took it to be: of the
\* kind, with the elements and the fields, and the constant if it is one.  A
\* filter is excepted: its type lists the elements that it drops.
TypesDescribe ==
  \A c \in Callers :
    Evaluated(c) /\ ~Outcome(c).err /\ calls[c].expr.op # "filter"
      => Conforms(Outcome(c).value, calls[c].checked[1].type)

\* A type that says everything of its values.
RECURSIVE Clear(_)
Clear(t) ==
  /\ isKnown(t) /\ ~t.nullable
  /\ t.kind = "array" => Clear(ElemOf(t))
  /\ t.kind = "object" => isKnownObject(t) /\ \A k \in DOMAIN t.fields[1] : Clear(t.fields[1][k])

\* The nodes of a syntax tree, but for the predicates of filters.
RECURSIVE Subexpressions(_)
Subexpressions(n) ==
  LET of(nodes) == UNION {Subexpressions(nodes[i]) : i \in DOMAIN nodes}
  IN  {n} \cup
      CASE n.op \in {"array", "object"}   -> of(n.items)
        [] n.op \in {"member", "filter"}  -> of(<<n.receiver>>)
        [] n.op = "index"                 -> of(<<n.receiver, n.index>>)
        [] n.op = "unary"                 -> of(<<n.child>>)
        [] n.op \in {"logical", "binary"} -> of(<<n.left, n.right>>)
        [] n.op = "call"                  -> of(n.args)
        [] n.op = "methodCall"            -> of(<<n.receiver>> \o n.args)
        [] OTHER                          -> {}

\* All types are clear, and so are the values that decide of an error; of what
\* the predicate of a filter meets, the types say little.
AllClear(expr, tree) ==
  \A n \in Subexpressions(expr) :
    /\ n.op # "filter"
    /\ Clear(CompileOn(n, tree, FALSE).type)
    /\ n.op = "index" => CompileOn(n.index, tree, FALSE).type.const # <<>>
    /\ n.op = "binary" /\ n.operator \in {"/", "%"} => CompileOn(n.right, tree, FALSE).type.const # <<>>

\* README: "Compilation performs static checks when types are clear ... For
\* example, invalid arithmetic, bad function arity, missing known fields, and
\* invalid sort or aggregate inputs fail before evaluation."  An expression
\* all of whose types are clear and that compiles does not fail afterwards.
ClearErrorsAreCaught ==
  \A c \in Callers :
    Evaluated(c) /\ Outcome(c).err => ~AllClear(calls[c].expr, root)

\* What the README says of compilation without strict types: "Unknown dynamic
\* values are still checked at runtime", and no earlier.  An expression that is
\* rejected would have failed on the tree as it was.
RejectedFails ==
  \A c \in Callers :
    calls[c].pc = "rejected" /\ calls[c].checked # <<>> /\ ~calls[c].option.strict
    => Eval(calls[c].expr, Context(root)).err

=============================================================================
