---------------------------- MODULE Interpolation ----------------------------
(***************************************************************************)
(* One round of template.go's Interpolate, as a function on trees.         *)
(*                                                                         *)
(* A template is a string scalar holding a placeholder; of its text only   *)
(* the path it refers to matters.  Evaluated, it is replaced by what that  *)
(* path has in the environment, whatever its kind: the whole-string form   *)
(* "${{ path }}" yields a typed value, and the text form "{{.path}}" of a  *)
(* string yields that string, in both cases with the placeholders still in *)
(* it.                                                                     *)
(***************************************************************************)
EXTENDS PathTree

CONSTANTS
  Templates,   \* the scalars that hold a placeholder
  Ref          \* the path each of them refers to

ASSUME TemplatesAssumption ==
  /\ Templates \subseteq Scalars
  /\ Ref \in [Templates -> Path]

TemplatesOf(t) == {q \in DOMAIN t : t[q] \in Templates}

\* A placeholder whose path leads nowhere is an error: an unknown variable or
\* a missing field of an expression, a missing key of a text template.
Missing(value, env) == \E q \in TemplatesOf(value) : ~Exists(env, Ref[value[q]])

\* A mistake: containers inside containers are not copied to the result.
EvaluateNodeFlat(value, env) ==
  LET flat == {q \in DOMAIN value : Len(q) <= 1}
  IN  [q \in flat |->
         IF value[q] \in Templates THEN env[Ref[value[q]]] ELSE value[q]]

\* evaluateNode: value, with each template replaced by what env has for it.
EvaluateNode(value, env) ==
  LET evaluated(q)   == Sub(env, Ref[value[q]])
      replaced       == UNION {{q \o r : r \in DOMAIN evaluated(q)} : q \in TemplatesOf(value)}
      template(q)    == CHOOSE h \in TemplatesOf(value) : IsPrefix(h, q)
  IN  [q \in DOMAIN value \cup replaced |->
         IF q \in replaced THEN evaluated(template(q))[Rest(template(q), q)] ELSE value[q]]

\* A mistake: arrays are not looked into.
ContainsEvaluationOutsideArrays(t) ==
  \E q \in TemplatesOf(t) : \A n \in 1..Len(q) : q[n].kind = "key"

ContainsEvaluation(t) == TemplatesOf(t) # {}

=============================================================================
