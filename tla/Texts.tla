-------------------------------- MODULE Texts --------------------------------
(***************************************************************************)
(* A goroutine with texts from outside: sources that it loads into its     *)
(* container, expressions that it compiles, and strings with placeholders. *)
(* All are taken apart from left to right, with the same rules for what is *)
(* quoted; beyond that they share nothing: neither the parser nor the      *)
(* search for placeholders looks at the container.                         *)
(***************************************************************************)
EXTENDS Loading, Placeholders

TextsInit == Init /\ NoText /\ NoString

\* Bound: as they do not look at the container, nothing else happens while an
\* expression or a string is taken apart, and that with one of the trees.
TextsNext ==
  \/ NoText /\ NoString /\ Next /\ UNCHANGED <<syntaxVars, typed>>
  \/ /\ load = Idle /\ root = EmptyMap /\ UNCHANGED vars
     /\ \/ NoString /\ Compile /\ UNCHANGED typed
        \/ NoText /\ (TypeSnippet \/ ClearString) /\ UNCHANGED syntaxVars

TextsSpec == TextsInit /\ [][TextsNext]_<<vars, syntaxVars, typed>>

=============================================================================
