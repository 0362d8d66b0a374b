----------------------------- MODULE Placeholders -----------------------------
(***************************************************************************)
(* Strings with expressions in them, of template.go: a string that is one  *)
(* placeholder ${{ expression }} becomes the value of that expression, and *)
(* in any other string the placeholders become text.  What is inside {{ }} *)
(* after that is left to text/template.                                    *)
(***************************************************************************)
EXTENDS ExpressionSyntax

CONSTANTS
  Snippets,     \* the texts that strings are typed from
  MaxSnippets,  \* bound: how many of them a string is typed from
  Contexts      \* pairs of what stands before and behind a placeholder

\* The first place of part in s, from i on, or 0.
Find(s, part, i) ==
  LET places == {j \in i..(Len(s) - Len(part) + 1) : SubSeq(s, j, j + Len(part) - 1) = part}
  IN  IF places = {} THEN 0 ELSE CHOOSE j \in places : \A k \in places : j <= k

Has(s, part) == Find(s, part, 1) # 0

\* A mistake: quotes are not looked at.
findExpressionPlaceholderEndUnquoted(src, start) == Find(src, "}}", start)

RECURSIVE findExpressionPlaceholderEnd(_, _)
findExpressionPlaceholderEnd(src, start) ==
  LET close == FirstUnescaped(src, start + 1, {Char(src, start)})
  IN  IF start > Len(src) - 1 THEN 0
      ELSE IF Char(src, start) \in {"'", "\""}
      THEN IF close = 0 THEN 0 ELSE findExpressionPlaceholderEnd(src, close + 1)
      ELSE IF SubSeq(src, start, start + 1) = "}}" THEN start
      ELSE findExpressionPlaceholderEnd(src, start + 1)

(***************************************************************************)
(* What a string is taken for: an error, or pieces, that are texts and     *)
(* expressions, of a value or of a text.                                   *)
(***************************************************************************)
Piece(kind, text) == [kind |-> kind, text |-> text]

Taken(kind, pieces) == [kind |-> kind, pieces |-> pieces]

BadPlaceholder == Taken("error", <<>>)

\* At most one expression.
wholeExpressionPlaceholder(src) ==
  LET trimmed == Trim(src, Whitespace)
      end     == findExpressionPlaceholderEnd(trimmed, 4)
      body    == SubSeq(trimmed, 4, end - 1)
  IN  IF Find(trimmed, "${{", 1) # 1 \/ end = 0 THEN <<>>
      ELSE IF Trim(From(trimmed, end + 2), Whitespace) # "" \/ Trim(body, Whitespace) = "" THEN <<>>
      ELSE <<Piece("expression", body)>>

\* A mistake: the search goes on behind the first brace that closes.
RECURSIVE placeholdersShort(_, _)
placeholdersShort(src, pieces) ==
  LET start == Find(src, "${{", 1)
      end   == findExpressionPlaceholderEnd(src, start + 3)
      body  == SubSeq(src, start + 3, end - 1)
  IN  IF start = 0 THEN Taken("text", Append(pieces, Piece("text", src)))
      ELSE IF end = 0 \/ Trim(body, Whitespace) = "" THEN BadPlaceholder
      ELSE placeholdersShort(From(src, end + 1),
             pieces \o <<Piece("text", SubSeq(src, 1, start - 1)), Piece("expression", body)>>)

\* renderExpressionPlaceholders; pieces is what it has so far.
RECURSIVE placeholders(_, _)
placeholders(src, pieces) ==
  LET start == Find(src, "${{", 1)
      end   == findExpressionPlaceholderEnd(src, start + 3)
      body  == SubSeq(src, start + 3, end - 1)
  IN  IF start = 0 THEN Taken("text", Append(pieces, Piece("text", src)))
      ELSE IF end = 0 \/ Trim(body, Whitespace) = "" THEN BadPlaceholder
      ELSE placeholders(From(src, end + 2),
             pieces \o <<Piece("text", SubSeq(src, 1, start - 1)), Piece("expression", body)>>)

\* What is rendered is a template if it has two braces; those that the values
\* of expressions bring are not known here.
evaluateString(src) ==
  LET rendered == IF Has(src, "${{") THEN placeholders(src, <<>>)
                  ELSE Taken("text", <<Piece("text", src)>>)
  IN  IF wholeExpressionPlaceholder(src) # <<>> THEN Taken("value", wholeExpressionPlaceholder(src))
      ELSE IF \E i \in DOMAIN rendered.pieces :
                rendered.pieces[i].kind = "text" /\ Has(rendered.pieces[i].text, "{{")
      THEN Taken("template", rendered.pieces)
      ELSE rendered

\* A mistake: only expressions are looked for.
stringContainsExpression(src) == Has(src, "${{")

stringContainsEvaluation(src) ==
  LET trimmed == Trim(src, Whitespace)
  IN  \/ Has(src, "{{")
      \/ /\ Find(trimmed, "${{", 1) = 1
         /\ Len(trimmed) > 1 /\ From(trimmed, Len(trimmed) - 1) = "}}"

(***************************************************************************)
(* Strings, typed snippet by snippet.                                      *)
(***************************************************************************)
VARIABLE typed

string == Concat(typed)

NoString == typed = <<>>

TypeSnippet ==
  /\ Len(typed) < MaxSnippets
  /\ \E snippet \in Snippets : typed' = Append(typed, snippet)

ClearString ==
  /\ typed # <<>>
  /\ typed' = <<>>

(***************************************************************************)
(* An expression that compiles is found as a whole between the braces of a *)
(* placeholder, whatever its strings contain, and whatever is around the   *)
(* placeholder: the scan for the end and the lexer agree on what is        *)
(* quoted.  Where nothing but space is around, the string is a value.      *)
(*                                                                         *)
(* The exception is an expression in which two braces close next to each   *)
(* other, as they do for an object in an object: the scan takes them for   *)
(* the end.                                                                *)
(***************************************************************************)
ExpressionsAreFound ==
  parsed.node # NoNode =>
    LET body  == " " \o Tight(words) \o " "
        whole == \A i \in 1..(Len(words) - 1) : words[i] # "}" \/ words[i + 1] # "}"
        placed(context) == evaluateString(context[1] \o "${{" \o body \o "}}" \o context[2])
    IN  whole => \A context \in Contexts :
          IF Trim(context[1] \o context[2], Whitespace) = ""
          THEN placed(context) = Taken("value", <<Piece("expression", body)>>)
          ELSE placed(context) = Taken("text",
                 <<Piece("text", context[1]), Piece("expression", body), Piece("text", context[2])>>)

(***************************************************************************)
(* Whatever a string is, no part of it is dropped or taken twice: its      *)
(* pieces are the string, or it is an error.                               *)
(***************************************************************************)
PiecesAreTheString ==
  LET reading == evaluateString(string)
      source(piece) == IF piece.kind = "text" THEN piece.text ELSE "${{" \o piece.text \o "}}"
  IN  reading.kind # "error" =>
        Trim(Concat([i \in DOMAIN reading.pieces |-> source(reading.pieces[i])]), Whitespace)
          = Trim(string, Whitespace)

(***************************************************************************)
(* Recursive interpolation, which ends when containsEvaluation finds       *)
(* nothing more, leaves no string that would still be evaluated.           *)
(***************************************************************************)
PlainStringsStay ==
  ~stringContainsEvaluation(string) => evaluateString(string) = Taken("text", <<Piece("text", string)>>)

=============================================================================
