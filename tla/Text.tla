--------------------------------- MODULE Text ---------------------------------
(***************************************************************************)
(* Texts that the program parses and prints: strings, of which a character *)
(* is a part of length one.                                                *)
(***************************************************************************)
EXTENDS Integers, Sequences, SequencesExt

Char(s, i) == SubSeq(s, i, i)
From(s, i) == SubSeq(s, i, Len(s))
CharsOf(s) == {Char(s, i) : i \in 1..Len(s)}

Concat(texts) == FoldLeft(LAMBDA s, t : s \o t, "", texts)

\* s with f of each of its characters in the place of that character.
Each(s, f(_)) == Concat([i \in 1..Len(s) |-> f(Char(s, i))])

\* The first place in s, from i on, that has one of chars, or the one after s.
FirstOf(s, i, chars) ==
  LET places == {j \in i..Len(s) : Char(s, j) \in chars}
  IN  IF places = {} THEN Len(s) + 1 ELSE CHOOSE j \in places : \A k \in places : j <= k

TrimLeft(s, blanks) == From(s, FirstOf(s, 1, CharsOf(s) \ blanks))

TrimRight(s, blanks) ==
  LET kept == {j \in 1..Len(s) : Char(s, j) \notin blanks}
  IN  SubSeq(s, 1, IF kept = {} THEN 0 ELSE CHOOSE j \in kept : \A k \in kept : j >= k)

Trim(s, blanks) == TrimLeft(TrimRight(s, blanks), blanks)

Letters    == CharsOf("abcdefghijklmnopqrstuvwxyzABCDEFGHIJKLMNOPQRSTUVWXYZ")
Digits     == CharsOf("0123456789")
Whitespace == {" ", "\t", "\n", "\f", "\r"}

(***************************************************************************)
(* Escapes.  A table takes the character behind a backslash to what the    *)
(* two of them stand for.                                                  *)
(***************************************************************************)
Table(rows) ==
  [c \in {rows[i][1] : i \in DOMAIN rows} |-> rows[CHOOSE i \in DOMAIN rows : rows[i][1] = c][2]]

\* unescapeProperty, and the loops over the texts between single quotes: a
\* character that is not in the table stands for itself.
RECURSIVE Unescaped(_, _)
Unescaped(s, escapes) ==
  LET c == Char(s, 2)
  IN  IF Len(s) < 2 THEN s
      ELSE IF Char(s, 1) # "\\" THEN Char(s, 1) \o Unescaped(From(s, 2), escapes)
      ELSE (IF c \in DOMAIN escapes THEN escapes[c] ELSE c) \o Unescaped(From(s, 3), escapes)

SingleQuoteEscapes == Table(<< <<"n", "\n">>, <<"r", "\r">>, <<"t", "\t">> >>)

\* The first place in s, from i on, that has one of chars and is not behind a
\* backslash, or 0.
RECURSIVE FirstUnescaped(_, _, _)
FirstUnescaped(s, i, chars) ==
  IF i > Len(s) THEN 0
  ELSE IF Char(s, i) = "\\" THEN FirstUnescaped(s, i + 2, chars)
  ELSE IF Char(s, i) \in chars THEN i
  ELSE FirstUnescaped(s, i + 1, chars)

\* The place of the quote that closes the one s begins with, or 0.
Closing(s) == FirstUnescaped(s, 2, {Char(s, 1)})

(***************************************************************************)
(* strconv.Quote and strconv.Unquote, of Go's library, but for the escapes *)
(* that give a code point.                                                 *)
(***************************************************************************)
GoEscapes ==
  Table(<< <<"n", "\n">>, <<"r", "\r">>, <<"t", "\t">>, <<"f", "\f">>, <<"\\", "\\">>, <<"\"", "\"">> >>)

Quote(s) ==
  LET quoted(c) ==
        LET escapes == {e \in DOMAIN GoEscapes : GoEscapes[e] = c}
        IN  IF escapes = {} THEN c ELSE "\\" \o CHOOSE e \in escapes : TRUE
  IN  "\"" \o Each(s, quoted) \o "\""

RECURSIVE Unquotable(_)
Unquotable(s) ==
  \/ s = ""
  \/ /\ Char(s, 1) \notin {"\\", "\n"}
     /\ Unquotable(From(s, 2))
  \/ /\ Char(s, 1) = "\\" /\ Len(s) > 1
     /\ Char(s, 2) \in DOMAIN GoEscapes
     /\ Unquotable(From(s, 3))

\* What a text with its quotes stands for, in expressions and in paths alike:
\* at most one string, as between double quotes not every text is one.
Unquote(quoted) ==
  LET s == SubSeq(quoted, 2, Len(quoted) - 1)
  IN  IF Char(quoted, 1) = "'" THEN <<Unescaped(s, SingleQuoteEscapes)>>
      ELSE IF Unquotable(s) THEN <<Unescaped(s, GoEscapes)>>
      ELSE <<>>

=============================================================================
