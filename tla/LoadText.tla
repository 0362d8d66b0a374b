------------------------------- MODULE LoadText -------------------------------
(***************************************************************************)
(* How arguments and the lines of a properties file are taken apart, and   *)
(* what their values become.                                               *)
(***************************************************************************)
EXTENDS PathSyntax

(***************************************************************************)
(* Values.  A scalar is named by its type and text: a string by 'text, a   *)
(* bool and a number by its Go notation.                                   *)
(***************************************************************************)
Text(raw) == "'" \o raw

\* What encodeReflectValue refuses.
NotFinite == "NaN"

\* Of strconv: the texts of bools and of the floats that are not finite.
TrueTexts      == {"1", "t", "T", "TRUE", "true", "True"}
FalseTexts     == {"0", "f", "F", "FALSE", "false", "False"}
NotFiniteTexts == {"NaN", "nan", "Inf", "inf", "-inf", "Infinity", "infinity"}

\* A decimal of strconv.ParseFloat: a sign, digits with at most one point, and
\* an exponent.  Hexadecimal ones, and those out of range, are left out.
IsDecimal(s) ==
  LET exp      == FirstOf(s, 1, {"e", "E"})
      signed   == SubSeq(s, 1, exp - 1)
      mantissa == IF signed # "" /\ Char(signed, 1) \in {"+", "-"} THEN From(signed, 2) ELSE signed
      dot      == FirstOf(mantissa, 1, {"."})
      digits   == SubSeq(mantissa, 1, dot - 1) \o From(mantissa, dot + 1)
  IN  /\ digits # "" /\ CharsOf(digits) \subseteq Digits
      /\ exp <= Len(s) => Atoi(From(s, exp + 1)) # <<>>

inferScalar(src) ==
  IF src = "null" THEN Null
  ELSE IF src \in TrueTexts THEN "true"
  ELSE IF src \in FalseTexts THEN "false"
  ELSE IF Atoi(src) # <<>> THEN ToString(Atoi(src)[1])
  ELSE IF src \in NotFiniteTexts THEN NotFinite
  ELSE IF IsDecimal(src) THEN src
  ELSE Text(src)

scalarOf(raw, infer) == IF infer THEN inferScalar(raw) ELSE Text(raw)

(***************************************************************************)
(* Arguments.  What a text has to set: at most one key and raw value.      *)
(***************************************************************************)
Entry(key, raw) == <<[key |-> key, raw |-> raw]>>

cutArg(arg) ==
  LET sep == FirstOf(arg, 1, {"="})
  IN  IF sep > Len(arg) THEN <<>> ELSE Entry(SubSeq(arg, 1, sep - 1), From(arg, sep + 1))

(***************************************************************************)
(* Properties files.                                                       *)
(***************************************************************************)
Blanks == {" ", "\t", "\f"}

PropertyEscapes == Table(<< <<"n", "\n">>, <<"r", "\r">>, <<"t", "\t">>, <<"f", "\f">> >>)

\* A mistake: a backslash at the end continues the line even if it is escaped.
continuesAlways(line) == line # TrimRight(line, {"\\"})

continues(line) == (Len(line) - Len(TrimRight(line, {"\\"}))) % 2 = 1

WithoutLast(line) == SubSeq(line, 1, Len(line) - 1)

isComment(entry) == entry = "" \/ Char(entry, 1) \in {"#", "!"}

splitProperty(line) ==
  LET sep   == FirstUnescaped(line, 1, {"=", ":"} \cup Blanks)
      key   == TrimRight(SubSeq(line, 1, sep - 1), Blanks)
      rest  == TrimLeft(From(line, sep), Blanks)
      value == IF rest # "" /\ Char(rest, 1) \in {"=", ":"} THEN TrimLeft(From(rest, 2), Blanks) ELSE rest
  IN  IF sep = 0 THEN Entry(line, "") ELSE IF key = "" THEN <<>> ELSE Entry(key, value)

unescapeProperty(src) == Unescaped(src, PropertyEscapes)

\* The key, with its escapes resolved before it is parsed as a path, and the
\* value of a line; a comment has none, which is not an error.
readProperty(line) ==
  LET entry == splitProperty(line)
  IN  IF entry = <<>> THEN <<>>
      ELSE Entry(unescapeProperty(entry[1].key), unescapeProperty(entry[1].raw))

(***************************************************************************)
(* XML.  mxj marks attributes with a hyphen.                               *)
(***************************************************************************)
xmlKey(key) == IF key # "" /\ Char(key, 1) = "-" THEN "@" \o From(key, 2) ELSE key

=============================================================================
