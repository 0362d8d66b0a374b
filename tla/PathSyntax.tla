------------------------------ MODULE PathSyntax ------------------------------
(***************************************************************************)
(* Paths as text: ParsePath and String of path.go.                         *)
(***************************************************************************)
EXTENDS Text, PathTree

\* A result of at most one path, or of at most one segment and what follows it.
InvalidPath == <<>>

(***************************************************************************)
(* ParsePath.                                                              *)
(***************************************************************************)
\* strconv.Atoi, on numbers that fit, gives at most one.
Decimal(c) == CHOOSE d \in 0..9 : Char("0123456789", d + 1) = c

Atoi(s) ==
  LET signed == Len(s) > 0 /\ Char(s, 1) \in {"+", "-"}
      digits == IF signed THEN From(s, 2) ELSE s
      value  == FoldLeft(LAMBDA n, i : 10 * n + Decimal(Char(digits, i)), 0, [i \in 1..Len(digits) |-> i])
  IN  IF digits = "" \/ ~(CharsOf(digits) \subseteq Digits) THEN <<>>
      ELSE <<IF signed /\ Char(s, 1) = "-" THEN -value ELSE value>>

parseQuotedKey(src) ==
  LET end == Closing(src)
      key == Unquote(SubSeq(src, 1, end))
  IN  IF end = 0 \/ key = <<>> THEN InvalidPath
      ELSE <<[segment |-> Key(key[1]), rest |-> From(src, end + 1)]>>

IsIndex(number) == number # <<>> /\ number[1] >= 0

parseBracketSegment(src) ==
  LET end    == FirstOf(src, 1, {"]"})
      number == Atoi(Trim(SubSeq(src, 2, end - 1), Whitespace))
      quoted == parseQuotedKey(From(src, 2))
  IN  IF Len(src) > 1 /\ Char(src, 2) \in {"\"", "'"}
      THEN IF quoted = InvalidPath \/ quoted[1].rest = "" THEN InvalidPath
           ELSE IF Char(quoted[1].rest, 1) # "]" THEN InvalidPath
           ELSE <<[quoted[1] EXCEPT !.rest = From(@, 2)]>>
      ELSE IF end > Len(src) \/ ~IsIndex(number) THEN InvalidPath
      ELSE <<[segment |-> Index(number[1]), rest |-> From(src, end + 1)]>>

RECURSIVE parseSegments(_, _, _, _)
parseSegments(rest, path, needSegment, afterDot) ==
  LET end == FirstOf(rest, 1, {".", "["})
      \* What follows the next segment, if there is one.
      next(parsed) == IF parsed = InvalidPath THEN InvalidPath
                      ELSE parseSegments(parsed[1].rest, Append(path, parsed[1].segment), FALSE, FALSE)
  IN  IF rest = "" THEN IF needSegment THEN InvalidPath ELSE <<path>>
      ELSE IF Char(rest, 1) = "."
      THEN IF needSegment THEN InvalidPath ELSE parseSegments(From(rest, 2), path, TRUE, TRUE)
      ELSE IF Char(rest, 1) = "["
      THEN IF afterDot THEN InvalidPath ELSE next(parseBracketSegment(rest))
      ELSE IF ~needSegment THEN InvalidPath
      ELSE next(<<[segment |-> Key(SubSeq(rest, 1, end - 1)), rest |-> From(rest, end)]>>)

ParsePath(src) == IF src = "" THEN << <<>> >> ELSE parseSegments(src, <<>>, TRUE, FALSE)

(***************************************************************************)
(* String.                                                                 *)
(***************************************************************************)
\* A mistake: keys with dots are written bare.
isBareKeyWithDots(key) == key # "" /\ CharsOf(key) \subseteq Letters \cup Digits \cup {"_", "-", "@", "#", "."}

isBareKey(key) == key # "" /\ CharsOf(key) \subseteq Letters \cup Digits \cup {"_", "-", "@", "#"}

String(path) ==
  LET written(i) ==
        IF path[i].kind = "index" THEN "[" \o ToString(path[i].index) \o "]"
        ELSE IF ~isBareKey(path[i].key) THEN "[" \o Quote(path[i].key) \o "]"
        ELSE IF i > 1 THEN "." \o path[i].key
        ELSE path[i].key
  IN  Concat([i \in DOMAIN path |-> written(i)])

=============================================================================
