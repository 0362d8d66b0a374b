--------------------------- MODULE ExpressionSyntax ---------------------------
(***************************************************************************)
(* The front of CompileExpression, of expression.go: the text of an        *)
(* expression is cut into tokens and parsed by recursive descent.          *)
(*                                                                         *)
(* A text is typed word by word.  What a word is good for only the lexer   *)
(* decides; some are no token at all.                                      *)
(***************************************************************************)
EXTENDS Text

CONSTANTS
  Vocabularies,  \* sets of words; the words of one text are from one of them
  MaxWords,      \* bound: the length of a text that is typed
  Trees          \* syntax trees that are written out

ASSUME VocabulariesAssumption == \A words \in Vocabularies : "" \notin words

(***************************************************************************)
(* lexExpression: the tokens of a text, or <<>> if it has none.            *)
(***************************************************************************)
Token(kind, text) == [kind |-> kind, text |-> text]

Symbols ==
  {"+", "-", "*", "/", "%", "==", "!=", ">", ">=", "<", "<=", "&&", "||", "!", ".", "?.", "?[",
   "(", ")", "[", "]", "{", "}", ",", ":", "$"}

isIdentStart == Letters \cup {"_"}

\* A mistake: names may have a hyphen.
isIdentPartHyphen == isIdentStart \cup Digits \cup {"-"}

isIdentPart == isIdentStart \cup Digits

At(s, i) == IF i > Len(s) THEN "" ELSE Char(s, i)

\* The first place in s, from i on, that has none of chars.
FirstNot(s, i, chars) == FirstOf(s, i, CharsOf(s) \ chars)

\* The place behind the number that s begins with, or 0.
NumberEnd(s) ==
  LET whole    == FirstNot(s, 1, Digits)
      fraction == IF At(s, whole) = "." THEN FirstNot(s, whole + 1, Digits) ELSE whole
      sign     == IF At(s, fraction + 1) \in {"+", "-"} THEN fraction + 2 ELSE fraction + 1
      exponent == FirstNot(s, sign, Digits)
  IN  IF At(s, fraction) \notin {"e", "E"} THEN fraction
      ELSE IF exponent = sign THEN 0
      ELSE exponent

SymbolEnd(s) ==
  IF Len(s) > 1 /\ SubSeq(s, 1, 2) \in Symbols THEN 3 ELSE IF Char(s, 1) \in Symbols THEN 2 ELSE 0

TokenEnd(s) ==
  IF Char(s, 1) \in isIdentStart THEN FirstNot(s, 2, isIdentPart)
  ELSE IF Char(s, 1) \in Digits THEN NumberEnd(s)
  ELSE IF Char(s, 1) \in {"'", "\""} THEN IF Closing(s) = 0 THEN 0 ELSE Closing(s) + 1
  ELSE SymbolEnd(s)

TokenOf(text) ==
  IF text = "in" \/ text \in Symbols THEN Token(text, text)
  ELSE IF Char(text, 1) \in isIdentStart THEN Token("ident", text)
  ELSE IF Char(text, 1) \in Digits THEN Token("number", text)
  ELSE Token("string", text)

RECURSIVE lexExpression(_)
lexExpression(src) ==
  LET end  == TokenEnd(src)
      rest == lexExpression(From(src, end))
  IN  IF src = "" THEN << <<Token("EOF", "")>> >>
      ELSE IF Char(src, 1) \in Whitespace THEN lexExpression(From(src, 2))
      ELSE IF end = 0 THEN <<>>
      ELSE IF rest = <<>> THEN <<>>
      ELSE << <<TokenOf(SubSeq(src, 1, end - 1))>> \o rest[1] >>

(***************************************************************************)
(* expressionParser.  What a method makes of the tokens ts from position   *)
(* pos on: a node and the position behind it, or, in the place of an       *)
(* error, no node and the last position it looked at.                      *)
(***************************************************************************)
Node(kind, text, children) == [kind |-> kind, text |-> text, children |-> children]

NoNode == Node("none", "", <<>>)

Parsed(node, pos) == [node |-> node, pos |-> pos]
Failure(pos)      == Parsed(NoNode, pos)

\* What peek gives.  There is no token behind the end.
Kind(ts, pos) == IF pos > Len(ts) THEN "none" ELSE ts[pos].kind

\* A result whose node becomes a child, and one that a token of kind has to follow.
In(result, kind, text, before) ==
  IF result.node = NoNode THEN result
  ELSE Parsed(Node(kind, text, before \o (IF result.node.kind = "list" THEN result.node.children
                                          ELSE <<result.node>>)), result.pos)

expect(ts, result, kind) ==
  IF result.node = NoNode THEN result
  ELSE IF Kind(ts, result.pos) # kind THEN Failure(result.pos)
  ELSE Parsed(result.node, result.pos + 1)

binaryPrecedence(kind) ==
  IF kind = "||" THEN 1
  ELSE IF kind = "&&" THEN 2
  ELSE IF kind \in {"==", "!=", ">", ">=", "<", "<=", "in"} THEN 3
  ELSE IF kind \in {"+", "-"} THEN 4
  ELSE IF kind \in {"*", "/", "%"} THEN 5
  ELSE 0

RECURSIVE parseExpression(_, _, _), parseBinary(_, _, _), parseUnary(_, _), parsePostfix(_, _),
          parsePrimary(_, _), parseEntry(_, _, _), parseItems(_, _, _, _)

parseExpression(ts, pos, minPrec) == parseBinary(ts, parseUnary(ts, pos), minPrec)

\* A mistake: operators of one precedence are taken from right to left.
parseBinaryFromRight(ts, left, minPrec) ==
  LET op    == Kind(ts, left.pos)
      right == parseExpression(ts, left.pos + 1, binaryPrecedence(op))
  IN  IF left.node = NoNode \/ binaryPrecedence(op) < minPrec THEN left
      ELSE parseBinary(ts, In(right, "binary", op, <<left.node>>), minPrec)

\* The loop of parseExpression: left is what it has so far.
parseBinary(ts, left, minPrec) ==
  LET op    == Kind(ts, left.pos)
      right == parseExpression(ts, left.pos + 1, binaryPrecedence(op) + 1)
  IN  IF left.node = NoNode \/ binaryPrecedence(op) < minPrec THEN left
      ELSE parseBinary(ts, In(right, "binary", op, <<left.node>>), minPrec)

parseUnary(ts, pos) ==
  IF Kind(ts, pos) \in {"!", "-"} THEN In(parseUnary(ts, pos + 1), "unary", Kind(ts, pos), <<>>)
  ELSE parsePostfix(ts, parsePrimary(ts, pos))

\* A mistake: a comma may stand before the closing bracket.
parseItemsTrailing(ts, pos, items, close) ==
  LET item == IF close = "}" THEN parseEntry(ts, pos, items) ELSE parseExpression(ts, pos, 1)
      all  == Append(items, item.node)
  IN  IF item.node = NoNode THEN item
      ELSE IF Kind(ts, item.pos) # "," THEN expect(ts, Parsed(Node("list", "", all), item.pos), close)
      ELSE IF Kind(ts, item.pos + 1) = close THEN Parsed(Node("list", "", all), item.pos + 2)
      ELSE parseItems(ts, item.pos + 1, all, close)

\* Expressions, or the entries of an object, separated by commas, up to a token
\* of kind close.
parseItems(ts, pos, items, close) ==
  LET item == IF close = "}" THEN parseEntry(ts, pos, items) ELSE parseExpression(ts, pos, 1)
      all  == Append(items, item.node)
  IN  IF item.node = NoNode THEN item
      ELSE IF Kind(ts, item.pos) # "," THEN expect(ts, Parsed(Node("list", "", all), item.pos), close)
      ELSE IF Kind(ts, item.pos + 1) = close THEN Failure(item.pos + 1)
      ELSE parseItems(ts, item.pos + 1, all, close)

parseList(ts, pos, close) ==
  IF Kind(ts, pos) = close THEN Parsed(Node("list", "", <<>>), pos + 1)
  ELSE parseItems(ts, pos, <<>>, close)

\* A mistake: the colon is looked for before it is known that there is a key.
parseEntryColonFirst(ts, pos, entries) ==
  LET key == IF Kind(ts, pos) = "ident" THEN <<ts[pos].text>>
             ELSE IF Kind(ts, pos) = "string" THEN Unquote(ts[pos].text)
             ELSE <<>>
  IN  IF Kind(ts, pos + 1) # ":" THEN Failure(pos + 1)
      ELSE IF key = <<>> THEN Failure(pos)
      ELSE IF \E i \in DOMAIN entries : entries[i].text = key[1] THEN Failure(pos + 1)
      ELSE In(parseExpression(ts, pos + 2, 1), "entry", key[1], <<>>)

parseEntry(ts, pos, entries) ==
  LET key == IF Kind(ts, pos) = "ident" THEN <<ts[pos].text>>
             ELSE IF Kind(ts, pos) = "string" THEN Unquote(ts[pos].text)
             ELSE <<>>
  IN  IF key = <<>> THEN Failure(pos)
      ELSE IF Kind(ts, pos + 1) # ":" THEN Failure(pos + 1)
      ELSE IF \E i \in DOMAIN entries : entries[i].text = key[1] THEN Failure(pos + 1)
      ELSE In(parseExpression(ts, pos + 2, 1), "entry", key[1], <<>>)

parsePrimary(ts, pos) ==
  LET kind == Kind(ts, pos)
  IN  IF kind = "ident"
      THEN Parsed(Node(IF ts[pos].text \in {"true", "false", "null"} THEN "literal" ELSE "identifier",
                       ts[pos].text, <<>>), pos + 1)
      ELSE IF kind = "$" THEN Parsed(Node("root", "$", <<>>), pos + 1)
      ELSE IF kind = "number" THEN Parsed(Node("literal", ts[pos].text, <<>>), pos + 1)
      ELSE IF kind = "string"
      THEN IF Unquote(ts[pos].text) = <<>> THEN Failure(pos)
           ELSE Parsed(Node("literal", Quote(Unquote(ts[pos].text)[1]), <<>>), pos + 1)
      ELSE IF kind = "(" THEN expect(ts, parseExpression(ts, pos + 1, 1), ")")
      ELSE IF kind = "[" THEN In(parseList(ts, pos + 1, "]"), "array", "", <<>>)
      ELSE IF kind = "{" THEN In(parseList(ts, pos + 1, "}"), "object", "", <<>>)
      ELSE Failure(pos)

\* The loop of parsePostfix: left is what it has so far.
parsePostfix(ts, left) ==
  LET node == left.node
      pos  == left.pos
      kind == Kind(ts, pos)
      name == ts[pos + 1].text
  IN  IF node = NoNode \/ kind \notin {"(", ".", "?.", "[", "?["} THEN left
      ELSE IF kind = "("
      THEN IF node.kind # "identifier" \/ node.text = "query" THEN Failure(pos)
           ELSE parsePostfix(ts, In(parseList(ts, pos + 1, ")"), "call", node.text, <<>>))
      ELSE IF kind \in {"[", "?["}
      THEN parsePostfix(ts, In(expect(ts, parseExpression(ts, pos + 1, 1), "]"),
                               IF kind = "[" THEN "index" ELSE "filter", "", <<node>>))
      ELSE IF Kind(ts, pos + 1) # "ident" THEN Failure(pos + 1)
      ELSE IF Kind(ts, pos + 2) # "("
      THEN parsePostfix(ts, Parsed(Node(IF kind = "." THEN "member" ELSE "optionalMember", name, <<node>>),
                                   pos + 2))
      ELSE IF kind = "?." \/ name = "query" THEN Failure(pos + 2)
      ELSE parsePostfix(ts, In(parseList(ts, pos + 3, ")"), "method", name, <<node>>))

\* parse, on the tokens of a text; a text that is no tokens fails at 0.
parse(src) ==
  LET lexed == lexExpression(src)
  IN  IF lexed = <<>> THEN Failure(0) ELSE expect(lexed[1], parseExpression(lexed[1], 1, 1), "EOF")

(***************************************************************************)
(* The reference: how a syntax tree is written, with the parentheses it    *)
(* needs and no others.                                                    *)
(***************************************************************************)
Operators ==
  << {"||"}, {"&&"}, {"==", "!=", ">", ">=", "<", "<=", "in"}, {"+", "-"}, {"*", "/", "%"} >>

\* How strongly a node keeps together: operators from 1 to 5, then unary ones.
Strength(node) ==
  IF node.kind = "binary" THEN CHOOSE n \in DOMAIN Operators : node.text \in Operators[n]
  ELSE IF node.kind = "unary" THEN 6
  ELSE 7

RECURSIVE Written(_, _)
Written(node, strength) ==
  LET n == node.children
      list(nodes) ==
        FlattenSeq([i \in DOMAIN nodes |-> (IF i = 1 THEN <<>> ELSE <<",">>) \o Written(nodes[i], 1)])
      bare ==
        CASE node.kind = "binary" ->
               Written(n[1], Strength(node)) \o <<node.text>> \o Written(n[2], Strength(node) + 1)
          [] node.kind = "unary"  -> <<node.text>> \o Written(n[1], 6)
          [] node.kind = "member" -> Written(n[1], 7) \o <<".", node.text>>
          [] node.kind = "optionalMember" -> Written(n[1], 7) \o <<"?.", node.text>>
          [] node.kind = "index"  -> Written(n[1], 7) \o <<"[">> \o Written(n[2], 1) \o <<"]">>
          [] node.kind = "filter" -> Written(n[1], 7) \o <<"?[">> \o Written(n[2], 1) \o <<"]">>
          [] node.kind = "method" -> Written(n[1], 7) \o <<".", node.text, "(">> \o list(Tail(n)) \o <<")">>
          [] node.kind = "call"   -> <<node.text, "(">> \o list(n) \o <<")">>
          [] node.kind = "array"  -> <<"[">> \o list(n) \o <<"]">>
          [] node.kind = "object" -> <<"{">> \o list(n) \o <<"}">>
          [] node.kind = "entry"  -> <<Quote(node.text), ":">> \o Written(n[1], 1)
          [] OTHER -> <<node.text>>
  IN  IF Strength(node) < strength THEN <<"(">> \o bare \o <<")">> ELSE bare

Joined(texts, gap(_, _)) ==
  Concat([i \in DOMAIN texts |-> IF i = 1 THEN texts[1] ELSE gap(texts[i - 1], texts[i]) \o texts[i]])

Spaced(texts) == Joined(texts, LAMBDA left, right : " ")

\* With a space only between words, and between an integer and a dot.
Tight(texts) ==
  LET inWord == Letters \cup Digits \cup {"_"}
      gap(left, right) ==
        IF \/ Char(left, Len(left)) \in inWord /\ Char(right, 1) \in inWord
           \/ CharsOf(left) \subseteq Digits /\ right = "."
        THEN " " ELSE ""
  IN  Joined(texts, gap)

\* The texts of the tokens of an expression without its parentheses, keys and
\* strings in double quotes.
Content(texts) ==
  LET ts   == lexExpression(Spaced(texts))[1]
      text(i) == IF ts[i].kind = "string" THEN Quote(Unquote(ts[i].text)[1])
                 ELSE IF ts[i].kind = "ident" /\ ts[i + 1].kind = ":" THEN Quote(ts[i].text)
                 ELSE ts[i].text
  IN  SelectSeq([i \in DOMAIN ts |-> text(i)], LAMBDA t : t \notin {"(", ")"})

(***************************************************************************)
(* CompileExpression on one text after the other.                          *)
(***************************************************************************)
VARIABLES
  words,     \* the text
  tree,      \* history: what it was written from, or NoNode
  parsed     \* what the parser makes of it

syntaxVars == <<words, tree, parsed>>

\* The empty text is just the token EOF, which is not an expression.
NoText == words = <<>> /\ tree = NoNode /\ parsed = Failure(1)

CompileExpression(texts, from) ==
  /\ words' = texts
  /\ tree' = from
  /\ parsed' = parse(Spaced(texts))

\* Words that can go on go on: the parser looked at the end, or is content.
TypeWord ==
  /\ tree = NoNode /\ Len(words) < MaxWords
  /\ \/ parsed.node # NoNode
     \/ parsed.pos # 0 /\ parsed.pos = Len(lexExpression(Spaced(words))[1])
  /\ \E vocabulary \in Vocabularies :
       /\ ToSet(words) \subseteq vocabulary
       /\ \E word \in vocabulary : CompileExpression(Append(words, word), NoNode)

WriteTree ==
  /\ words = <<>>
  /\ \E node \in Trees : CompileExpression(Written(node, 1), node)

Clear ==
  /\ words # <<>>
  /\ CompileExpression(<<>>, NoNode)

Compile == TypeWord \/ WriteTree \/ Clear

(***************************************************************************)
(* Whatever is typed, the parser does not look behind the end of the       *)
(* tokens, which would be a panic: peek and next do not check.             *)
(***************************************************************************)
NeverReadsPastEnd ==
  parsed.node = NoNode /\ parsed.pos # 0 =>
    parsed.pos <= Len(lexExpression(Spaced(words))[1])

(***************************************************************************)
(* Every tree that can be written is read back.                            *)
(***************************************************************************)
WrittenIsParsed == tree # NoNode => parsed.node = tree

(***************************************************************************)
(* A text that is parsed says what its tree says: the same words in the    *)
(* same order, with parentheses where precedence asks for them.  Nothing   *)
(* is skipped, and nothing but parentheses written twice in one text.      *)
(***************************************************************************)
NothingIsLost ==
  parsed.node # NoNode =>
    LET written == Written(parsed.node, 1)
    IN  Content(words) = Content(written) /\ parse(Spaced(written)).node = parsed.node

(***************************************************************************)
(* Spaces are free: an expression means the same without those that do not *)
(* keep apart two words, or an integer and a dot.                          *)
(***************************************************************************)
SpacesAreFree == parsed.node # NoNode => parse(Tight(words)) = parsed

=============================================================================
