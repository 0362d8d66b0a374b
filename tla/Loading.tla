------------------------------- MODULE Loading -------------------------------
(***************************************************************************)
(* A call that loads: it reads its source line by line or argument by      *)
(* argument, builds a tree of its own, filters it, and only then takes the *)
(* lock and stores it; other goroutines write to the container meanwhile.  *)
(*                                                                         *)
(* Loading with ErrorOnConflict takes the lock several times; it is part   *)
(* of module Variables.                                                    *)
(***************************************************************************)
EXTENDS LoadText, ValueTree

CONSTANTS
  Roots,     \* the Values other calls put at the root
  Loads      \* the calls: [at: {"asked"}, source: what is read, options: the load options]

(***************************************************************************)
(* Sources: arguments, the lines of a properties file, a Value decoded     *)
(* from JSON, YAML or a struct, the map mxj makes of XML, and one that     *)
(* fails.  The field written is history: the path and the raw value that   *)
(* the source was written from, if it was.                                 *)
(***************************************************************************)
Args(args)        == [kind |-> "args", texts |-> args, written |-> <<>>]
Properties(lines) == [kind |-> "properties", texts |-> lines, written |-> <<>>]
Decoded(value)    == [kind |-> "value", value |-> value, written |-> <<>>]
XML(value)        == [kind |-> "xml", value |-> value, written |-> <<>>]
Unreadable        == [kind |-> "unreadable", written |-> <<>>]

\* A backslash protects what separates a key from its value, and what would
\* make a comment of a line: String leaves # as it is.
Escaped(s) ==
  LET escaped(c) == IF c \in {"\\", "=", ":", "#", "!"} \cup Blanks THEN "\\" \o c ELSE c IN Each(s, escaped)

WrittenArgs(path, raw) ==
  [Args(<<String(path) \o "=" \o raw>>) EXCEPT !.written = <<path, raw>>]

WrittenProperties(path, raw) ==
  [Properties(<<Escaped(String(path)) \o "=" \o Escaped(raw)>>) EXCEPT !.written = <<path, raw>>]

VARIABLES
  root,      \* v.root
  load       \* what the call is doing

vars == <<root, load>>

Idle == [at |-> "idle"]

Init ==
  /\ root \in Roots
  /\ load = Idle

\* Bound: calls begin at one of Roots, so that the tree does not grow from call to call.
Ask ==
  /\ load = Idle /\ root \in Roots
  /\ load' \in Loads
  /\ UNCHANGED root

\* The error the call ends with.
Done(err) == load' = [at |-> "done", source |-> load.source, options |-> load.options, err |-> err]

\* The rest of the source, what has been read of a logical line, the tree.
Reading(rest, logical, tree) ==
  load' = [at |-> load.source.kind, source |-> load.source, options |-> load.options,
           rest |-> rest, logical |-> logical, tree |-> tree]

Prepare(value) ==
  load' = [at |-> "loadValue", source |-> load.source, options |-> load.options, value |-> value]

(***************************************************************************)
(* setAtAny: setAt once more, on maps and slices that are not yet Values.  *)
(***************************************************************************)
newAnyContainer(seg) == emptyContainer(seg)

\* A mistake: the nulls that fill an array are not replaced by containers.
ChildOrNull(node, seg, next) ==
  IF seg \in DOMAIN Fields(node) THEN Fields(node)[seg] ELSE newAnyContainer(next)

Child(node, seg, next) ==
  IF seg \in DOMAIN Fields(node) /\ Fields(node)[seg] # NullValue THEN Fields(node)[seg]
  ELSE newAnyContainer(next)

RECURSIVE setAtAnyNode(_, _, _)
setAtAnyNode(node, path, value) ==
  LET seg  == Head(path)
      base == Extended(node, seg)
      deep == setAtAnyNode(Child(base, seg, path[2]), Tail(path), value)
  IN  IF node.kind # newAnyContainer(seg).kind THEN Outcome("typeConflict", node)
      ELSE IF seg.kind = "index" /\ seg.index < 0 THEN Outcome("indexOutOfRange", node)
      ELSE IF Len(path) = 1 THEN Outcome("ok", Put(base, seg, value))
      ELSE IF deep.err # "ok" THEN Outcome(deep.err, node)
      ELSE Outcome("ok", Put(base, seg, deep.node))

setAtAny(node, path, value) ==
  IF path = <<>> THEN Outcome("invalidPath", node) ELSE setAtAnyNode(node, path, value)

EmptyMap == ObjectValue([k \in {} |-> NullValue])

ScalarValue(label) == IF label = Null THEN NullValue ELSE Scalar(label)

\* The body of both loops: what raw at a parsed path makes of the tree.
SetEntry(path, raw) ==
  IF path = InvalidPath THEN Outcome("invalidPath", load.tree)
  ELSE setAtAny(load.tree, path[1], ScalarValue(scalarOf(raw, load.options.infer)))

\* The next turn of the loop, if the entry could be set.
Continue(outcome) ==
  IF outcome.err # "ok" THEN Done(outcome.err) ELSE Reading(Tail(load.rest), "", outcome.node)

\* An entry is at most one key with its value.
TakeEntry(entry) ==
  IF entry = <<>> THEN Done("noEntry") ELSE Continue(SetEntry(ParsePath(entry[1].key), entry[1].raw))

(***************************************************************************)
(* LoadArgs.                                                               *)
(***************************************************************************)
\* A mistake: there is no map to begin with.
LoadArgsIntoNull ==
  /\ load.at = "asked" /\ load.source.kind = "args"
  /\ Reading(load.source.texts, "", NullValue)
  /\ UNCHANGED root

LoadArgs ==
  /\ load.at = "asked" /\ load.source.kind = "args"
  /\ Reading(load.source.texts, "", EmptyMap)
  /\ UNCHANGED root

NextArg ==
  /\ load.at = "args" /\ load.rest # <<>>
  /\ TakeEntry(cutArg(Head(load.rest)))
  /\ UNCHANGED root

ArgsRead ==
  /\ load.at = "args" /\ load.rest = <<>>
  /\ Prepare(load.tree)
  /\ UNCHANGED root

(***************************************************************************)
(* Load of a properties file: decodeProperties.                            *)
(***************************************************************************)
LoadProperties ==
  /\ load.at = "asked" /\ load.source.kind = "properties"
  /\ Reading(load.source.texts, "", EmptyMap)
  /\ UNCHANGED root

\* A mistake: a comment does not end the logical line.
ScanLineKeepingComment ==
  /\ load.at = "properties" /\ load.rest # <<>>
  /\ LET next  == Head(load.rest)
         line  == IF load.logical # "" THEN TrimLeft(next, Blanks) ELSE next
         entry == TrimLeft(load.logical \o line, Blanks)
     IN  IF continues(line) THEN Reading(Tail(load.rest), load.logical \o WithoutLast(line), load.tree)
         ELSE IF isComment(entry) THEN Reading(Tail(load.rest), load.logical, load.tree)
         ELSE TakeEntry(readProperty(entry))
  /\ UNCHANGED root

ScanLine ==
  /\ load.at = "properties" /\ load.rest # <<>>
  /\ LET next  == Head(load.rest)
         line  == IF load.logical # "" THEN TrimLeft(next, Blanks) ELSE next
         entry == TrimLeft(load.logical \o line, Blanks)
     IN  IF continues(line) THEN Reading(Tail(load.rest), load.logical \o WithoutLast(line), load.tree)
         ELSE IF isComment(entry) THEN Reading(Tail(load.rest), "", load.tree)
         ELSE TakeEntry(readProperty(entry))
  /\ UNCHANGED root

PropertiesRead ==
  /\ load.at = "properties" /\ load.rest = <<>>
  /\ IF load.logical # "" THEN Done("danglingContinuation") ELSE Prepare(load.tree)
  /\ UNCHANGED root

(***************************************************************************)
(* Load of JSON, YAML or XML, LoadFile and LoadStruct.                     *)
(***************************************************************************)
RECURSIVE normalizeXML(_)
normalizeXML(src) ==
  IF src.kind = Object
  THEN ObjectValue([k \in {xmlKey(j) : j \in DOMAIN src.obj} |->
         normalizeXML(src.obj[CHOOSE j \in DOMAIN src.obj : xmlKey(j) = k])])
  ELSE IF src.kind = Array THEN ArrayValue([i \in DOMAIN src.arr |-> normalizeXML(src.arr[i])])
  ELSE src

LoadDecoded ==
  /\ load.at = "asked" /\ load.source.kind \in {"value", "xml"}
  /\ Prepare(IF load.source.kind = "xml" THEN normalizeXML(load.source.value) ELSE load.source.value)
  /\ UNCHANGED root

\* The format is not known, the file cannot be opened, the data not be read or
\* not be decoded.
LoadFails ==
  /\ load.at = "asked" /\ load.source.kind = "unreadable"
  /\ Done("unreadable")
  /\ UNCHANGED root

(***************************************************************************)
(* loadValue.  A filter is the set of paths it refuses: of the tree it is  *)
(* shown, the path determines the value it is asked about.                 *)
(***************************************************************************)
RECURSIVE encodable(_)
encodable(value) ==
  /\ value # Scalar(NotFinite)
  /\ \A s \in DOMAIN Fields(value) : encodable(Fields(value)[s])

\* A mistake: the filter is asked about the place an element moves to.
RECURSIVE filterValueMoved(_, _, _)
filterValueMoved(path, value, refused) ==
  LET kept(seg) == filterValueMoved(Append(path, seg), Fields(value)[seg], refused)
      RECURSIVE Elements(_, _)
      Elements(i, out) ==
        IF i > Len(value.arr) THEN out
        ELSE Elements(i + 1, out \o filterValueMoved(Append(path, Index(Len(out))), value.arr[i], refused))
  IN  IF path \in refused THEN <<>>
      ELSE IF value.kind = Object
      THEN <<ObjectValue([k \in {j \in DOMAIN value.obj : kept(Key(j)) # <<>>} |-> kept(Key(k))[1]])>>
      ELSE IF value.kind = Array THEN <<ArrayValue(Elements(1, <<>>))>>
      ELSE <<value>>

\* At most one Value.
RECURSIVE filterValue(_, _, _)
filterValue(path, value, refused) ==
  LET kept(seg) == filterValue(Append(path, seg), Fields(value)[seg], refused)
  IN  IF path \in refused THEN <<>>
      ELSE IF value.kind = Object
      THEN <<ObjectValue([k \in {j \in DOMAIN value.obj : kept(Key(j)) # <<>>} |-> kept(Key(k))[1]])>>
      ELSE IF value.kind = Array
      THEN <<ArrayValue(FlattenSeq([i \in DOMAIN value.arr |-> kept(Index(i - 1))]))>>
      ELSE <<value>>

LoadValue ==
  /\ load.at = "loadValue"
  /\ LET filtered == filterValue(load.options.prefix, load.value, load.options.refused)
     IN  IF ~encodable(load.value) THEN Done("notFinite")
         ELSE IF filtered = <<>> THEN Done("ok")
         ELSE load' = [load EXCEPT !.at = "store", !.value = filtered[1]]
  /\ UNCHANGED root

\* SetValue or mergeValue: the only critical section.
StoreValue ==
  /\ load.at = "store"
  /\ LET outcome == IF load.options.mode = "DeepMerge"
                    THEN mergeAt(root, load.options.prefix, load.value)
                    ELSE SetInto(root, load.options.prefix, load.value)
     IN  Done(outcome.err) /\ root' = outcome.node

Return ==
  /\ load.at = "done"
  /\ load' = Idle
  /\ UNCHANGED root

\* Another goroutine's call.
Write ==
  /\ \E value \in Roots \ {root} : root' = value
  /\ UNCHANGED load

Next ==
  \/ Ask
  \/ LoadArgs \/ NextArg \/ ArgsRead
  \/ LoadProperties \/ ScanLine \/ PropertiesRead
  \/ LoadDecoded \/ LoadFails
  \/ LoadValue \/ StoreValue
  \/ Return
  \/ Write

Spec == Init /\ [][Next]_vars

-----------------------------------------------------------------------------
(***************************************************************************)
(* Type invariant.                                                         *)
(***************************************************************************)
TypeOK ==
  /\ root.kind \in {Null, Object, Array, "scalar"}
  /\ load.at \in {"idle", "asked", "args", "properties", "loadValue", "store", "done"}
  /\ load # Idle => {"source", "options"} \subseteq DOMAIN load
  /\ load.at \in {"args", "properties"} => load.tree.kind = Object /\ IsSuffix(load.rest, load.source.texts)
  /\ load.at = "args" => load.logical = ""

(***************************************************************************)
(* Although it reads its source step by step and takes the lock only at    *)
(* the end, a call that loads is one step to those who look at the         *)
(* container: it stores all of what its source describes or nothing, and   *)
(* an error in the last line leaves nothing of the first.                  *)
(***************************************************************************)
RootTrees == {PathsOf(value) : value \in Roots}

Atomic == INSTANCE AtomicLoad WITH
  Trees <- RootTrees,
  tree  <- PathsOf(root),
  load  <- IF load.at \in {"args", "properties", "loadValue", "store"}
           THEN [at |-> "asked", source |-> load.source, options |-> load.options]
           ELSE load

ImplementsAtomicLoad == Atomic!Spec

(***************************************************************************)
(* A path that is written as an argument or as a line of a properties file *)
(* is what is read, whatever its keys contain: String and ParsePath are    *)
(* inverses, and a backslash protects what separates keys from values or   *)
(* marks a comment.  But no argument can name a key with an equals sign.   *)
(***************************************************************************)
SyntaxErrors == {"invalidPath", "noEntry", "danglingContinuation"}

WrittenIsRead ==
  load # Idle /\ load.source.written # <<>> =>
    LET path == load.source.written[1]
        raw  == load.source.written[2]
    IN  load.source.kind = "properties" \/ "=" \notin CharsOf(String(path))
        => /\ load.at = "done" => load.err \notin SyntaxErrors
           /\ load.at = "loadValue" =>
                load.value = setAt(EmptyMap, path, ScalarValue(scalarOf(raw, load.options.infer))).node

=============================================================================
