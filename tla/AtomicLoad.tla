------------------------------ MODULE AtomicLoad ------------------------------
(***************************************************************************)
(* What loading promises: that it is one step.  The call either leaves the *)
(* container alone and reports why, or stores, under its prefix, the tree  *)
(* that its source describes and its filter keeps.                         *)
(*                                                                         *)
(* A source is described as a whole here, on the tree seen through its     *)
(* paths: a properties file by where its logical lines end, its entries by *)
(* the Sets they stand for, a filter by the nodes that have no refused     *)
(* node above them.                                                        *)
(***************************************************************************)
EXTENDS LoadText, ValueTree

CONSTANT
  Trees      \* the trees other calls put at the root

VARIABLES
  tree,      \* the root
  load       \* what the call is doing

vars == <<tree, load>>

Idle == [at |-> "idle"]

(***************************************************************************)
(* Sources.  A tree, or an error.                                          *)
(***************************************************************************)
Reads(err, t) == [err |-> err, tree |-> t]

\* A logical line is what stands between two lines that do not continue, with
\* the indentation of all lines taken off.
LogicalLines(lines) ==
  LET ends   == SetToSortSeq({i \in DOMAIN lines : ~continues(lines[i])}, <)
      text(i) == TrimLeft(IF continues(lines[i]) THEN WithoutLast(lines[i]) ELSE lines[i], Blanks)
      first(n) == IF n = 1 THEN 1 ELSE ends[n - 1] + 1
  IN  [n \in DOMAIN ends |-> Concat([k \in 1..(ends[n] - first(n) + 1) |-> text(first(n) + k - 1)])]

\* Lines that continue into the end of the file are an error, unless they are
\* all just a backslash.
Dangling(lines) ==
  \E i \in DOMAIN lines :
    /\ lines[i] # "\\"
    /\ \A j \in i..Len(lines) : continues(lines[j])

\* A key-value pair stands for a Set on a new object.
Assigned(reads, entry, infer) ==
  LET path == ParsePath(entry[1].key)
  IN  IF reads.err # "ok" THEN reads
      ELSE IF entry = <<>> THEN Reads("noEntry", reads.tree)
      ELSE IF path \in {InvalidPath, << <<>> >>} THEN Reads("invalidPath", reads.tree)
      ELSE IF ~SetSucceeds(reads.tree, path[1]) THEN Reads(SetError(reads.tree, path[1]), reads.tree)
      ELSE Reads("ok", SetAt(reads.tree, path[1], Leaf(scalarOf(entry[1].raw, infer))))

Entries(source) ==
  IF source.kind = "args" THEN [i \in DOMAIN source.texts |-> cutArg(source.texts[i])]
  ELSE LET lines == SelectSeq(LogicalLines(source.texts), LAMBDA line : ~isComment(line))
       IN  [i \in DOMAIN lines |-> readProperty(lines[i])]

\* The tree with these nodes: pairs of a path and a label.
TreeOf(nodes) == [q \in {n[1] : n \in nodes} |-> (CHOOSE n \in nodes : n[1] = q)[2]]

\* The attributes of an XML tree by their new names.
Renamed(t) ==
  LET name(s) == IF s.kind = "key" THEN Key(xmlKey(s.key)) ELSE s
  IN  TreeOf({<<[n \in DOMAIN q |-> name(q[n])], t[q]>> : q \in DOMAIN t})

Read(source, infer) ==
  LET assigned == FoldLeft(LAMBDA reads, entry : Assigned(reads, entry, infer),
                           Reads("ok", EmptyObject), Entries(source))
  IN  IF source.kind = "unreadable" THEN Reads("unreadable", EmptyObject)
      ELSE IF source.kind = "value" THEN Reads("ok", PathsOf(source.value))
      ELSE IF source.kind = "xml" THEN Reads("ok", Renamed(PathsOf(source.value)))
      ELSE IF source.kind = "properties" /\ assigned.err = "ok" /\ Dangling(source.texts)
      THEN Reads("danglingContinuation", EmptyObject)
      ELSE assigned

(***************************************************************************)
(* The filter keeps a node iff it refuses neither it nor a node above it,  *)
(* each at its path in the source.  Elements then close ranks, so that     *)
(* there may be other elements at those paths.                             *)
(***************************************************************************)
Kept(t, options) ==
  {q \in DOMAIN t : \A n \in 0..Len(q) : options.prefix \o Prefix(q, n) \notin options.refused}

Filtered(t, options) ==
  LET kept     == Kept(t, options)
      before(q, n) == {j \in 0..(q[n].index - 1) : Append(Prefix(q, n - 1), Index(j)) \in kept}
      moved(q) == [n \in DOMAIN q |->
                     IF q[n].kind = "index" THEN Index(Cardinality(before(q, n))) ELSE q[n]]
  IN  TreeOf({<<moved(q), t[q]>> : q \in kept})

(***************************************************************************)
(* The call.                                                               *)
(***************************************************************************)
Init ==
  /\ tree \in Trees
  /\ load = Idle

\* Any source, with any options.
Ask ==
  /\ load = Idle
  /\ load'.at = "asked"
  /\ UNCHANGED tree

Answer(err, t) ==
  /\ load' = [at |-> "done", source |-> load.source, options |-> load.options, err |-> err]
  /\ tree' = t

Load ==
  /\ load.at = "asked"
  /\ LET options  == load.options
         reads    == Read(load.source, options.infer)
         filtered == Filtered(reads.tree, options)
     IN  IF reads.err # "ok" THEN Answer(reads.err, tree)
         ELSE IF \E q \in DOMAIN reads.tree : reads.tree[q] = NotFinite THEN Answer("notFinite", tree)
         ELSE IF options.prefix \in options.refused THEN Answer("ok", tree)
         ELSE Answer(SetError(tree, options.prefix),
                     IF options.mode = "DeepMerge" THEN MergeAt(tree, options.prefix, filtered)
                     ELSE SetAt(tree, options.prefix, filtered))

Return == load.at = "done" /\ load' = Idle /\ UNCHANGED tree

Write == tree' \in Trees /\ UNCHANGED load

Next == Ask \/ Load \/ Return \/ Write

Spec == Init /\ [][Next]_vars

=============================================================================
