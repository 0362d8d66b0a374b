# A formal model of go-variables

go-variables is a Go library around one type, `Variables`: a tree of typed
configuration values behind a read-write lock.  Configuration is loaded into it
from several formats, read and changed through paths, queried with expressions,
and interpolated (strings that hold `${{ expression }}` or `{{ template }}` are
replaced by what they evaluate to).  This directory holds TLA+ modules that
model it, TLC configurations that check them on small instances, and theorems
with proofs checked by TLAPS.

## 1. The system

| component | source | state | operations |
|---|---|---|---|
| tree operations | `variables.go`, `tree.go`, `path.go` | `root Value` | `SetValue`, `AppendValue`, `Delete`, `GetValue`, `Exists`, `Len`, `Keys`, `Children`, `Items`, `SnapshotValue`, `Clone`, over `setAt`, `getAt`, `deleteAt` |
| value model | `value.go`, `number.go`, `values.go` | none (values are immutable by convention, kept by `Clone`) | constructors, `Clone`, `EncodeValue`, `DecodeValue`, `JSONValue`, big-number arithmetic |
| locking | every method of `Variables` | `mu sync.RWMutex` | `Lock`/`RLock` around tree operations; `EvalValue` and `Select` unlock before they copy |
| interpolation | `template.go` | a snapshot, the rounds' trees, `depth` (all local) | `Interpolate`, `Render` |
| loading | `parser_file.go` | `loadOptions` (local) | `Load*`, merge modes `Replace`, `DeepMerge`, `ErrorOnConflict`, filter, prefix |
| arguments and structs | `parser_args.go`, `parser_struct.go` | none | `LoadArgs`, `LoadStruct` |
| properties parser | `parser_properties.go` | the logical line being assembled | `decodeProperties`, `setAtAny` |
| XML / JSON / YAML decoding | `parser_xml.go`, `parser_file.go` | none | decoding by libraries |
| options and functions | `options.go`, `expression_funcs.go` | `funcs`, `functionSpecs`, `templateFuncs` | `With*Function*`, `clone`, built-ins |
| path syntax | `path.go` | none | `ParsePath`, `Path.String` |
| expressions | `expression.go`, `expression_eval.go` | parsed tree, `evalContext` | parse, evaluate, select |
| static checker | `expression_check.go` | inferred types | `CompileExpression` |

How they interact.  Everything that changes the tree ends in `setAt`,
`deleteAt` or an assignment to `v.root` under the write lock.  Loading decodes
outside the lock and then calls `SetValue` or `mergeValue`; `ErrorOnConflict`
calls `Get` or `SnapshotValue` first, which are critical sections of their own.
`Interpolate` calls `SnapshotValue`, evaluates without the lock and calls
`SetValue(Root(), ...)`.  Expressions run under the read lock and call custom
functions there; those may call the container back, or panic.  `EvalString` is
two calls: `CompileExpression`, which checks the expression against a copy of
the tree, and `Eval`, which takes the lock again.

The hard behaviours.

* *Interleaving*: several goroutines between the critical sections of one call
  (conflict checks, interpolation, `EvalString`), and inside one where the lock
  is released too early (`EvalValue`, `Select`).
* *Partial failure*: `setAt` and `deleteAt` change nodes in place before they
  know that they will succeed.
* *Termination*: interpolation of references that form cycles.
* *Blocking*: custom functions under a read lock that is released without `defer`.
* *Text*: paths, sources, expressions and placeholders are taken apart by hand
  written scanners, which have to agree on what is quoted and where things end.
* *Boundaries*: indexes past the end, negative, zero; nulls that turn into
  containers; the depth limit.

PROJECT.json lists each hazard at its line with the properties that cover it,
or with what is missing for one.

What makes each component correct:

* tree operations: a call changes what its path says and nothing else, fails
  without effect, and leaves a tree a `Value` can be;
* locking: every call takes effect at one instant, every call ends, nobody waits
  for ever;
* interpolation: it ends, it replaces templates and nothing else, what it leaves
  is fully resolved, and it reports a cycle if and only if it has to;
* loading: a merge delivers what it loads and keeps what it should; a conflict
  check is not outdated when the data is written; a load is done as a whole or
  not at all, and stores what its source says and its filter keeps;
* path syntax, parsers, placeholders: what is written is what is read, for every
  path and every syntax tree, whatever the strings in them contain; nothing is
  skipped, and nothing is read behind the end;
* value model and options: what one owner holds is not changed by another;
* expressions: a selection is nodes of the tree, at their paths; what an
  expression evaluates to is what the checker took it to be;
* checker: it rejects what cannot be evaluated and nothing else.

## 2. The modules

| module | models | in terms of |
|---|---|---|
| `PathTree` | the tree and the operations on it, as functions on trees seen through their paths | |
| `Interpolation` | one round of template evaluation on such trees | `PathTree` |
| `Variables` | the container: its calls as critical sections of several goroutines | `Interpolation` |
| `ValueTree` | the tree as it is stored, and the recursions of the source over it | `Interpolation`, for its vocabulary |
| `StoredVariables` | the container with its tree as it is stored, one goroutine; implements `Variables` | `ValueTree` |
| `LockedRead` | what happens inside the critical sections: the lock, in-place writers, copying readers, custom functions | |
| `AtomicContainer` | what the lock promises: every read and write at one instant; implemented by `LockedRead` | |
| `ExprValue` | the values of expressions: equality, order, truth, arithmetic, index look-up | |
| `Evaluator` | what an expression gives on a tree: nodes, operators, built-in and Go functions | `ExprValue` |
| `Checker` | what compilation infers and rejects | `Evaluator`, for syntax trees and arities |
| `Expressions` | goroutines that compile and evaluate while others write | `Checker` |
| `Text` | strings as the scanners see them: searches, trimming, escapes, quotes | |
| `PathSyntax` | `ParsePath` and `Path.String` | `Text`, `PathTree` for segments |
| `LoadText` | how arguments and lines of properties files are taken apart, and scalar inference | `PathSyntax` |
| `Loading` | a call that loads, step by step, while others write | `LoadText`, `ValueTree` |
| `AtomicLoad` | what loading promises: one step, or an error without effect; implemented by `Loading` | `LoadText`, `PathTree` |
| `ExpressionSyntax` | the lexer and the parser of expressions, and a reference that writes syntax trees | `Text` |
| `Placeholders` | how strings with placeholders are taken apart | `ExpressionSyntax` |
| `Texts` | the three together: a goroutine that loads, compiles and takes strings apart | `Loading`, `Placeholders` |
| `PathTree_proofs`, `Interpolation_proofs` | lemmas: what the operations make of well formed trees is well formed | |
| `LockedRead_proofs` | theorems about the lock and the readers | `LockedRead` |
| `Variables_proofs` | theorems: types, write-backs, conflict checks | `Variables`, and the lemmas above |
| `Frame_proofs` | theorems: what each call changes and what it leaves alone | `Variables_proofs` |
| `Interpolate_proofs` | theorems: what `Interpolate` replaces, and by what, how many rounds it takes, and how large trees get | `Frame_proofs` |
| `ValueTree_proofs` | theorems: the recursions over stored trees compute what `PathTree` says | `ValueTree`, and the lemmas above |
| `StoredVariables_proofs` | theorems: the container with stored trees implements `Variables` | `StoredVariables`, `ValueTree_proofs` |
| `MCVariables`, `MCStoredVariables`, `MCInterpolate`, `MCLockedRead`, `MCExpressions`, `MCTexts` | small instances | |

### PathTree, ValueTree: two views of the tree

`value.go` has a recursive `Value` struct.  `ValueTree` keeps that: a record per
kind, a function for the map and a sequence for the slice.  Each recursive function
of the source is a recursive function on the places it comes to: the numbers of
steps along a path for `getAt`, `setAt` (whose `node` is what goes down and whose
`outcome` is what comes back up) and the writes through an alias; the paths of a
Value for `mergeNodes` and `evaluateNode`.  In-place changes are kept apart from
changes to copies: `Extended` is applied to the node `setAt` was given a pointer to,
`Descend` to a copy of its child; `Alias` is what `deleteAt` does to the map or slice
it shares with the root.  `IsValue` says what Go can hold: a finite tree with one
of the kinds in each place.

`PathTree` has the same tree as a function from paths to labels, and the same
operations without recursion: a path in the domain is a node.  `Opened` is the
tree `setAt` has prepared when it reaches the last segment, `PaddedRoot` what a
failing `setAt` leaves behind, `Cut` what `deleteAt` does to the parent.  `PathsOf`
takes the one view to the other.  Theorems about what the calls do are about
`PathTree`; that the stored tree does the same is a theorem of its own
(section 5), and what the run `stored` checks.

Scalars are model values of three sorts: plain ones and templates; numbers,
strings and bools are not told apart, as no tree operation does.

### Variables

One action per critical section.  `task[g]` is the local state of the call a
goroutine is in: `idle`; `checkRoot` and `load` between the sections of an
`ErrorOnConflict` load; `round` and `publish` in `Interpolate`.  `result[g]` is
the error its last call returned.  `overlapped` is a history variable: the
goroutines whose look at the tree (`Look`) is out of date, because another one
has changed the root since.  Loading with `Replace` is `SetValue`, with
`DeepMerge` is `MergeValue`; `Set`, `Append` and the other wrappers encode their
argument and call one of the actions.

A template is a scalar with a reference `Ref`; a round replaces it by what its
path has in the environment, or fails.  `maxDepth`, `recursive`, the comparison
of two rounds and the depth count are as in the code.

### LockedRead

`sync.RWMutex` is modelled by its documented behaviour (external to the
repository): a writer takes the mutex, which stops new readers, then waits for
those inside; its `Unlock` lets in the readers it stopped.  The tree is a
function from entries to contents that a writer changes in place, one entry per
call, and a reader copies one entry at a time, in any order (Go iterates maps in
any order).  `GetValue` stands for all calls that copy before `RUnlock`;
`EvalValue` for those two that copy after it.  A custom function may do nothing,
call back (an `RLock` while a read lock is held) or panic; a goroutine that has
panicked and recovered makes no further call.  `crashed` is the runtime's fatal
error when a map is iterated while it is written; the model leaves it open
whether the runtime notices.

### ExprValue, Evaluator, Checker, Expressions

A syntax tree is a record whose `op` names the node type (the parser is a matter
of `ExpressionSyntax`).  `Eval` follows `eval` node by node with the same `evalResult`: a
value, or matches with their paths and the mark that says whether one match is
still a list.  `inferExpr` follows the function of that name; the parts of a
`StaticType` that may be nil are sequences of at most one element.  Left out:
which error it is, the text of errors and positions, `Selected` (nothing reads
it), the 256-bit rounding of floats (they are exact fractions), integers beyond
`int64`, strings outside `Words` in comparisons, text as anything but a value to
compare (floats are written as fractions), and the order of the map in
`checkValues`.  A Go function is its parameter and result types and what it
returns, one registered with `WithFunction` takes and may return anything.  A
container never has a function with the name of a built-in one
(`mustAllowCustomFunction` panics), which `GoFunctionsAssumption` says.

`Expressions` has a tree that is replaced by `Write`, and calls that compile
(`CompileExpression`, on a copy of the tree, or without one) and evaluate
(`EvalValue`, `Select`) in two actions, since `EvalString` takes the lock twice;
a compiled expression can be evaluated again, on the same or on a later tree.  A call
remembers the type it was given (`checked`) and its last answer (`answer`) until
the next write, for the properties.  `EvalString` is not atomic: `xs[a > 1].b`
compiles while `xs` is empty, for then there is no element without a `b`, and
answers on `xs = [{a: 1}, {a: 2, b: 3}]`, for which it does not compile.  So no abstract
specification of it is stated; what is stated is that the answer is of the tree
that it is evaluated on (`SelectedAreNodes`).

### Text, PathSyntax, LoadText, Loading, AtomicLoad

These modules are about texts, so texts are strings, and a scanner of the source
is an operator that looks at them from left to right.  `Text` has what the
scanners share: the loop that looks for a character that is not behind a
backslash (`FirstUnescaped`; the source has it four times), the loops that
resolve escapes, and Go's `strconv.Quote` and `Unquote` (external), without the
escapes for code points.  `PathSyntax` is `path.go`, with the two flags of
`ParsePath` as parameters; `LoadText` is `LoadArgs` and `parser_properties.go` as
far as they are about one argument or one line, and `inferScalar`.

`Loading` has one action per turn of the loop: `NextArg`, or `ScanLine`, which
carries the logical line (`load.logical`) and the tree that is being built
(`load.tree`) over to the next; then `LoadValue` (encoding and filter) and
`StoreValue`, the only critical section.  `Write` is any other goroutine.
`setAtAnyNode` is the second implementation of `setAt`.  A filter is the set of
paths it refuses.  `Decoded` stands for JSON, YAML and `LoadStruct`, after their
libraries; `XML` for the map that mxj makes of a document, which `normalizeXML`
then walks; `Unreadable` for everything that ends a load before there is a tree.
`ErrorOnConflict` is left to `Variables`.

`AtomicLoad` describes the same sources as a whole: logical lines by where they
end, entries by `SetAt` of `PathTree` (not by `setAtAny`), a filter by the nodes
without a refused node above, renumbered by how many are kept before them.

### ExpressionSyntax, Placeholders, Texts

`lexExpression` gives tokens as the source does, with the text they are cut from.
The methods of the parser are operators on the tokens and a position, which give
a node and the position behind it, or no node and the last position looked at:
`NeverReadsPastEnd` is about the latter.  A loop of the source (`parseBinary` of
`parseExpression`, `parsePostfix`) is a recursion with what it has so far.  The three
comma separated lists share `parseItems`.  A text is typed word by word
(`TypeWord`) as long as it may still become an expression, or is a syntax tree
written out (`WriteTree`).  `Written` is the reference: it says where a tree needs
parentheses.

`Placeholders` is `evaluateString` up to the point where expressions are compiled
and templates are given to `text/template`: it yields pieces.

Of the operators marked "a mistake", here and elsewhere, none is part of a
specification: each is a bug the definition next to it could have, kept to see
that a property notices it.

## 3. The runs

| run | question | instance |
|---|---|---|
| `operations` | does every call change what it says and nothing else? | one goroutine, six paths (root, keys, a gap in an array, negative index), four values (scalar, null, object, array of null); trees up to four nodes are appended to and interpolated, which gives trees of up to a dozen nodes |
| `stored` | do the recursions of the source compute what `PathTree` says? | four paths, three values, trees up to three nodes for appending and interpolation |
| `shared` | is what a goroutine saw between its critical sections still true? | two goroutines, three paths, three values, all calls |
| `interpolate` | does interpolation end, resolve and detect cycles? | every tree of four top-level keys that are plain or refer to one another or to a fifth key that is missing, an object or an array holding a reference, and every tree of four keys that are plain or refer to the root; `maxDepth` 1 and 2, recursive or not |
| `locked_reads` | does the lock make reads and writes atomic? | three goroutines, two entries |
| `functions` | does every call end, and can anything but a custom function make calls hang? | three goroutines, functions that panic and call back |
| `expressions` | are selections nodes of the tree, do types describe values, and are clear errors found at compilation? | 2,723 expressions, 970 of paths, operators and filters, the others with calls; compiled with the tree, without one, and with `WithStrictTypes`; eight trees, six Go functions |
| `texts` | is a load one step, and is what is written what is read? | 4,592 loads: every file of up to three of twelve lines, lists of arguments, 248 written paths, decoded trees under eight filters; all texts of up to six words from four vocabularies, 6,141 written syntax trees; all strings of up to five of nine snippets |
| `default_rejected` | (violation) is what compilation rejects without strict types what would fail? | one expression |
| `computed_paths` | (violation) does `Select` answer with nodes of the tree? | one expression |
| `load_race` | (violation) can two `ErrorOnConflict` loads of one prefix both succeed? | as `shared` |
| `eval_tears` | (violation) does `EvalValue` return a tree the container held? | two goroutines, two entries |

Why the bounds are enough.  `setAt` treats all levels below the root alike, so
paths of three segments have a root, an inner level and a leaf level; arrays of
up to three elements have a gap, an existing and a missing index.  Two
goroutines are enough for a stale look, which takes one that looks and one that
writes; three for the lock, which needs a writer, a reader inside and one that
waits.  In `interpolate`, chains reach five templates and `2^maxDepth` is 2 or 4,
so both sides of the limit occur, and so do cycles of one, two, three and five
templates; four references to the root make 5 nodes 21 and then 341, close to the
square.  `MaxNodes` bounds the trees that are appended to or interpolated, so
the state space is finite; every other call is always possible.

The trees of the expression runs have, at the same places, numbers, strings,
nulls, objects, missing fields, empty, ragged and mixed arrays, so that an
expression compiled on one fails in another way on the next; the expressions
combine every node type, operator and built-in function with operands of each
kind.  One caller is enough: evaluations do not change anything another caller
sees, and writers do what they like.

The expressions of the passing run are a fragment, whose bounds are where section 4
shows the checker and the evaluator to part.  Filters are evaluated and selected
from, but the types of filters are left out by the properties on types, and
a filter is not followed by a member; single nodes are indexed, not projections;
`sort`, `sortDesc`, `unique` and `compact` have projected lists, whose elements the
checker does not list one by one, and what `sortBy` gives is only asked for its
first element.

In `texts`, the words of the four vocabularies are the operators, the postfix
operations, the literals and brackets, and what is hard on the lexer; a text is
not continued once it cannot become an expression, which leaves those with one
word too many.  Six words are enough for two operators with an operand in
parentheses, or a list of two with its brackets; written trees go two levels
deep, with every pair of node types.  Lines continue, are continued, are comments,
are blank, or several of these; three in a row have one that is both.  Keys are
made of up to two of the thirteen characters that some scanner treats specially.
Calls begin with one of three roots, so that the tree does not grow from call to
call, and while an expression or a string is taken apart nothing else happens,
as neither looks at the container.

Deadlock is checked except where a run says `CHECK_DEADLOCK FALSE`: in
`LockedRead` with expressions, the program stops when it has crashed, and calls
hang when a function panicked or called back.

Properties, and what could go wrong:

* `WriteBackNeverFails`: `deleteAt` changes the parent in place before it calls
  `setAt`, whose error it returns; here that error never occurs.
* `ErrorsLeaveTheTree`: an error means no change, with the one exception of the
  root array, which `setAt` extends in place before it descends.
* `SetIsLocal`, `DeleteIsLocal`, `AppendKeepsElements`, `MergeDelivers`: frame
  conditions of the calls, exactly as wide as the code makes them.  Of the nodes
  above a set path only nulls may change, to the container that the path needs,
  and never the root; of the nodes beside it, nulls may be added in the arrays
  that the path goes through, before the element it goes to (`UnchangedOutside`).
  Deleting an element leaves a null.
* `ImplementsVariables`: the refinement of `Variables` by `StoredVariables`: containers
  created on the way, changes through aliases, errors half way down and the order of
  a merge give the trees and the errors that `PathTree` defines in one piece.
* `ConflictCheckHolds`: when an `ErrorOnConflict` load is about to write, the
  place is still free, unless another goroutine wrote since the look.
  `NeverOverwritesOnConflict` is the stronger claim of the tests, which is false.
* `InterpolateReplacesTemplatesOnly`: with no other writer in between,
  everything that is not a template survives an interpolation.
* `InterpolateResolves`, `CycleMeansLongChain`: rounds evaluate against the
  previous round, so each halves every chain of references;
  `ErrCycleDetected` is returned exactly when `2^maxDepth` templates follow one
  another.
* `RoundsAtMostSquare`: trees grow in an interpolation, but in each round to the
  square at most.
* `CallsReturn` (both modules): every call ends.  `CallsComeToAnEnd` is the part of
  it that does not hang on the scheduler: every step of a call leaves fewer to take.
* `LockOK`, `CopyIsCurrent`, `ImplementsAtomic`: exclusion, and atomicity of the
  readers that copy under the lock.
* `StuckOnlyByFunctions`: a state in which calls are under way and none can go on
  has a goroutine that panicked in, or called back from, a custom function.  It is
  stated with the guards written out (`CanGoOn`), so that it can be proved.
* `ImplementsAtomicLoad`: the whole load is one step of `AtomicLoad`: an error in
  the last line leaves nothing of the first, comments, blank lines and
  continuations end where they should, `setAtAny` does what `setAt` would, and the
  filter is asked about the paths it was given, whatever moves up.
* `WrittenIsRead`: a path written with `String` and escaped for its format is what
  the load sets.  The escapes are needed: `String` leaves a `#` bare, and a line that
  begins with one is a comment.  (An argument cannot name a key with an equals sign, as it is cut
  at the first one, quoted or not.)
* `NeverReadsPastEnd`: `peek` and `next` index the tokens without a check.
* `WrittenIsParsed`, `NothingIsLost`: the parser is the inverse of `Written` on
  trees, and on texts up to parentheses.
* `SpacesAreFree`: the parser gives the same with and without spaces.
* `ExpressionsAreFound`: the scan for the end of a placeholder and the lexer agree
  on what is quoted, for every expression, in several surroundings.
* `PiecesAreTheString`: no part of a string is dropped or taken twice.
* `PlainStringsStay`: what `containsEvaluation` overlooks is not evaluated either, so
  recursive interpolation does not stop early.
* `SelectedAreNodes`: each match is a node of the tree at its path, none twice;
  what optional access adds is null at a path the tree does not have.  The tree is
  the one evaluated on, whatever tree the expression was checked against.
* `TypesDescribe`: the value has the inferred kind, constant, elements and
  fields; null is allowed everywhere, as merging forgets that a value may be null.
* `ClearErrorsAreCaught`: if the types of all subexpressions are clear, down to
  the elements, and indexes and divisors are constants, an expression that
  compiles does not fail.
* `RejectedFails`: what the checker rejects without strict types would have failed
  on that tree.  It is what the README of the repository says ("Unknown dynamic
  values are still checked at runtime"), and false.

### Fairness

`Variables`: weak fairness of `Proceed(g)`, as a goroutine inside a call is
always runnable there and Go's scheduler is preemptive.  No fairness of new
calls.  `LockedRead`: weak fairness of every step of a call, and strong fairness
of `TakeMutex`, since a `sync.Mutex` hands over to the longest waiter after a
millisecond (its starvation mode), so a writer that finds the mutex free again
and again gets it.  Readers need none: a writer's `Unlock` admits those it
stopped.

## 4. What the violations show

* `load_race`: `loadValue` (`parser_file.go:140-149`) checks and writes in
  separate critical sections.  Two goroutines load the same prefix, both find it
  free, both succeed, and the data of the first is gone.
* `eval_tears`: `EvalValue` and `Select` (`expression_eval.go:319-372`) release
  the read lock before `Clone`.  The evaluation result aliases the maps and slices
  of the live tree, so the copy made afterwards can mix the state before and
  after a concurrent `Set`, or the runtime can abort the program.
* `computed_paths`: `filterCandidates` (`expression_eval.go:586-589`) invents the
  paths of elements of computed arrays, so `Select` accepts a filtered
  `sortByDesc` and answers with paths at which the tree has something else.

* `default_rejected`: `mergeStaticTypes` (`expression_check.go:609-624`) of unknown and
  integer is integer, so that `default(s, 1) + "a"` does not compile without a tree,
  whatever `s` is later.

The checker and the evaluator also part in these places.  No run is kept for
them; each is a counterexample TLC gives when `Programs` is the expression named.

* Against `RejectedFails`: `checkSort` (`expression_funcs.go:110`), like
  `checkArrayPassthrough`, hands on the element types of the unsorted list, with
  their constants, so `1 / sort([1, 0])[1]` is a "division by zero"; the type of a
  filter (`expression_check.go:303`) lists the elements it drops, so
  `xs[a > 1].b` needs a `b` in every element; `mergeStaticTypes` of two arrays keeps
  the elements of the left one, so `last(xs.a)[1]` is "out of range" if the first
  `a` is that short; the right operand of `&&` and `||` is checked even if it is
  never evaluated.
* Against `ClearErrorsAreCaught`: at runtime an index after a projection is an
  index of every match (`accessIndexMatches`), in the checker one of the
  projection, so `xs.a[0]` compiles and fails.

Smaller things seen on the way: `1.max(2)` does not compile, since `1.` is a number,
nor does a method call behind `?.`, though `README.md:101` says that `a.x(b)` is
`x(a, b)`; `${{ {a: {b: 1}} }}` is cut at the first two braces
(`template.go:190`), and is an error; an
argument cannot set a key with an equals sign; a properties file of nothing but a
backslash loads as empty, any other dangling continuation is an error
(`parser_properties.go:52`); with scalar inference one value `nan` or `inf` fails
the whole load (`values.go:15`); an integer constant is rejected for a `float64`
parameter of a Go function, though the runtime converts it; `sort` of null is
typed null, and is an empty array; `%` is rejected for what is only known to be a
number.

## 5. What is proved

All for every value of the constants that the assumptions of the modules admit.

### The lock: `LockedRead_proofs`

`TypeCorrect`, `LockCorrect` and `CopyCurrent` follow from the inductive invariant
`IInv == TypeOK /\ LockOK /\ CopyIsCurrent /\ NothingCopied`.  `LockOK` alone is not
enough for `CopyIsCurrent`: a goroutine must start copying with an empty copy,
which is `NothingCopied`; and `CopyIsCurrent` needs `LockOK`, as a write is harmless
only because no copying reader has a read lock then.  `LockOK` counts the read locks
each goroutine holds at each place (`ReadLocks`), two in a function that has called
back.

`StuckBehindFunctions` follows from `IInv` alone: whoever waits, waits for the writer
that has announced itself, who waits for the readers inside, who wait for nobody
unless they have called back.

`GetReturnsOneTree` adds `SeesRoot`, that the trees seen during a read include the
present one, to `IInv`: a copy that is complete and current is the tree.  It holds
beside any `EvalValue`, which only harms itself.  `OneTreeWithoutEvalValue` is the
same for all reads, and `AtomicWithoutEvalValue` the refinement of `AtomicContainer`
(a read takes effect when it returns), both if no goroutine calls `EvalValue` or
`Select`; the run `eval_tears` shows that this assumption is necessary.

### The tree: `Variables_proofs`, `Frame_proofs`

`TypeCorrect`: `TypeOK` is inductive as it stands; the work is in the lemmas of
`PathTree_proofs` and `Interpolation_proofs` that every tree operation makes well
formed trees of well formed trees.  They rest on a view child by child
(`WellFormedChildren`): a tree is well formed if it is `Rooted` and each node that is
there to have a child in a slot is the right container and has the slots before
(`Holds`).  In this form `Graft`, `Opened`, `Prune`, `MergeNodes` and `EvaluateNode` need
one case split each: is the child in the part that is new or in the part that is
kept?  `ArrayLength` shows that the length of an array is its first free index,
which `AppendValue` relies on.  The assumptions are `InputsAssumption` (callers pass
paths over the keys, and values that are trees), and that a template is a scalar
with a path.

`WriteBack` follows from `TypeOK` alone: in a well formed tree `setAt` along a path
that exists meets no error (`ExistingSucceeds`), and `Cut` keeps the parent.

`ConflictCheck`: the inductive invariant adds only `Shape` (that tasks are records with
a field `at`); the argument is that `WriteRoot` adds every goroutine under way to
`overlapped` when it changes the root, and that `LoadGet` and `LoadCheckRoot` look at the
very tree they leave.  With one goroutine `overlapped` stays empty, so that
`AloneNeverOverwrites`; the run `load_race` shows that two are enough to break it.

`SetLocal`, `DeleteLocal`, `AppendLocal`, `MergeLocal` and `ErrorsChangeNothing` need no
invariant but `TypeOK`: each is a lemma about the operation on well formed trees
(`SetAtGives`, `DeleteGives`, `AppendGives`, `MergeGives`, `PaddedRootKeeps`), and one about
which outcomes the action has.  The notion they share is `KeptOutside`: the nodes of
one tree outside a path are those of the other, but for the nulls below the root
that were opened on the way, each as the container needed, and the nulls added
before the path in its arrays (`PaddedWhere` says where, `OpenedKeeps` that these are all,
`RootStands` that the root is not among them).  Along a path that exists `Opened`
changes nothing (`OpenedExisting`), so that `SetExisting` and `SetBack` reduce appending and deleting to the change of one
subtree; that a merge done again changes nothing follows from `MergedNodes`, which
says node by node which of the two trees it comes from.

### The stored tree: `ValueTree_proofs`, `StoredVariables_proofs`

`StoredImplementsVariables` is the refinement that the run `stored` checks, for Values
of any size and any paths: what `StoredVariables` does, seen through `PathsOf`, is what
one goroutine does in `Variables`, errors included.  The steps are proved action by
action (`SetValueStep` to `InterpolatePublishStep`), together with `TypeOK`, which is
inductive and says that all trees are Values; `TypeOKHolds` is that part of it.
The assumption (`StoredAssumption`) is that callers pass paths over the keys and Values
that Go can hold; `SeenInputs` shows that what they pass then is what
`InputsAssumption` of `Variables` asks for, so the theorems on `Variables` are about
the stored tree as well.  `SeenPaths` to `SeenInterpolate` say that the operators of the
instance are those of the module.

The substance is one theorem per recursion: `SetAtAgrees`, `DeleteAtAgrees`,
`AppendAtAgrees`, `MergeNodesAgrees` (and `MergeAtAgrees`), `EvaluateNodeAgrees`.  Their
arguments have three parts.

* *Two views of one tree.*  `Shows(v, t)` says of a Value and a tree on paths that
  `getAt` finds at each path of `t` a node of that label, and nothing elsewhere.
  `ValueIsShown` and `ShownIsValue` make that the same as `IsValue(v)` and
  `PathsOf(v) = t`, and give both that `PathsOf(v)` is well formed and that a Value is
  finite if a tree shows it.  `SameValue`, that `PathsOf` forgets nothing, is needed for
  the comparison of two rounds in `Interpolate`, which the code makes on Values.
* *The recursion has its equation.*  A recursive function is a CHOOSE in TLA+;
  that there is a function with the equation is proved by counterexample of least
  or greatest length, along paths and over the finite set of paths of a Value.
* *The recursion computes the operator.*  For `setAt` the node it is on after `n`
  segments is what `Standing` says (so it fails where and how `SetError` says), and
  what comes back up is, level by level, the tree below that node in `SetAt`; for
  `mergeNodes` and `evaluateNode` the result at a path is the part of the whole
  result that lies below it.

### Interpolation: `Interpolate_proofs`

Everything rests on what evaluation does below one template (`EvaluatedAt`): below a
template `h` the result has what the environment has below `Ref[h]`, labels and
templates included, and elsewhere what was there.

`ReplacesTemplatesOnly`: the invariant `SnapshotsKept` says that the tree of a call under
way has every node of its snapshot that is not a template, and that the snapshot is
the root if nobody has written since.

`Resolves`: evaluation is associative (`Associative`): evaluating the result of `a` in `b`
in `c` is evaluating `a` in the result of `b` in `c`.  So the tree of a call, which is its
snapshot composed with itself in some order, commutes with the snapshot (`Commutes`,
the invariant `TreesUnfold`).  Once it has no template left, evaluating it changes
nothing; hence evaluating the snapshot in it gives it back, which is the claim.

`CyclesAreLongChains`: a template of the evaluated tree is a pair of templates of the
tree, of which the first refers to where the second is or to what it is under
(`TwoTemplates`, `OneForBoth`), and such pairs follow one another as their first and
second parts do.  So there is a chain of `n` after a round exactly if there was one of
`2n` before (`ChainTwiceAsLong`, `ChainHalfAsLong`), and the invariant `RoundsHalve` is that
the tree has a chain of `2^n` exactly if the snapshot has one of `2^(n + depth)`.  A tree
that evaluates to itself has chains of any length or none (`NeverShorter`), so that both
reasons for giving up, two equal rounds and `maxDepth` of them, mean the same.
The prover knows nothing of powers; `PowersOfTwo` gets them from the library's theorem
on the number of subsets.

`CallsAreShort`: `StepsLeft` is a measure that every step of a call decreases and no step
of another goroutine touches.  As a call under way can always take its next step,
`CallsReturn` follows if every goroutine is scheduled; that last step is about
fairness and ENABLED and is left to TLC.

`GrowthIsBounded` is `RoundsAtMostSquare`: `Origin` maps the nodes of the evaluated
tree to pairs of nodes of the tree, no two of them to the same.

### Induction

The library's induction theorems take an operator as a parameter, which the
provers cannot instantiate.  `LeastNatural` (every non-empty set of naturals has a
least member, from the library's theorem on well-founded relations) does instead:
where an induction over numbers is needed, it is applied to the set of
counterexamples.  Induction along a path, and over the paths of a finite Value, comes
down to that (`ShortestPath`, `LongestPath`).

### Model-checked only

* Everything about texts and expressions (`Text`, `PathSyntax`, `LoadText`, `Loading`,
  `AtomicLoad`, `ExpressionSyntax`, `Placeholders`, `ExprValue`, `Evaluator`, `Checker`,
  `Expressions`): the scanners, the parsers, `Eval` and `inferExpr` are recursive
  operators, which the prover cannot reason about, and what they compute would take
  induction over syntax trees.
* Liveness: `CallsReturn` in both modules.
* That the guards in `CanGoOn` are those of the steps, which `StuckBehindFunctions`
  speaks of: a statement about ENABLED.

## 6. Not modelled, and the plan

Not modelled: decoding of JSON, YAML and XML (libraries), file access and
scanner limits (one error, `Unreadable`), the conversion of Go values by
reflection (`EncodeValue`, beyond what loading needs of it), the rounding of
numbers (`math/big`), escapes that give code points, the texts of errors, what
`text/template` and sprig make of `{{ }}`.

Of the function registry (`options.go`), what `WithFunction` and `WithGoFunction`
make known of a function and the names they refuse are modelled; its maps are filled
before the container exists and copied by `Clone`, so they are a constant.  Its one
trap, that `WithFunction` after `WithGoFunction` of the same name leaves the older
function to templates, is in PROJECT.json without a property: no state of the
models depends on it.

Left for the future, the most important first:

1. `Ownership`: maps and slices as objects of a heap, with `Clone` at each
   boundary of the API; nothing reachable from the root is reachable from a
   caller.  `FunctionContext.Root`, which is handed to custom functions without a
   copy, is the exception to state.
2. Rounds of `Interpolate` over strings of several placeholders: `Placeholders`
   takes them apart, `Interpolation` knows references only.
3. More of the checker: `WithTypedFunction` and `WithRootSchema`.
