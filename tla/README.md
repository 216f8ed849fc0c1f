# A specification of tgoast

tgoast is a fork of the syntax tree, scanner, parser, printer and type checker
of Go 1.23 (go/ast, go/scanner, go/parser, go/printer, go/types, ...), extended
with *tgo*: HTML-like elements, attributes and template literals as statements
of Go functions.  This directory holds TLA+ modules translated from its source,
TLC configurations that check them on small instances, and theorems about them
that TLAPS proves for all values of their constants.

- `PROJECT.json` lists the components, the runs, the mutants (bugs put into the
  models, each found by the property it belongs to), the lines of code each
  definition stands for, the findings, the hazards and the theorems.
- `X.tla` models a component, `XProofs.tla` has its theorems.  `MCY.tla` is the
  root module of runs: it instantiates the components that a run checks, a
  behaviour being one of them (`algorithm` or `machine`) on one input; the
  inputs are in `MCYCases.tla`, `Y.cfg` gives the constants and properties.
- To check: `tlc -config FileSet.cfg MCFileSet`, `Shared.cfg MCShared`,
  `Syntax.cfg MCSyntax`, `InitOrder.cfg MCInitOrder`, `Types.cfg MCTypes`,
  `Calls.cfg MCCalls`, `Programs.cfg MCCalls`; `tlapm XProofs.tla`, `tlapm MCShared.tla`,
  `tlapm MCSyntax.tla`.
- A `\* Mutant` definition is not part of the model.

Line numbers and names refer to the repository's `src/`.

## The system

A source file goes `FileSet.AddFile` → scanner → parser → `ast.File`, and from
there to the printer or, with other files, to a `types.Checker`.

| part | state | operations | what is hard |
|---|---|---|---|
| `token.FileSet` | base, files, cache `last`, RWMutex | AddFile, File, PositionFor, RemoveFile, Iterate | shared by goroutines; a cache without the lock; positions that overflow |
| `token.File` | table of lines, infos, mutex | AddLine, MergeLine, SetLines, Position | tables changed in place; slices shared with callers |
| `scanner.Scanner` | offset, insertSemi, nlPos, template and tag flags | Scan, TemplateLiteralContinue, AllowInsertSemiAfterGTR | semicolons owed across comments; calls that depend on a token read ahead |
| `parser.parser` | look-ahead, comments, stack of template literals, error synchronization | next and the grammar | state behind the look-ahead; recovery that must end |
| elements (`parser/tgo.go`) | stack of open tags | combineElemmentBlocks | a list becomes a tree, in the presence of errors |
| `resolver` | scopes, labels, unresolved names | a walk | scopes of Go and of tags, trees with errors |
| `ast` | trees, comments | Walk, SortImports | positions rewritten under the table of lines |
| `printer`, `format` | a buffer of white space and comments, lines of the source | Fprint | comments and layout by position; newlines that are semicolons |
| `types.Checker` | objects with colours, object path, environment, delayed actions | Files | order of declarations and calls; cycles; types that are incomplete when read |
| expressions | untyped expressions that wait for a type | expr, convertUntyped, updateExprType | contexts known late; constants at their limits |
| statements, labels, returns | a context of flags, blocks, labels, variables used | stmt, labels, isTerminating, usage | jumps out of and into elements; literals checked later |
| `Named`, `Context` | state of each instance, mutexes, shared contexts | Instantiate, Underlying, Method | lazy, from many goroutines, cyclic |
| `_aliasAny` | a process-wide counter | checkFiles, Lookup("any") | concurrent checkers with different modes |
| unification, inference, calls | handles, lists of type parameters | infer, arguments, funcInst | joined parameters; generic functions as arguments |
| type sets, look-up, sizes, valid types, instantiation graph | term lists, embedded types by depth, nests, graphs | computeInterfaceTypeSet, lookupFieldOrMethod, Sizeof, validType, monomorph | subtle sequential algorithms with caches |
| `constant` | values in eight representations | BinaryOp, Shift, Compare, ToInt, ToFloat | normal forms at the limits of representations |
| importers, bisect, lazyregexp | caches, once, sentinels | Import, Stack | lazy initialization, errors in between |
| doc, pkgbits, xcoff, support packages | trees, binary formats | | I/O and formatting |

How they meet: the scanner adds lines to the `File` that the parser asks for
lines; the parser steers the scanner by two calls made one token late; the
printer asks the same table which lines its tokens stood on; import sorting
rewrites positions and merges lines before it prints; the checker resolves
objects through scopes, delays bodies and types of untyped expressions, and
types outlive their checker and are expanded by any goroutine that reads them.

## Modules

The models keep the control of the code and abstract its data: tokens are
strings without characters, a token has one position, trees are records that
name their Go type, errors are codes or positions without wording.  A function
of the code that has state is a state machine with an action for each step that
others can observe; a sequential algorithm is an operator from its input to
what it returns, its loops are folds or recursive functions, and what is
checked of it is a property of the step that returns.  The language is stated
independently, as its specification says it, and the code is compared with that.

### FileSet, FileSetAbs, FileSetProofs — `token/position.go`

One step for each access to shared state.  `pc[g]` is the statement that
goroutine `g` executes next, `f`, `x`, `i` are its locals; `writer` and
`readers` are the RWMutex; integers wrap at `MaxInt`.  Every statement inside a
critical section is a step of its own: it is the lock that makes the
properties hold.  Iterate calls its `f` without the lock, so `f` may call the set,
Iterate included: the call of a callback is that of another member of `Goroutine`,
`within[g]` are the iterations it is made in, and these do not go on until it
returns.  `Concurrent` says if calls overlap otherwise.  `FileSetAbs` is what the callers may rely on: a set of files
whose operations happen at once; look-ups may return a file that has been
removed if `StaleHits`.

- Run `FileSet` (2 goroutines, 2 files, sizes −1 and 1, bases −1 and 2, `MaxInt`
  5, so that files touch, leave gaps and overflow): `DistinctIntervals`,
  `StableLookUp`, `IterateInOrder`, `RemovesOnlyItsFile`, the
  refinement `ImplementsAbs` with stale hits, and `CallsReturn`, a call that
  panics with the mutex held included (AddFile unlocks in a defer).
  `IterateComplete`: what Iterate says it visits, and what it misses.  The index is
  kept while `f` runs without the lock, so a file that is removed meanwhile, by `f`
  or by others, shifts the others under it: of the files that are in the set all the
  time it skips at most one for each file removed, each of them behind a removed one.
  No file of another set is used in this run; `RemovesOnlyItsFile` and
  `ImplementsAbs` are proved with such files, too.
- Run `Shared` (calls and those of their callbacks, a file of another set):
  `ImplementsStrictAbs`, the refinement without stale hits, by which a removed
  file is never found, although callbacks remove and look up files.
- `FileSetRemoveRace`: `RemovedIsGone` fails with two goroutines: RemoveFile
  clears the cache before it takes the lock.

Two goroutines suffice because a property relates one call to what any other, or
its own callback, does in between; `FileSetProofs` proves all of it but `CallsReturn` for any number
of goroutines and files, the refinements included.

### LineTable — `token/position.go`, `token/serialize.go`

Slices and the arrays they share: `Lines` returns the table itself, `SetLines`
keeps its caller's slice, `AddLine` appends in place when there is room and
`MergeLine` shifts entries in place.  `TablesAreTheirs` (run `Calls`, two files,
three and four calls of all operations): each table has the lines its own calls
gave it, whatever arrays it shares, but for the entries that in-place changes of
another file took; positions are those of the text, line directives included.

### AliasMode, MCShared — `types/check.go`, `types/scope.go`

The counter `_aliasAny`, with the addition, the comparison and the registration
of the deferred correction as separate steps, the setting `gotypesalias` that
may change at any time, and the reads of `aliasAny()`.  A panic may end the program
or be recovered by the caller; a refused checker that is recovered stays in the
counter, and `leaked` (history) says how many did.  Run `Shared`, three goroutines:

- `CounterNamesMode`: the counter is always the balance of the checkers that run,
  those being refused and those leaked (`CounterIsExact`); until one is refused its
  sign is what the comment of `_aliasAny` says.  Afterwards it may be 0 while a
  checker runs, and the next one of the other mode is let in.
- `AnyMatchesMode`: until a checker is refused, none gets the `any` of the other mode.

`MaxLeaked` = 1 bounds the checkers that are leaked: one is enough for the counter to
be wrong in either direction; the proofs do not depend on it.

### Named, NamedProofs — `types/named.go`, `types/context.go`, `types/instantiate.go`

Types after their checker is gone: each `Named` has a mutex and a state that is
read without it; `resolve`, `expandUnderlying` and `expandMethod` take the
mutexes of origin and instance, and substitution makes further instances in the
caller's and a local context.  For each reference, substitution first asks its origin
for the type parameters (subst.go:244), which resolves the origin under its own mutex,
loader included, while the mutex of the instance is held (`ResolveOrigin`,
`LockOrigin`, `Load` at the label "subst").  The mutant of `CallsReturn` resolves the
type referred to instead, against which the comment at subst.go:239 warns: two
goroutines that expand types which refer to each other then wait for ever.
Run `Shared` has three mutually referring generic types and two goroutines: nobody reads a type that is not ready
(`ReadsAreReady`, with the assertions of the code), methods and instances are
canonical and a chain of types closes (`MethodsAreCanonical`), and every call
returns (`CallsReturn`).  `NamedProofs` proves the first two for any number of
goroutines and any generic types; `MCShared`, which the run checks, instantiates
the proofs and proves the properties of its own specification with them.

### Lexer, LexerProofs — `scanner/scanner.go`, `parser/parser.go`, `parser/tgo.go`

Characters are classes.  The scanner's fields are a record `sc`; the parser is
its next() with comment groups and the stack of template literals, driven by any
sequence of calls that the grammar can make.  Run `Syntax`: `SemicolonRule`
restates the language's rule from the history of tokens, and that the pieces
tile the source; `TopIsReady` that a statement never pops the nil that
nextTgoTemplate leaves in `templateLit`, and that a lead comment stands alone;
`Finishes` that both come to an end.  Files have up to four words, a word being
e.g. a comment with a newline or the beginning of a template literal.
`LexerProofs` proves the first two for all files; `MCSyntax`, which the run checks,
instantiates it, extends `ElementBlocksProofs` and proves the safety properties of
its own specification with them.

### ElementBlocks, ElementBlocksProofs — `parser/tgo.go`

`combineElemmentBlocks`, an action for each branch of its loops.  Run `Syntax`:
the tree is the list again (`EachStmtOnce`), the tags that belong to no element are
reported, each once, and no error is reported exactly for the lists whose end tags
can be paired with open tags of their name so that the pairs nest and only void open
tags are left over (`ErrorsAreExact`).  All lists of up to four
statements of every kind and of five or six tags: six tags are needed for an
unclosed element inside of two that are closed.

### Ast, Grammar, Resolver, Parsing — `ast`, `parser`

`Ast` has the nodes, their positions and their traversal; `Grammar` the whole
recursive descent of parser.go and tgo.go, with its error recovery (`advance`,
`syncPos`, the nesting limit, bailout); `Resolver` the walk that gives names
their objects.  `Parsing` calls them; `MCCalls` states, in run `Programs`:

- `TreeIsInput`: the tree of an accepted input, read in order, is the input, with
  the precedences of the language, and positions are where the nodes are;
- `RecoveryEnds`: on any input the parser reaches the end with its expression
  level as it was, after a bounded number of calls of advance that consume
  nothing;
- `NamesAreResolved`: in accepted files, a name has the object of the innermost
  declaration that is visible, by a definition over the text.

Inputs are all words of up to four or five tokens that a production deals with,
between a beginning and an end, in 28 contexts, and programs of up to five
phrases (declarations, uses and blocks): errors come at every place, and two of
them in one input.  `ParserPanics`: a tag without a name makes the resolver
panic.

### Output, Printer — `printer/printer.go`, `printer/nodes.go`, `printer/tgo.go`

`Printer` is the layout of every node: which tokens are written, where lines are
broken, and what separates tokens that would be read as others.  `Output` is
what happens to them: white space is delayed in wsbuf until the next token, and
comments that are before that token in the source are put among it (`flush`,
`intersperseComments`, `writeCommentPrefix`, `writeCommentSuffix`); it also
scans a text, with positions and comment groups.  A text is a sequence of
tokens, comments, blanks and newlines, all one column wide.  `Format` takes a
file: parse, print, scan and parse the text again.  Run `Calls`: declarations
and statements of all kinds, with up to four line breaks more at any place, or
one of twelve comments or pairs of comments, on the line of the text or on lines
of their own.  `FormattingKeeps` says that

- the tree is the same (a newline is a semicolon after some tokens),
- every comment is there, once, between the same names and literals, and the
  indentation comes back,
- printing again changes nothing or makes the text shorter; with comments it may
  move some of them once more, and then changes nothing.  It is not idempotent,
  as the tests of the printer know.

The exceptions are `JoinsStrings`, `BaresGeneric`, `Detaches` and `Exposes`, see
"Disagreements".  The mutant puts a comment in front of a token although the line
break behind it ends a statement there (`impliedSemi`).

### Imports — `ast/import.go`

SortImports: runs of lines, their sorting and deduplication, the positions handed
to the specs and comments that remain, lines merged in the file's table.  Run
`Calls`, blocks of up to four lines with comments on both sides:
`ImportsAreSorted`, without data loss, each comment stays with its spec, runs
stay apart.

### Constant — `constant/value.go`

The eight representations and all operations, with limits scaled to words of four
bits and floats of six.  Run `Calls`: `ConstantsAreExact`, every operation and
conversion on values around those limits is the exact (or correctly rounded)
one, in normal form, whatever representations the operands had.

### Expressions, Typing — `types/expr.go`, `const.go`, `index.go`, `conversions.go`, `operand.go`, `assignments.go`

The checker of expressions with its map of untyped expressions, which get their
types when the context is known (`updateExprType`), shifts, comparisons,
conversions, indices and slices, constants of sized types.  `Typing` states the
language in two directions, what an expression is alone and which types its
context may give it.  Run `Programs`, expressions of up to three operations:
`TypesAreRecorded`, exactly the legal ones are accepted and each part has the
type and value it has when the program runs.  `TemplateUntyped`: parts of
template literals stay untyped.

### Statements, Using — `types/assignments.go`, `types/stmt.go`, `types/decl.go`, `types/call.go`

Declarations, assignments, scopes, function literals that are checked later and
the marks of used variables.  Run `Programs`, functions with one or two
statements inside of each other: `VariablesAreUsed`, statements are accepted and
variables reported as unused as the language says, over the text.

### Collect — `types/resolver.go`, `types/check.go`, `types/decl.go`

collectObjects, packageObjects' methods, and unusedImports, for packages of two
files checked in one or two calls of `Files`.  Run `Programs`:
`ObjectsAreCollected`, errors are exactly those that the language has, in any
order of files, a path is imported once, methods are those declared first.

### ObjDecl, InitOrder, InitOrderProofs — `types/decl.go`, `types/resolver.go`, `types/initorder.go`

`ObjDecl`: packageObjects and objDecl.  The calls are a stack of frames, and
references are met in any order; a colour is a number as in the code: an index
into `objPath` for grey objects.  Function bodies and literals are delayed and
add dependencies to the declaration they were captured with.  `InitOrder`
composes it with dependencyGraph (functions removed one by one, in any order
their costs allow) and the priority queue.

Run `InitOrder` takes about 40000 packages: three declarations of all kinds with up to
two or three references each, four variables and functions with one reference,
`var a, b = f()` between two others, and four types and aliases.
`DeclsAreTracked`: colours are those of the path (the comment of objDecl), and
dependencies are those of the text although other declarations are checked in
the middle; `CyclesAreExact`: a cycle that is reported is there, one of aliases
alone is reported in whatever order it is met (unless one of the aliases is on a
cycle with a type definition, too), and a cycle of initializations is reported exactly if there is one;
`OrderIsGo`: without errors, each variable comes after those it needs, and the
order is that of the language (unless variables are declared together): the
variables can be given places such that the next one is always the first of the
source whose needs have theirs.  What a variable needs is defined on the text, by
the sets closed under references.  `Finishes` needs only that the checker goes on.

`Programs` is a constant; `IsProgram` says what any of its programs is, and the
theorems are about all of these, but not about every package the code accepts.
References are to objects of the package, and variables of one declaration share it.
A type declaration refers to types and constants (array lengths); a signature and
the type of a variable or constant refer to types alone, not to constants as in
`var x [N]int`; no type refers to variables or functions, as in `[len(x)]int`.
There are no methods, type parameters and local declarations.

### ValidType, Mono — `types/validtype.go`, `types/mono.go`

validType with its nest, its path and the slices they share, and its cache of
valid types; the graph of type parameters with its search for a cycle of positive
weight.  Run `Programs`: `CyclesAreFound`, an infinite type is reported exactly
if there is one (a type and two generic types that embed or point to each other),
and instantiation without end exactly if some instance needs it (up to five
instantiations of up to three functions, compared with an unfolding to a bounded
depth).

### TypeSets, TypeSetsProofs — `types/typeset.go`, `termlist.go`, `typeterm.go`, `union.go`, `instantiate.go`

The interfaces of a program, each of which embeds those before it, and a stack of
the calls of computeInterfaceTypeSet: a step embeds one element, adds one term to
the union that is being computed, starts the call for an interface that comes
next, or stores the result.  Uses may ask for a type set at any time, before the
declaration of an interface, or of one it embeds, has been processed too; then
the code takes the set of all types.  `loose` (history) are the interfaces for
which that has happened, or for which parseUnion reports an interface in a union;
`Settled` are the others whose set is stored.  A union of more than `MaxTermCount`
terms (100 in the code, 2 in the run) is reported and ignored (`UnionOverflows`); that
parseUnion counts the terms in the text against the same limit is left out.  Terms are a tilde and a type; a term
that normalization has used up stays in its list as `Nil`.

Run `Shared`, programs of up to three interfaces: `SetsAreExact`, a settled
type set has the types and methods that the language says, disjoint terms and
exactly the clashes of methods as errors; implements is inclusion
(`ImplementsIsInclusion`).  `TypeSetsProofs` proves both for all types and programs.

### LookUp, Sizes — `types/lookup.go`, `methodset.go`, `sizes.go`, `gcsizes.go`, `gccgosizes.go`

Run `Types`.  `FindsWhatIsSelected`: lookupFieldOrMethod, NewMethodSet and
missingMethod agree with the language's rule of depths, on all programs of three
types that embed each other.  `LayoutIsExact`: with integers of 8 bits, sizes and offsets are exact
or negative.

### Unify, Infer, Arguments — `types/unify.go`, `types/infer.go`, `types/call.go`

`Unify` has the handles of joined type parameters and the rules of exact and
inexact unification; `Infer` runs an inference argument by argument, over core
types, methods, untyped constants and the final substitution; `Arguments` is what
surrounds it: calls, generic functions among the arguments with type parameters
in one list, partial instantiation and assignment.  Runs `Types` and `Calls`:
`InferredIsTheSolution`, type arguments are the one solution of the equations,
independent of the order of arguments, and inferred types do not contain
themselves; `CallsAreInferred`, the same for whole calls with up to three
arguments that may be generic, every one of which is evaluated.

### TgoStmt — `types/stmt.go`, `types/labels.go`, `types/return.go`

`TgoStmt` translates the checks: the context flags of `Checker.stmt`, the
second pass over labels, `isTerminating` and `hasBreak`, on statements that are
records of a kind, a label and blocks, and then runs what has been accepted,
with Go's semantics of statements and tags that write their parts.

- Run `Types`, `RunsAsChecked`: every function of up to three statements, or one
  made of four, of four families: bodies are closed, writes are placed,
  terminating functions do not run off their end, gotos are rejected exactly when
  the language says so, and only bad jumps (and see below) are rejected.  Select
  statements, which the checks treat like switches, are in no family.
  `MaxTags` = 3 bounds the tags open at a time: loops may nest them for ever.
- `TgoEscape` and `TgoLabel`: two programs are accepted that should not be.

## Bounds

A behaviour of the runs `Types`, `Calls` and `Programs` is one call, so bounds
are those of inputs; families (sets of inputs) are chosen so that each branch of
the code is taken, which the coverage of TLC and the mutants show: removing a
branch or a guard changes what some input returns.  Widths of integers and
floats are scaled (`Width` = 4, `Prec` = 6, `SmallBits` = 3, `MaxInt` = 127 or
5): the code compares with its limits and never depends on their size otherwise.
`MaxNestLev` = 9 scales the parser's limit of 100000, `DepthLimit` = 12 or 20
that of the unifier; both are reached by no input but those about cycles.

## Fairness

- FileSet: the statements of a goroutine and its acquisitions of the lock, strongly.
  A sync.RWMutex blocks new readers while a writer waits, so nobody is starved; an
  iteration waits for the calls of its callback, of which there are finitely many.
  A goroutine need not start a call.
- Named: each statement weakly, taking a mutex strongly (sync.Mutex switches to
  starvation mode, mutex by mutex).
- Lexer, ElementBlocks, Parsing, ObjDecl, InitOrder: the one thread goes on
  (`WF` of the whole next-state relation).

## Proofs

All theorems are of the form `Spec => []P`, `Spec => [][A]_vars` or `Spec =>
Abs!Spec`, from an inductive invariant `IInv`: `Init => IInv`, `IInv /\
[Next]_vars => IInv'`, one lemma for each conjunct or action, and `IInv => P`.
TLC has checked each `IInv` on small instances before it was proved.

- **FileSetProofs** (assumes `ConstantsAssumption`: sizes and bases are at most
  `MaxInt`, 0 is not looked up, nil is no file and no goroutine).  `IInv` has the
  types, what the lock means for each program counter, that `files` is sorted and
  disjoint, that `last` is nil or was added, what a search has established, and
  what an iteration has seen.  `RemovesOnlyItsFile` needs that the search in
  RemoveFile decides, `StableLookUp` that a file that is found by nobody else's
  removal is found by the search.
  - `Refinement`: AddFile and RemoveFile take effect when `files` changes, a
    look-up when the cache hits or the search decides; every other step maps to
    none.  A look-up may return a file that has been removed: it is stored in the
    cache when the lock may have changed hands.
  - `StrictRefinement` is for calls that overlap only in callbacks (`~Concurrent`):
    between the steps of a call that is not iterating nothing else happens, and `last`
    is nil or in the set (`CacheInv`).
  - `IterateIsComplete` is for any goroutines and callbacks: of the files before its
    index that were there all the time, an iteration has missed at most one for each
    file removed, and only ones that follow a removed one (`VisitInv`).
- **NamedProofs** (assumes `ProgramOK`: references are to types of the program).
  A goroutine past the fast path of a type either holds its mutex or has seen a
  state that never goes back (`MutexInv`, `StateInv`); the counter of expanded
  methods is the number of methods that are there (`MethodsInv`), so that the
  context is dropped with the last one and no earlier.  `CyclesClose` needs where
  contexts come from: each is made by one type and shared by those made in it, a
  type keeps it until all of it is expanded, and what it refers to is recorded
  there with the type itself (`OwnContext`, `RecordsOwn`, `ReachInv`,
  `RecordsOnce`).
- **TypeSetsProofs** (assumes `ProgramsOK`: underlying types are their own, and
  decide if a type is comparable; interfaces embed earlier ones).  The functions on
  lists come first.  `norm` goes through a list once, so its result need not be in
  normal form: a term that has grown does not take those between (`~int | N`).  It is
  ordered, no term overlapping an earlier one unless that is wider (`NormOrdered`),
  and normalizing once more, which every embedding does by an intersection, makes
  the terms disjoint (`NormApart`, `IntersectOfLists`).
  The invariant says of every call that has not returned and is not loose that its
  set is what its first elements say (`Exact`), and its list what the first terms of
  its union say (`UnionExact`); nested calls are about ever earlier interfaces
  (`StackInv`), so that the set stored early is never used; a set that is settled
  stays (`SetsAreFinal`), so what others have read of it remains true (`Stable`).
  The terms are those that the program writes (`Written`), which `ImplementsExact`
  needs: it assumes `RichOK`, that a program does not write down all types.  In Go
  there is always another named type, and another comparable struct type; without
  them `int | N` would have the types of `~int` and not be its superset for
  termlist.subsetOf.  TLC evaluates the assumption for the run (`GoAssumption`).
- **MCShared** proves its properties from those three modules: its steps are steps of
  one machine or leave it alone, so each of its behaviours is one of `Named`, of
  `FileSet` and of `TypeSets`.
- **InitOrderProofs** (assumes `IsProgram` for every program).  The stack of
  objDecl is a path of references, one frame waiting for the next (`StackInv`,
  `FrameInv`), with which a colour is an index into it (`ColorInv`).  A reference
  that has been met is a dependency of its declaration or in a body delayed with
  it, one that has not is still in its frame (`DepsInv`); this holds for all
  declarations at once, since the environment is saved and restored around each.
  For alias cycles: as long as no cycle has been reported, black aliases refer to
  black ones and have no cycle among them (`AliasInv`).  This is said of the aliases
  that are on no cycle with a type definition (`LoneAliases`): one that meets an
  alias on the path closes a cycle without definitions (`CycleLeads`), an invalid one.  `ndeps` counts the
  dependencies in the heap (`OrderInv`).
  `SoundInv` is about the order.  Taking a function out of the graph keeps where
  edges lead between the other nodes, through functions and through all nodes
  (`GraphInv`, lemma `WithoutLeads`), so the order of the functions does not matter.
  The first node of a cycle to be popped still waits for another one, and the code
  looks for its cycle (`ErrorInv`, `CycleGoesOn`).  Of waiting nodes, each with an
  edge to one of them, one is on a cycle (`CycleExists`): without cycles some
  variable waits for nothing, and so does the one that is popped, as it waits for
  the fewest (`TakenInv`).  The popped variable takes the next place of the
  language's order (`PlaceInv`, `PlaceNext`).  That the graph is the one of the text
  is `DepsInv`, for which a constant that gives up needs a reported cycle.
- **MCShared**, its second part, about AliasMode (any finite set of goroutines, panics
  recovered or not): the counter is the number of checkers with aliases minus the
  number of those without, refused and leaked ones included (`CountInv`).  What the
  comments say of modes (`ModesAgree`, the second half of `CounterNamesMode`,
  `AnyMatchesMode`) holds as long as no checker has been refused, and is proved under
  that condition, which is a part of the properties.
- **ElementBlocksProofs** (any list of statements): stack and elements tile the
  list.  The lemmas on `Tiles` say that a sequence of statements covers an
  interval exactly, and what concatenation and slicing do to that.
  `ErrorsAreRight` needs where each open tag that has been passed is: it is that of
  an element, or waits on the stack, or lies inside an element (`TagInv`).  Then the
  errors so far are exactly the end tags passed that close nothing, and the tags,
  not void, that nothing can close any more (`ErrInv`).  A list that is accepted is
  well formed: the elements are its pairs.  For the converse, some pairing of a
  well-formed list agrees with the elements made so far (`PairInv`).  It cannot be
  fixed at the start: when the code closes the innermost open tag of the name and
  the pairing has another one, the innermost is left over, hence void, and so is the
  other; the two are exchanged and the pairs still nest (`PairSwap`).
- **LexerProofs** (assumes `SourcesOK`: files are sequences of characters).
  `Types` and `Text` say that positions are in the file, and that what the scanner
  has passed is white space or recorded.  `Owed` is for `SemicolonRule`: insertSemi,
  or an allowed `>` just scanned, holds exactly if the last token needs a semicolon
  and no newline has been passed since; a comment keeps the first one in nlPos.
  `Stack` is for `TopIsReady`: the nils in the stack of literals are those of the
  template literals that are being read, in their order, and nothing is above
  them unless an error has left it.  `Order` is for `LeadIsAlone`: next0 meets
  comments in their order and after the tokens the parser knows (`Met`, `Passed`), a
  literal begins before the comments inside it (`Begun`), and the lead comment is on
  lines of its own, the last before the next token (`Alone`).  `Passed` is needed
  since a literal can end between the parser's token and the comment, and then it is
  a semicolon, not the comment, that comes next.
- **MCSyntax** proves its properties from those two: each of its behaviours is one of
  `Lexer` and one of `ElementBlocks`.

Every safety property of the runs `FileSet`, `Shared`, `Syntax` and `InitOrder` is
stated by a theorem.  Only model-checked: what holds under fairness (`CallsReturn`,
`Finishes`), and the runs `Types`, `Calls` and `Programs`, whose behaviours are calls
of algorithms that recurse over trees, types and values: what such a definition
returns for every input needs induction over its data.

## Disagreements

Five runs end in a counterexample; PROJECT.json quotes the lines.

1. `RemoveFile` leaves a removed file in the cache (`FileSetRemoveRace`).
2. A tag whose name is missing is left in the tree with a nil name, and the
   resolver panics on it (`ParserPanics`).
3. A labelled break in the open part of an element skips its end tag
   (`TgoEscape`).
4. A label of an earlier statement of the list is accepted (`TgoLabel`).
5. The parts of a template literal are recorded as untyped (`TemplateUntyped`).

Seen while modelling, and kept in the models as the code has them:

Tables and trees

- Iterate "calls f for the files in the file set in the order they were added until
  f returns false" (position.go:478): a callback that removes its own file, or an
  earlier one, makes it skip the next, as does another goroutine.  `IterateComplete`
  says how many.
- `Lines()` and `SetLines` share arrays: MergeLine and AddLine of one file
  overwrite entries that others hold (the importer's `fakeLines` too).
- SortImports panics if a removed duplicate is on the last line of the table (a
  file of one line, `import ("a"; "a")`); with two specs on a line it merges
  the line after them.  Left comments of removed duplicates stay near the spec
  that is kept.
- `Scanner.Init` says that it initializes all fields, but leaves `nlPos`,
  `prevGTR`, `templateLiteralContinue` and `allowInsertSemiAfterGTR`.
- A comment behind a literal of several lines is not its line comment: next()
  compares with the line on which the literal starts.
- `p.templateLit[i] = p.parseTemplateLiteral()` leaves to the compiler whether
  the slice is read before or after the call, which may grow it; the model reads
  it after, as gc does.
- The Resolver opens no scope for the body of an element, types/stmt.go:918 does.
- Formatting is not idempotent (printer_test.go:135); `isOneline` joins strings
  that the scanner will not; the comment of `mayCombine` is not true of
  `a + +b*c`; combinesWithName (nodes.go:416) panics on `type T[P ((*x)),] P`.
- A comment `/*a*/` that begins a line behind a comma, semicolon or parenthesis
  which the printer drops or writes later ends the statement: `f(x,` and, on the
  next line, `/*a*/)` is printed without the comma.  commentBefore takes only
  comments with a newline in them for dangerous ("printing it does not introduce
  implicit semicolons"), but writeCommentPrefix may break the line before one.
  `Detaches` makes the exception.
- A comment in parentheses that are dropped, or between the brackets of `[]`, can
  go past the name or type behind it, even into the body of the function.
  `Exposes` makes the exception.

Checking

- A recovered panic of a refused checker leaves `_aliasAny` off by one
  (check.go:443).  `CounterNamesMode` and `AnyMatchesMode` say what is left.
- `goto` back within one body of an element is rejected although it jumps over
  no end tag (`enterTgoTag` counts the block the jump is in):
  `OnlyBadJumpsOrBack` makes the exception.
- An alias cycle can go unreported when one of its aliases is also on a cycle with
  a type definition: the aliases are visited first as part of a longer, valid
  cycle, and are black when the shorter one closes.  Example: the definition `T0`
  refers to the alias `A`, `A` to the definition `T1` and the alias `B`, `T1` to
  `B`, and `B` to `A`; the cycle A, T1, B is valid, and then A finds B black.
  `AliasCyclesReported` makes the exception; validCycle says "If there
  is no type definition, we have a sequence of alias type names which will
  expand ad infinitum".
- A definition that one invalid cycle has made `Typ[Invalid]` counts as an alias
  (`IsAlias` of a basic type) in the next one, so follow-on errors are reported.
- In `var z = b; var x = a; var a, b = f()` the order is f, x, z; the language's
  is f, z, x: a and b leave the queue one after the other, and x is ready in
  between.  `OrderIsGo` compares the order only without such declarations, the
  dependencies always.
- objDecl says that "a black object can only depend on other black ones"; a type
  popped inside of a cycle is black while it depends on a grey one.
- After a cycle through the first field of a struct, validType does not look at
  the fields behind it, and the same cycle may be reported twice.
- The doc of termlist.norm, "norm returns the normal form of xl", is not true of
  `int | N | ~int` with N an int: the result is `~int | N`, since the loop does not go
  back to N when int has become ~int.  Nothing depends on it: type sets that are
  stored are normal (`TypeCorrect` of TypeSetsProofs).
- A second call of `Checker.Files` does not compare the new names of the package
  with imports of the files of the first; an importer that returns an incomplete
  package without an error is silently ignored.
- Operands of `x op= y` and `x++`, selectors that are assigned to and returns with
  the wrong number of results are evaluated two or three times; variables in
  assignment operations with several values, invalid select clauses, extra
  initializers and ranges without type stay "unused".
- `T(1<<63)` is rejected for a T of type ~float64|uint64; a typed constant that
  is no integer is accepted as a shift count; recorded constant values are not
  rounded; an untyped string that is indexed or sliced stays untyped; the
  minimal length of the types of a type parameter (index.go:156) is that of no
  array if the first type has no length.
- `MinInt64 / -1` wraps in constant.BinaryOp (the checker never divides so);
  gcsizes.go:153 panics on an overflow that others report; indexedElts' `index++`
  overflows.
- The unifier panics at its depth limit on a generic call with cyclic types; the
  default types of joined type parameters depend on the order of a map.
- "cannot call non-function" (call.go:249) returns without evaluating the
  arguments, as the comment at call.go:974 promises; index expressions that are
  no instantiations are evaluated twice by genericExprList.

## Not modelled

PROJECT.json has a note for each component.  In short: the reading and writing of
export data and binary formats, documentation extraction, the comment map and
filters of ast, strings for types, built-in functions, tables and test helpers.
Within the modelled parts: type parameters and local declarations in ObjDecl;
substitution in Named (it is in Unify); line directives of the scanner, numbers,
runes, raw strings in Lexer; widths, alignment, directives, the words of comments
and the parts of template literals in Output and Printer; complex numbers, structs
and maps in Expressions; interfaces as constraints of joined type parameters in
Unify.

## Plan

1. Built-in functions and composite literals in Expressions.
2. The comment map and MergePackageFiles of ast; the method collection of doc.
3. Importers and lazy scopes: sentinels, once, retries after errors; the reports
   of bisect.
4. Lemmas on Align of Sizes, and on the tables of LineTable: those that need no
   recursion.
