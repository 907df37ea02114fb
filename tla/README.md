# A TLA+ model of Cambium

Cambium is a YANG toolkit for Go. It has a pure-Go schema layer (`go/cambium`),
a code generator, an experimental pure-Go data tree (`go/datatree`) and an
optional data backend over a statically linked libyang (`go/libyangbackend` over
the cgo seam `go/internal/libyang`). This directory holds TLA+ models of the
parts where the order of operations matters, TLC configurations for small
instances, and TLAPS proofs for all instances. `PROJECT.json` maps every
definition to the lines it models; paths below are relative to `src/`.

## The system

| Part | State | Operations | What is hard, and what makes it correct |
|---|---|---|---|
| cgo seam, `go/internal/libyang/libyang.go` | `live`, `closeReq`, `destroyed`, `frozen`, `loadMu`, the C context | `acquire`/`release`, `retain`, `beginLoad`/`holdSchema`/`freeze`, `Close`, finalizers | goroutines race each other and the finalizer goroutine on separate atomics. The context is destroyed exactly once, never under a user, always in the end |
| data trees and handles, `go/internal/libyang/libyang.go`, `go/libyangbackend/{cambium,tree}.go` | anchors into chains of C siblings, a generation for each tree, borrowed paths and raw parent pointers | path edits, merge, diff, validate, insert and move in user-ordered lists, `Close` | long sequences of calls on two trees. One owner for each node; stale handles are refused; positions are exact |
| schema context and builder, `go/cambium/cambium.go`, `source_catalog.go` | loaded modules, defaults by name and namespace, search path, features, `dirty`, `frozen` | settings, `LoadModule*`, readers that rebuild, `Build`, `Close` | a load fails at any step after changing shared objects; modules are promoted while the schema is being built. Loads are transactions; amendments are complete; a frozen context is constant |
| schema IR build, `schema.go`, `schema_augment.go`, `schema_operation.go`, `schema_budget.go` | the trees of the modules, pending augments, the node budget, errors | expansion of groupings, augments in passes, deviations, validation | fixpoints whose result must not depend on load order; multiplication of nodes; a deviation undoes what was checked before |
| types, `schema_types.go` | typedef memo, resolved types, kept defaults, derived identities | resolution in passes of the rebuild | a memo shared by scopes and modules; a level replaces the restriction below it |
| features, `schema_iffeature.go` | memo of looked-up features | expression parsing and evaluation | visibility from submodules, memo by definition, cycles |
| leafrefs, `schema_types.go`, `schema_leafref_*.go`, `resolution.go` | targets and copied types of the leafrefs | resolution with `deref()`, cycle search, real types | recursion into leafrefs that are not resolved yet; it must end |
| schema views, `schema_ir*.go`, `schema_projection.go`, `schema_diff.go` | the tree under construction | paths, lookups, nested and flat forms, projections, diffs | merging of selections, matching of nodes by ambiguous paths, size of the nested form |
| libyang schema forest, `go/libyangbackend/schema.go`, `go/internal/libyang/schema.go` | `forest` under `forestMu` | lazy build, invalidation by loads | concurrent readers; handles of an earlier forest; sibling lists that mix cases |
| pure-Go data tree, `go/datatree` | ordered siblings | parse, defaults, choices, constraints, JSON and XML output | canonical values, order of output, what absent nodes ask for, prefixes inside values |
| XPath engine, `go/datatree/datatree_xpath*.go` | – | lex, parse, evaluate, check `must` and `when` | node sets, positions, conditions of nodes that do not exist |
| patterns, `go/yangpattern`, `go/internal/xsdregex` | arenas of residuals | compile, match | limits, agreement of the engines |
| goyang-compatible facade, `go/compat` | records of a module set, namespace cache, context, syntax trees, Entry trees | parse, read, process, lookups; `Augment`, `ApplyDeviate`, `FixChoice`, `Find` on entries | records, cache and context in step whatever the order of calls; three tables for each kind of node; children kept by name and in order, and changed in both |
| parser, code generator, `gnmi`, conformance runner, commands | – | text in, text out | compared with libyang and goyang by the repository's fixtures |

The schema layer and the backend do not share state. Within the backend the
layers interact as follows: every entry point of a `RawContext` acquires it (or,
for schema walks, does not); a parse or `NewData` retains the context for the
tree it creates; a tree releases it when it is closed, finalized, or consumed by
an insert. In the schema layer a rebuild calls, in this order, features and tree
building (with the budget), augments, deviations, types, leafrefs, identities
and defaults; the data tree, the views and the facade read its result. The
models meet at these results: each takes what the one before promises as its
input.

## Modules

| Module | Models |
|---|---|
| `ContextLifecycle` | what the seam promises: a context is open, closing or dead; holders join only an open context; it dies when closing (or dropped) without holders |
| `RawContext` | the seam: each atomic operation, mutex operation and libyang call is an action |
| `MCRawContext` | small instances of it |
| `RawContext_proofs` | theorems: the count and the destroy; loads; the refinement of `ContextLifecycle` |
| `Recursion` | facts about finite sets and recursive functions on natural numbers that several proofs need |
| `DataTree`, `MCDataTree` | trees, generations, handles, user-ordered lists: one action for each public operation, since a tree has one user at a time |
| `DataTree_nodes`, `DataTree_proofs` | lemmas on nodes, chains and what libyang's edits do to them; the theorems on owners, handles and positions |
| `SchemaContext`, `MCSchemaContext` | the builder and context of the pure-Go layer, with loads in steps |
| `SchemaContext_proofs`, `SchemaContext_index` | its theorems: transactions, namespaces, freeze; imports, defaults, amendments |
| `Probe` | the question a run of the toolkit is about |
| `SchemaNodes`, `SchemaBuild` | from statements to trees: budget, groupings, refines, choices, operations; the rebuild with augments, deviations and validation |
| `SchemaTypes` | typedefs, restrictions, defaults, identities |
| `Features` | `if-feature` |
| `Leafrefs` | leafref paths, predicates, `deref()`, cycles, real types |
| `MCTypes` | questions for the three |
| `SchemaViews`, `Projection`, `SchemaDiff`, `MCViews` | paths and lookups, the materialised forms, projections, diffs |
| `CompiledNodes` | how one compiled node of libyang is read: kind, flags, bounds, type, typed values |
| `ForestReaders` | the concurrent readers of the schema forest, with the theorem about them |
| `Forest`, `MCForest` | the walk that builds the forest, and what is read from it |
| `DataValues`, `PureTree` | types and canonical values; parsing, defaults and validation of the pure-Go tree |
| `InstanceIds`, `XmlDocuments`, `MCXml` | values that name schema nodes; the tree as XML |
| `XPath`, `XPathEval`, `MCXPath` | lexer and parser; evaluation, `must` and `when` |
| `Patterns`, `MCPatterns` | compilation and both engines |
| `CompatModules`, `CompatNodes`, `CompatAST`, `MCCompat` | the module set of the facade; its syntax trees and the lookups in them |
| `EntryTree`, `MCEntries` | its Entry trees: how they are built from statements or from a compiled schema, and what their owner does to them |
| `EntryTree_proofs` | the theorems that they stay linked, and what a fixed choice has |
| `MCToolkit` | inputs of the parts from `SchemaNodes` on, and their common specification |

### RawContext

`live`, `closeReq`, `destroyed` and `frozen` are the fields of `RawContext`;
`ctx` says whether `ly_ctx_destroy` has run; `readers` and `writers` are the
holders of `loadMu`. Each goroutine has a program counter, and `job` holds the
arguments of its call. The labels follow the source: `AcquireLoadCloseReq`,
`AcquireLoadDestroyed`, `AcquireAddLive`, `AcquireRecheck` are the four atomics of `acquire`; `ReleaseDec`,
`ReleaseCheck` and `DestroyCas`, `DestroyCtx` are those of `release` and
`destroyCtx`. A handle (`hs`, `kind`) is a `RawDataTree`, a `RawDataDiff`, or a
shell, the tree without a context that `NewData` returns when `acquire` refuses
it. `GC` is the goroutine of the Go runtime that runs finalizers; it takes
unreachable objects only. Two constants select schedules or callers:

- `UseAfterClose`: callers operate on handles they have closed.
- `StaleRelease`: `Close` may store `closeReq` between the decrement of a release
  and its read of `closeReq`. The code does not prevent that. With `FALSE` the
  model has the remaining schedules, in which the seam is shown to keep its
  promise; with `TRUE` it does not (see the findings).

A goroutine that is inside a call has weak fairness (the Go scheduler is
preemptive and the locks are held only around libyang calls that return), and so
do finalizers of unreachable objects (`Reclaimed` is about programs that live on
long enough for a collection; Go does not promise to run a finalizer at exit).
Nothing obliges a goroutine to start a call.

### DataTree

The schema is fixed: a top-level container with a leaf and a user-ordered list,
whose entries hold another user-ordered list. That gives top-level siblings,
siblings of different schema rank, and two levels of lists, which is what
re-anchoring and `nth` distinguish. `tops` is the set of sibling chains in C
memory, `tree` the node a `RawDataTree` points to, `gen` its generation, `list`
a borrowed handle with its generation, parent pointer and list name. The libyang
operations on nodes (insert in schema order, before, after, unlink, free) are
external definitions. `PartialFailure` and `KeepConsumed` enable the two
behaviours of the findings. A caller may not create nodes in a closed tree: the
code would let it and nobody would free them.

### SchemaContext

A module object is a record under its key, name and revision; `order` is
`loadOrder`; `modules` and `byNS` are the defaults. A *source* is a file or a
string: what it declares, its directory, its imports, which imports its
amendments and its leafrefs name, whether a leafref dangles, whether it
parses, and whether it includes a submodule that cannot always be read. A context
under construction has one user, so a load is not interleaved with other calls,
but it is divided into steps (`loadImport`, `bindImport`, `loadReturn`, `loadIncludes`) each
of which may fail, and `snap` is the snapshot that `Fail` restores. `rebuild`
is one turn of the loop of `rebuildIfDirty`: unknown features fail; targets of
amendments are promoted; `resolveLeafRefs` walks once in load order; the loop
ends when no amending module was promoted meanwhile. `user` is the caller who
waits for it. The only fairness is that a call that has begun goes on.

### The toolkit

The rest of the schema layer, the data tree and the facade are sequential
programs over data. Each is modelled as a part with its own variables and
actions: the calls, passes and phases of the code that leave a state between
them. A behaviour is about one part. Its first step, `Ask...`, takes a question
(a schema, a document, a text, a sequence of calls still to choose) into `probe`;
the steps that follow are the code's; the property compares each state with a
definition of what the answer means, written without the order, the memos and
the intermediate forms of the code. `MCToolkit` has the questions and puts the
parts side by side, so one run checks them all, and one TLC start is shared.

`Compute(f, args)` (and `ComputeView`, `ComputeXml`) is operator `f` applied to
`args`. Actions and properties reach deeply recursive operators through these
constants, which the MC modules define by name, because TLC's coverage expands
every definition below an action once per use. `Concat` flattens with a fold
because TLC evaluates a function constructor anew at every use.

What corresponds to what:

- **`SchemaBuild`**: `stage` is where `Context.rebuild` is; `forest` the module
  roots, `pending`, `kept` and `moved` a pass of `applyAugments`, `meter` the node
  budget and the errors. `BuildModule` is `buildIR` (statement by statement, in
  `SchemaNodes`), `ResolveAugment` and `EndAugmentPass` are
  `applyResolvableAugments`, `CollectDeviations`, `ValidateSchema` and
  `ValidateGroupingBodyTypes` the phases after; the last builds the body of every grouping
  once more, charges the budget for it and checks its names and defaults. Reference: the set of nodes a schema has, by ways from the top, as a
  least fixpoint over augments.
- **`SchemaTypes`**: actions are the passes (`ParseNodeType`,
  `ValidateTypedefType`, ...), one node or typedef a step, in load order.
  Reference: a type means the values each statement on its chain leaves.
- **`Features`**, **`Leafrefs`**: one statement or leafref a step, with the memo
  or the table of targets as state. References: truth of an expression by its
  weakest operator, with the least cycle; the data node a path reaches.
- **`Projection`**, **`SchemaDiff`**, **`SchemaViews`**: a path a step. References:
  the nodes the options describe; the facts on which two schemas differ.
- **`ForestReaders`**: `LockForest`, `BuildLocked`, `Unlock`, `EndRead` of any number
  of readers interleave with loads; `Forested` stands for the walk.
- **`Forest`**, **`CompiledNodes`**: the walk is `BuildForest`, one node of it
  `RawAttributes` (the cgo seam) and `Attributes` (the public accessors). A
  compiled node is external: `CompileNode` encodes a statement in libyang's codes, its
  flags, which share bits between kinds of nodes, and its 64-bit cells (here of
  `2 * (WordMax + 1)` values). The statement stays with the node under `said`,
  which only the properties read. Reference: what was said, and parent, children, keys,
  targets and owners as libyang has compiled them; a canonical value reads as the
  value, and a decimal is printed as it was read; the legacy `SchemaTree` is the data
  part of the forest.
- **`PureTree`**, **`DataValues`**, **`XmlDocuments`**, **`InstanceIds`**: parse, fill in defaults (again and
  again), read and rewrite XML. References: values by what they denote; defaults
  and violations node by node, without levels; the same document in JSON.
- **`XPath`**, **`XPathEval`**: parse, evaluate, check conditions. References: an
  expression by its weakest operator; XPath 1.0 by sets of nodes.
- **`Patterns`**: compile, then a match by length, by a class, by the native engine, or
  rune by rune with residuals, and the native engine again at a limit.
  Reference: the language of the expression.
- **`CompatModules`**: any sequence of `MaxFacadeCalls` calls on a module set.
  References: records, names and namespaces of the sources given so far, entries of
  the latest context. **`CompatNodes`** states the three tables (fields, filled,
  cloned) of every kind of node; **`CompatAST`** walks them.
- **`EntryTree`**: an entry is a number; `dirOf`, `orderedOf`, `parentOf`, `nameOf`, `extraOf` are
  fields of `Entry`, `rpcOf` and `ioOf` the `RPCEntry` that copies share, `nodeOf` the rest.
  The recursions of the code are sequential, so `work` holds what the call under
  way has still to do and a step does the first of it: one statement
  (`BuildEntry`, `BuildUses`), one part of a path (`Walk...`), one child to copy or merge
  (`Copy`, `Merge`), one choice to fix (`WrapCase`), one deviate (`Deviate...`). The
  caller may call `ToEntry` on any module and `Augment`, `ApplyDeviate`, `FixChoice`
  and `Find` on any root, in any order. A removed child leaves a null in its place in `orderedOf`
  where the code shifts, which no caller can tell apart.

The only fairness is `BuildFairness`, that a rebuild that has begun goes on
(`rebuild` is a loop that waits for nothing).

## Runs

| Run | Question | Bounds |
|---|---|---|
| `seam_safety` | Is the reference count exact, does the context outlive its holders, does the seam implement `ContextLifecycle`? | 2 goroutines + finalizer, 2 handles: two parties on either side of every pair of atomics, an insert of one tree into another |
| `seam_racing` | Destroyed once, no leak, reclaimed in the end, loads alone, with every schedule of `Close` and callers that reuse closed trees | 2 goroutines + finalizer, 1 handle; no symmetry, because of liveness |
| `seam_stale_release`, `seam_fail_closed`, `seam_shell_freeze` | findings | as above |
| `datatree` | Ownership, freshness of handles, positions | 2 trees, 2 handles, 6 nodes, 3 mutations: borrow, change elsewhere, use |
| `datatree_partial`, `datatree_consumed` | findings | as above |
| `context_loading` | Transactionality, imports, defaults, namespaces, amendments, freeze, termination | 6 sources, 2 builder copies, both modes, `AllImplemented` on and off, 3 calls that load or configure (reads, builds and closes are free) |
| `context_import_cycle`, `context_leafref` | findings | 4 calls |
| `toolkit` | Does each part of the toolkit compute what its reference says, in every order of modules, siblings, readers and calls? | see below; 62838 states |

Questions of `toolkit`: builds of three modules whose augments wait for each
other in four load orders, with limits around the exact cost, in the check of grouping bodies too, refines,
deviations, clashes, also in groupings that nothing uses, lenient mode; tokens around every boundary of types with words of three digits
(`WordMax`), three at a time; all documents over a choice schema,
pairs of list entries, and absent containers; three compiled contexts, the largest of two
modules and an older revision, with a node of every kind and a leaf of every family of types with bounds at the ends of a word, and two
readers; typedef chains of three levels in three modules with ranges of a
small set; feature expressions over two modules and two submodules; leafrefs
of two modules in every order; 5 runes plus newline, counts up to 3, words up to
the length that reaches every limit; 4 facade calls on 7 sets of sources; Entry trees of up to 40 entries, from
statements and from compiled schemas, with 3 calls in any order (an augment into an
augment, a deviation and a fixed choice need three); XPath texts
of up to 3 words; XML documents in 6 spellings, 4 elements deep (the limit).

The bounds hold the cases that matter. For instance, three loading calls suffice
to load an older revision import-only, promote it by a reload that fails in its
include, and look at the result; and to switch the mode, add a directory and
load a cycle. Symmetry is used for goroutines, handles and nodes in runs without
liveness properties. Deadlock is checked for the seam (where `LiveOn` is the
intended end) and off for the other modules, whose bounded calls run out or whose
questions are answered.

Every property has a mutant in `PROJECT.json`: a plausible mistake in one mapped
definition (an operator just before it), under which TLC finds the property
violated.

| Property of `toolkit` | Says |
|---|---|
| `AugmentsPlaced` | every augment whose target exists in the end is applied, whatever the load order; siblings stay in rank order |
| `BudgetExact` | no node is built beyond the limit; a build is stopped exactly when the schema counts more nodes than the limit, each statement once per instantiation and per check of its grouping's body; what is in a choice below the top level may count twice (see the observations) |
| `AcceptedSchemaSound` | a schema accepted after deviations keeps the rules of YANG on names, keys, config, bounds and defaults, and its groupings, used or not, those on names |
| `RebuildEnds` | every rebuild ends |
| `LeafTypesExact` | types, kept defaults and derived identities are what the statements mean; a refusal has a reason in one statement |
| `ReferencesExact`, `PatternExact`, `XPathExact` | features and leafrefs, patterns and paths: answers, errors and cycles are those of the reference |
| `ViewsExact` | projections hold the nodes and roles the options describe, siblings and roots in schema order whatever the order of the paths (but for the roots below); nested and flat forms; differences of schemas |
| `ForestExact`, `HandlesCurrent` | the forest is libyang's schema, structure, attributes, types and values; readers see one forest per load, and a current one |
| `ValuesExact` | canonical forms and keys agree exactly for equal values; order is total on values |
| `TreesExact`, `ValidateExact` | the tree does not depend on the order of input and survives a round trip, and defaults in use are filled in; what is reported is what is broken |
| `EncodingsAgree` | a document means the same in XML with any prefixes as in JSON, and is rewritten as itself; required instances are missed exactly when absent |
| `FacadeConsistent`, `AstExact` | records, cache and entries after any calls; trees, clones and lookups |
| `EntriesSynced` | in every state of every call: `EntriesLinked` (what an entry has in order has it as parent and stands there once; `Dir` has the last of these children for each name and nothing else; every entry has a root above it), and `Dir` and the order have the same children, unless the module has two siblings of one name or the entry is a raw operation with both an input and an output |
| `ChoicesSettled` | between calls: below the entry of the last `FixChoice`, a choice without errors has only cases in `Dir`, and in order too where no two children share a name |
| `EntriesSettled` | between calls: every augment is pending or was applied to one entry, which has its children; what `Find` returns has the path's names above it; what is below an output of a compiled schema is read-only |

### Refinement

`KeepsLifecycle` in `RawContext` is the specification of `ContextLifecycle` under
a mapping: the phase is `dead` once `destroyed` is set, `closing` once
`closeReq` is, and the holders are the calls admitted by `acquire` and the handles
not yet released. It is checked without `StaleRelease` and without
`UseAfterClose`.

## Proofs

For any finite sets of goroutines and handles (`RawContext_proofs`); for any names, revisions, finite set of
sources, copies of the builder and number of calls (`SchemaContext_proofs`,
`SchemaContext_index`); for any nodes, trees, documents, handles and number of
mutations (`DataTree_proofs`); for any readers and compiled contexts (`ForestReaders`);
for any modules, paths, numbers of entries and of calls (`EntryTree_proofs`):

| Theorem | States | Assumes |
|---|---|---|
| `TypeCorrect` | `[]TypeOK` of `RawContext` | – |
| `LiveIsExact` | `[]LiveCounts`: `live` is the number of calls and objects that must release it | callers do not use closed handles |
| `HoldersKeepContext` | `[]ContextOutlivesHolders` | the same, and no `StaleRelease` |
| `NoCallAfterDestroy` | `[]NoUseAfterDestroy` | the same |
| `DestroyAtMostOnce` | `[]DestroyedOnce` | – |
| `NothingLeaks` | `[]NoLeak`: a closed context that nothing uses has been destroyed | callers do not use closed handles |
| `LoadRunsAlone` | `[]LoadsAlone`: until `Close`, no parse and no tree during a load | the same |
| `SeamKeepsLifecycle` | `KeepsLifecycle`: `RawContext` implements `ContextLifecycle` | the same, and no `StaleRelease` |
| `LoadsAreTransactional` | `[]FailedLoadInvisible` | – |
| `NamespacesAreOwned` | `[]NamespaceOwned` | – |
| `FrozenContextsAreReadOnly` | `FrozenIsReadOnly` | – |
| `ImportsAreBound` | `[]ImportsBound`: between calls every import is bound to a loaded module of its name, of its pinned or the newest registered revision | – |
| `DefaultsAreBest` | `[]DefaultIsBest`: the default of a name or a namespace is its newest implemented revision, or its newest | – |
| `AmendmentsAreComplete` | `[]AmendmentsComplete`: a clean context has applied the amendments of its implemented modules and implemented what they name | – |
| `EveryNodeOwned` | `[]SoleOwner` of `DataTree` | no diff fails half way, handles of a tree that was given away are dropped |
| `ListParentLinked` | `[]FreshListIsLinked` | the same |
| `AcceptedHandleCurrent` | `[]FreshMeansUnchanged` | the same |
| `PositionsCountEntries` | `[]Positional`: the nodes of an accepted handle are the entries of its list, in document order | the same |
| `ReadersShareForest` | `[]HandlesCurrent` of `ForestReaders` | – |
| `TreesStayLinked` | `[]EntriesLinked` of `EntryTree`, the conjunct of `EntriesSynced` that holds for all modules | – |
| `FixedChoicesStay` | `[]ChoicesSettled` of `EntryTree` | – |

The assumptions on the constants say what the parameters are: the kinds of nodes
are disjoint and a document is a tree of them, a source is a record of the fields
the code reads and there are finitely many, revisions are numbers (0 is none), the
null values are none of the others. The two conditions on
`DataTree` are the two findings `datatree_partial` and `datatree_consumed`, whose
runs show the theorems false without them.

**The count and the destroy.** None of the safety invariants is inductive alone.
`IInv` adds what each label says of the call at it (`OpsAtLabels`), what a
goroutine knows of its handles (`Hands`: a consumed entry is open until its
compare-and-swap, a handle being created is unborn), that a handle is in the
hands of one goroutine (`Exclusive`), the count itself (`LiveCounts`), and
`DrainInv`: at the labels where a goroutine has read `live = 0` and at those after
which it destroys, nothing holds the context and nothing can begin to. The
argument: `live = 0` and the exact count give an empty set of holders
(`ZeroDrains`); with `closeReq` set, `acquire` cannot admit anybody, so *drained*
is stable (`DrainedStep`); for the finalizer, which does not look at `live`,
unreachability gives the same (`GoneStep`). `IInvStep` has one step per conjunct,
each by the labels. `StaleRelease = FALSE` is needed exactly where the release
reads `closeReq`. `DestroyAtMostOnce` has its own small invariant on the
compare-and-swap. So has `NothingLeaks` (`LeakInv`: while `live = 0` in a closed
context somebody is at one of the labels that lead to the destroy), which needs no
assumption on `Close`: the race that destroys too early never destroys too late.

**Loads.** `LoadInv` adds the lock (`Locks`), that an existing tree or diff means a
frozen context, or one whose freeze is the next step of a goroutine that still
holds `loadMu` (`Frozen`), that `acquire` fails only after `Close`, so that shells,
which freeze without the lock, come after it (`FailsClosed`), and with these that
no freeze overtakes a load that has looked at `frozen` (`Unfrozen`).

**Refinement.** By `IInv`: passing the second check of `acquire` is `Enter`, a
retain is `Spawn` (the call or the tree that makes the object is a holder; a shell
is a stutter), a release is `Leave`, the `closeReq` store is `Close`, the first
compare-and-swap is `Die`, and everything else leaves phase and holders alone.

**Schema context.** The invariant says what `snap` is worth: during a load, what it
would restore is exactly what the call found (`Transactional`), and its modules own
their namespaces like the loaded ones (`Registry`); a rebuild does not run in a
load, and nothing runs in a frozen context (`Serial`). Every failing branch then
ends in the state of `before`, every module that is added has passed
`namespaceOwner`, and in a frozen context every action but `Close` is disabled.

**Imports, defaults, amendments.** `JInv` says it of every state, inside calls too
(where the properties are silent). `Current`: keys and modules have their types,
`order` lists each loaded module once (`Enumerated`), a default is loaded and no
loaded module of its name beats it (`Unbeaten`), every import that has been bound
is bound as it resolves. `InLoad`: the modules being loaded form a chain, each
waiting for the import that the next one resolves (`Waiting`), and what `snap` would
bring back is as good as what was there (`Restorable`); without the chain the return
of a load could bind anything. Promotion and
`setDefault` keep `Unbeaten` because implemented beats not implemented and newer
beats older, a total order on the revisions of a name (`Better`). The amendments are a
fixed point: each round of the loop that is not the last implements another loaded module, and
there are `Len(order)` of them (by cardinality), so the rounds the model writes down are
enough; `applied` is then closed under the targets of the implemented modules. The
recursive function that counts the rounds is reasoned about by its defining equation,
which holds because it recurs on smaller numbers.

**Nodes and handles.** `IInv` of `DataTree` is `TreeInv` (types; `Shaped`: the sibling
chains and `kids` are a forest in which a node occurs once and kinds nest as the schema
says; `Anchored`: every open tree points to the head of a chain of its own; `Owned`: every
chain has a tree, except what a refused insert leaves behind) with `HandleInv` (a handle is on a tree
that exists, at a generation not later than the tree's) and the link of list
parents. `DataTree_nodes` has what each libyang edit keeps of `Shaped`: inserting a
node whose subtree is outside, removing the first of a chain, pruning a subtree. The step
of each operation (`Step`) then leaves each tree as it is, or moves its generation, or
leaves no handle on it; a new handle is at the current generation. The frame, that the
chains and subtrees of the other trees are not touched, comes from `Shaped` and `Anchored`.
`FreshMeansUnchanged` needs all of it at once: an operation on one tree that reached
a node of another would change what a handle on the other sees without moving its generation.

**Positions.** `Positional` says that the nodes a handle counts are the entries of its list name
that the raw parent has (or the top level), in document order. With the link of list parents
and `Shaped` this is a statement about filters of one sequence: filtering by name and
by parent keeps order and length, position `i` of the filtered list is the entry with `i - 1`
entries before it, and an edit of the sequence edits its filter. `Filtered` is a recursive
function on lengths, since the prover treats `SelectSeq` as uninterpreted; the lemmas on
it are inductions over the length, done as inductions over the finite set of the
lengths that fail (`SetInduction`).

**Entry trees.** `EntriesInv` is `Trees`: pointers are to allocated entries or null (`Allocated`), each
`OrderLinked` and `LastInDir` hold (`Linked`), and every nonempty set of entries has one whose parent
is outside it (`NoCycle`); with `Referring`, the module records and the `RPC` entries
are allocated, and `OnEntries`, so are those the remaining `work` names. `NoCycle` is the form of acyclicity
the steps keep: a new entry (`Born`) is a leaf, nothing has it as parent yet, and a set with it and others has
the member of the others; `Wrapped` puts a case between a choice and its child, and a set's member
before the step is its member after it, or the case is. There is a lemma for each way a tree
changes (`Born...`, `Removed...`, `Wrapped...`), one for each way `work` does, and a step lemma for each
group of actions. That the model's `UnderRoots` is then everything (`AllUnderRoots`) is the pigeonhole: the
entries reached after `n` levels grow with `n` until nothing is left, since a rest
would have a member with its parent outside the rest.
`LastInDir` holds because every writer treats both records alike: `add` appends and
overwrites, `delete` removes all children of a name, `implicitCaseForChoiceChild` replaces
the child in both. That no two children of an entry share a name, which `EntriesSynced` adds for modules
that are like that, depends on `merge`: its guard refuses a child whose name is there, and the mutant
without it keeps `EntriesLinked` and breaks `EntriesSynced`.

**Fixed choices.** `ChoicesSettled` is about the moment between calls, so `FixInv` says what holds in the
middle of one: there is a set `F` of entries that the call is done with, each
of them no choice with another child than a case, whose children are in `F` or among the entries
that `work` has still to fix, and so is the entry of the call. `FixChildren` moves its entry into `F`; `WrapCase`
takes its own out, if it was there, since a case was put in below it. Afterwards `ToEntry` may
build other modules while the property still speaks of the last call: the entries `work` builds on are
new, so not in `F` (`BuildFixes`). When `work` is empty `F` is closed under children, and
has all of `EntriesBelow`, the recursion `GetErrors` makes (`BelowWithin`). `ToWrap` looks at `Dir`, as the
code does; that the children in order are cases too where their names differ follows from
`Linked` (`NamedOnce`).

**Readers.** `ReadersInv`: the readers in the critical section are those whose label says
so, one at most; the forest that is kept is the one made by the last build, for the
current loads; a forest that was handed out is the one kept, unless a load has come
since. No load happens during a read (the documented contract, and the guard of `Load`),
so a handle in use stays on the forest that is kept.

Model-checked only: liveness under fairness (`Reclaimed`, `CallsReturn`,
`RebuildEnds`), which the prover does not do; `EntriesSettled` and what `EntriesSynced` adds to
`EntriesLinked`, which relate the trees to the statements they were built from; and the
properties of the other parts of the toolkit, which compare recursive definitions
over schemas, documents and texts: what they compute for every input is an induction over data, and
the modules declare `RECURSIVE` operators, which the prover's arithmetic does not
accept. `ForestExact` is one of these; `ReadersShareForest` takes the content of a forest
as whatever the walk gives.

## What was found

Each is a run that TLC ends with a counterexample.

- **Stale release** (`seam_stale_release`). The decrement of `release` and its
  read of `closeReq` are two atomics. Release to 0, another goroutine creates a
  tree, `Close` sees `live = 1` and defers, the first goroutine reads
  `closeReq = 1` and destroys the context under the tree.
- **Schema walks do not acquire** (`seam_fail_closed`), contrary to ADR 0005.
- **A shell freezes without the lock** (`seam_shell_freeze`): a parse can skip
  `loadMu` while a load compiles.
- **A diff that fails half way** (`datatree_partial`) changes the tree and leaves
  handles valid.
- **A consumed tree keeps its generation** (`datatree_consumed`): list handles
  borrowed from it are still accepted.
- **Import cycles by reloading** (`context_import_cycle`) are accepted in strict mode.
- **Leafrefs of late promotions** (`context_leafref`) do not promote what they name.

### Observations

Met while modelling, without a run of their own. The models do what the code
does, or the questions avoid the case (the MC modules say which).

Four of them contradict what a comment or a test of the repository says where a property
above states it, so the property names the exception and claims the rest in full:

- `SetMaxSchemaNodes` counts each statement once per instantiation
  (`schema_budget.go:54-57`), but a choice below the top level is built twice. `BudgetExact` is the
  documented count up to `Repeated`, what these choices add; without such a choice it is exact.
- `ProjectSchemaPaths` promises the order of the schema (`schema_projection.go:168-170`), but roots that are
  not top-level nodes of the module stay in the order of the paths. `ViewsExact` demands
  schema order of all siblings and roots; two roots of this kind are asked for in that order only.
- `entry.go:1782-1785` says that the builders keep `Dir` and `ordered` in sync, and
  `ordered_fallback_internal_test.go:107-129` tests it on one module, but a raw operation with both an input and an
  output, two statements without a name, keeps the input in order only, as siblings of
  one name do. `EntriesSynced` excepts these (`TwoSides`, `distinct`).
- `FixChoice` is said to insert the missing cases (`entry.go:1830`), but it
  looks at `Dir`, so of two children of a choice that share a name the first stays in order
  without a case. `ChoicesFixed` excepts choices with such children (`OneNameEach`).

**Seam and data trees.** An insert refused for a document with several
top-level nodes frees the first only (hence the exception in `SoleOwner`);
`InsertLast` accepts any child kind of the parent; a handle on a top-level list
has no parent and can never insert, but consumes the entry;
`UserOrderedView.Len` and `Get` count siblings of other kinds, unlike `nth`;
`ValidateCollect` advances the generation always and `Validate` only on success.

**Context.** `SetValidationMode` and `SetMaxSchemaNodes` do not mark the schema
for a rebuild, the other settings do; a failed rebuild keeps its promotions.

**Trees, augments, deviations.** `buildChoiceSeen` builds a choice below the top level
twice, so nested choices cost up to 2^depth. Shorthand children of a top-level
choice, and choices directly in a choice, get no implicit case. An unprefixed step matches the first
sibling of any module, without backtracking. A deviate that replaces `min` and
then `max` checks after each, so the order decides. A uses-augment of a
node excluded by a feature is an error, a refine of one is not.

**Types.** Segments such as `min | 0` or `..max | max` of lengths and decimals
are accepted; `max..<largest>` is refused; a decimal64 default without a range is
not held against 64 bits; a derived identityref with new bases needs any of the
old ones; `type` under a typedef of a union and `fraction-digits` of a derived type
are ignored.

**Features.** A YANG 1.0 feature named `not`, `and` or `or` resolves on its own and not inside
the nested check. `resolving` keys by module name, so two revisions of a
module may look like a cycle.

**Leafrefs.** A relative path is walked over the schema tree first: a choice or case
with the step's name is taken and never left (`schema_types.go:660` says
otherwise), after `deref()` `..` may be a case, and a relative path to another
module's top level is not found. `deref()` of a later leafref of a foreign typedef is resolved in the
node's module, so the outcome depends on node order.

**Views.** Top-level choices with `FlattenChoices`, and roots in other modules or
operations, come in the order of the input paths. The diff does not see a node that moves between
same-named parents of two modules, an augment replaced by another
module's with the same grouping, or a change of order. `FindPath` drops
an unprefixed first step that is the module's name or prefix.

**Forest.** `Modules` looks modules up by name and revision, a revision of `""` finding
the first; paths carry a prefix on the first step only, so same-named siblings of two
modules have one path; paths into operations are not found; identities of
two revisions overwrite each other. The base of an identity is resolved by the shim to a module's name,
and that name again as a prefix by `normalizeIdentityName`: an import
whose prefix is the name of another imported module captures it (the questions have no such
import). `FindPath` with the module's own name as the only step is the module, not a
top-level node of that name.

**Data tree.** `ApplyDefaults` is idempotent only if no `when` of a default depends
on another default (so the schemas here have none); out-of-range numbers are
normalised although `canonicalToken` says invalid values stay raw; in a union
two values may share a token if an earlier member accepts the later one's canonical form.
List keys and leaf-lists are compared as raw tokens, `unique` by key.

**XML and instance-identifiers.** A prefix that is unbound, or bound to something else, but is
the name of a module is accepted in identityrefs and instance-identifiers,
because a failed lexical reading is read again as JSON (`datatree_xml.go:42-46`
calls prefixes document bindings). Unprefixed names resolve in the default
namespace. Key predicates in another order are another canonical form. An unbound prefix in
an unresolved identifier is an error, and skipped, only if a node is there to compare.
Two modules with one prefix make an identifier unwritable in XML, and its
instance is not checked.

**XPath.** An operator name before `(` is lexed as a function, so `a and (b or
c)` is refused and the condition silently skipped
(`datatree_xpath.go:143-147` cites the rule). Predicates count in the merged node
list of a step, not per context node; node sets after `//` and `|` are not in document
order; a node set is never ordered against a boolean; `substring` rounds the
sum; `node()` as a first step is a call.

**Facade, module set.** A failed `Parse` leaves the earlier statements recorded,
and a retry of the corrected text is a duplicate; `built` stays true, so
`GetModule` says "not found". Recording `m` and then `m@2020` hides the first, the other
order is refused. `FindModuleByNamespace` records import-only modules without
source. Reading a submodule from disk makes later strict `Process` calls fail.
After `ClearEntryCache`, `GetModule("m@2020")` fails.

**Facade, syntax trees.** Lookups match descriptions, types and extension arguments
by name too; a uses is resolved by a top-level name of any kind and keeps
only its last augment; nested groupings are never found through a uses; a leaf-list's defaults lose
their extensions; a submodule's absolute path looks prefixes up in its module's
imports; imports of a hand-made module are lost in lookups from its root;
self-recursive groupings recurse without bound.

**Facade, entries.** `Namespace` looks at the entry and then at the root, not at the entries between. Copies share
`RPC` and `ListAttr` with their original: the input of an augmented action is under the
augment's, and a deviation of the bounds of a copied list changes the original. The raw builder
finds groupings by their local name in the bodies around a uses before it looks at a prefix, and
ignores `refine` and `augment` under a uses; a grouping that uses itself inside a
container recurses without end (the questions have none). A deviate that deletes a bound that
differs reports it and resets it all the same.

## Not modelled

- `DataTree`: contents of duplicates and diffs, conflicts of merges, list keys,
  `AddDefaults` beside a detached entry, shells, moves inside diffs; merge,
  diff, validate and defaults change one node a step.
- `SchemaContext`: submodules beyond the failure of an include, directories
  searched recursively and the current directory, load warnings,
  `RefImplemented` policy, the index by namespace and revision, identityref
  defaults, edits of files between loads (a file may become unreadable).
- Validation collection (`libyang.go:1059`): the context-wide log options under `validateLogMu`.
- Schema build: descriptions, status, extension instances, texts of `when`,
  deviations of types and musts; in the bodies of groupings the types and the keys
  (`parseNodeTypes`, `validateListConstraintTypesFrom`); types that always accept defaults (leafref),
  errors of pattern evaluation in defaults, shadowed typedefs.
- `Patterns`: the byte and work ledgers and the limits on edges, digits and ranges (those on nodes, depth of
  groups and of class brackets, transitions and native instructions are there), Unicode tables, POSIX classes, `^` and `.` as
  class literals, the text handed to the native engine.
- `PureTree`, `XmlDocuments`: lexing of JSON and XML, anydata and anyxml, edits of a tree,
  navigation; conditions in `PureTree` are abstract (the XPath part has the real ones);
  instance-identifiers that are other XPath; the conversion of schema defaults in hex or octal.
- `XPathEval`: numbers other than halves, what `ParseFloat` takes beyond XPath,
  trimming of number texts.
- `CompatModules`: options toggled between `Parse` and `Process`; `PrintNode`.
- `EntryTree`: types, identities, extensions and prefixes of entries, entries of nodes of syntax trees
  (`entryFromASTNode`), `Path`, `Print`, `ResolveLeafref`; two entries that share the array behind
  `Default` or `Errors` after a copy.
- Text in, text out: the YANG parser, the code generator, the printed forms of
  the IR, gNMI, the conformance runner and the commands. They have no interleavings and
  little state, and the repository compares them with libyang and goyang on its fixtures.

## Plan

1. Edits of a pure-Go tree, once the code has them; `ValidateCollect` for the
   shared error log; submodules and include resolution in `SchemaContext`.
2. Entries of the facade's syntax trees; Entry trees against the IR, where the two agree.
3. Proofs: records and cache of the facade (`FacadeConsistent`) with the lookups as
   constants, as `ForestReaders` does it; the budget of a build as an action property of `Admit`.
