----------------------------- MODULE EntryTree -----------------------------
(***************************************************************************)
(* The Entry trees of the goyang-compatible facade (go/compat/entry.go,    *)
(* entry_build.go): projected from the statements of parsed modules or from*)
(* the nodes of a compiled schema, and then changed by their owner with    *)
(* Augment, ApplyDeviate, FixChoice and Find.  An entry has its children   *)
(* twice, by name (Dir) and in order (ordered), and a pointer to its parent*)
(*                                                                         *)
(* The calls are recursive and sequential: work holds what the call under  *)
(* way still has to do, and one step does the first of it.                 *)
(***************************************************************************)
EXTENDS Integers, FiniteSets, Probe

CONSTANTS
    Entries,        \* the entries that may be allocated
    NilEntry,       \* the nil pointer
    EntryPrograms,  \* modules to project and paths to look up, see MCEntries
    MaxEntryCalls   \* bound on the calls on one set of modules

ASSUME NilEntryAssumption == NilEntry \notin Entries

VARIABLES
    entries,    \* the entries allocated so far
    nameOf,     \* Entry.Name
    parentOf,   \* Entry.Parent
    dirOf,      \* Entry.Dir
    orderedOf,  \* Entry.ordered.  A removed child leaves NilEntry in its place
    rpcOf,      \* Entry.RPC, which copies share: the entry it was made for
    ioOf,       \* RPCEntry.Input and Output, of that entry
    extraOf,    \* Augments, Deviations, Deviate and Augmented, by keyword
    nodeOf,     \* the rest of an entry
    roots,      \* the entries kept by module records (Module.entry), by name
    work,       \* what the call under way still has to do
    found,      \* the result of the last Find
    call        \* the last call and its results
links == <<entries, nameOf, parentOf, dirOf, orderedOf>>
evars == <<links, rpcOf, ioOf, extraOf, nodeOf, roots, work, found, call>>

NoDir == [n \in {} |-> NilEntry]
Bind(d, n, e) == [k \in DOMAIN d \cup {n} |-> IF k = n THEN e ELSE d[k]]
Unbind(d, n) == [k \in DOMAIN d \ {n} |-> d[k]]
NoCall == [op |-> "none", on |-> NilEntry, parts |-> <<>>, number |-> 0, processed |-> 0, skipped |-> 0,
           errs |-> {}]

Unallocated(value) == [e \in Entries |-> value]
Sides == {"input", "output"}
NoIO == [side \in Sides |-> NilEntry]
ExtraKinds == {"augment", "deviation", "deviate", "augmented"}
NoExtra == [kw \in ExtraKinds |-> <<>>]
AskEntries == Unasked /\ \E P \in EntryPrograms : Ask("entries", P)

------------------------------------------------------------------------------
(* A statement, or a compiled node.  Of the statements whose argument is a *)
(* path or a qualified name, arg is "" or the name alone.                  *)
NoPath == [abs |-> FALSE, parts |-> <<>>]
NoStatement ==
    [kw |-> "", arg |-> "", pre |-> "", path |-> NoPath, subs |-> <<>>, mod |-> "", conf |-> "", mand |-> "",
     units |-> "", type |-> "", dflts |-> <<>>, min |-> -1, max |-> -1]

(* What is left of a body, and what its statements are built with: the     *)
(* bodies around them that may define groupings, the groupings being       *)
(* expanded, the module that names are resolved in, and the side of an     *)
(* operation they are on.                                                  *)
NoBody == [subs |-> <<>>, scopes |-> <<>>, seen |-> {}, group |-> FALSE, mod |-> "", side |-> ""]

(* Tasks: on an entry e, with another entry x, and what else they need: the*)
(* parts of a path that are left and whether none was taken yet, an option *)
(* of the call (flag), the place of a child, a kind of deviate, a body.    *)
Task(op, e, x) ==
    [op |-> op, e |-> e, x |-> x, parts |-> <<>>, flag |-> FALSE, at |-> 0, how |-> "", body |-> NoBody]
Now(op) == work # <<>> /\ work[1].op = op
Later(tasks) == work' = tasks \o Tail(work)

Program == probe.question
Known(m) == m \in DOMAIN Program.modules

(* A new entry x.  add links it to its parent up; what is not added hangs  *)
(* from up's Augments, Deviations or Deviate.                              *)
NewEntry == CHOOSE e \in Entries : e \notin entries
CanAllocate == entries # Entries
Born(x, name, up, added) ==
    /\ entries' = entries \cup {x}
    /\ nameOf' = [nameOf EXCEPT ![x] = name]
    /\ parentOf' = [parentOf EXCEPT ![x] = up]
    /\ IF added
       THEN /\ dirOf' = [dirOf EXCEPT ![x] = NoDir, ![up] = Bind(dirOf[up], name, x)]
            /\ orderedOf' = [orderedOf EXCEPT ![x] = <<>>, ![up] = Append(orderedOf[up], x)]
       ELSE /\ dirOf' = [dirOf EXCEPT ![x] = NoDir]
            /\ orderedOf' = [orderedOf EXCEPT ![x] = <<>>]

(* keyForChild: a child that is in Dir.                                    *)
InDir(e, x) == nameOf[x] \in DOMAIN dirOf[e] /\ dirOf[e][nameOf[x]] = x
Report(e, errors) == nodeOf' = [nodeOf EXCEPT ![e].errors = @ \cup errors]

(* GetErrors: those of an entry and of what is below it.                   *)
EntriesBelow(e) ==
    LET W[n \in 0..Cardinality(entries)] ==
          IF n = 0 THEN {e}
          ELSE LET S == W[n - 1] IN S \cup UNION {{dirOf[x][k] : k \in DOMAIN dirOf[x]} : x \in S}
    IN  W[Cardinality(entries)]
GetErrors(e) == UNION {nodeOf[x].errors : x \in EntriesBelow(e)}

------------------------------------------------------------------------------
(* Building a tree.                                                        *)
KindOfKeyword(kw) ==
    CASE kw \in {"leaf", "leaf-list"} -> "leaf"
      [] kw \in {"choice", "case", "anydata", "anyxml", "input", "output", "notification", "deviate"} -> kw
      [] OTHER -> "directory"
SchemaKeywords ==
    {"module", "submodule", "container", "list", "leaf", "leaf-list", "choice", "case", "anydata", "anyxml",
     "rpc", "action", "input", "output", "notification", "augment", "deviation", "deviate"}
Apart == {"augment", "deviation", "deviate"}

(* entryForSchemaStatement, and projectNode: in the subtree of an output a *)
(* node that is configuration by default says nothing.                     *)
NoLimit == 99
ConfigOf_Own(s, side) == s.conf     \* without the rule for outputs
ConfigOf(s, side) == IF Program.native /\ s.conf = "true" /\ side = "output" THEN "" ELSE s.conf
EntryNode(x, s, side) ==
    LET bounds == s.kw \in {"list", "leaf-list"} \/ (s.kw = "deviate" /\ {s.min, s.max} # {-1})
    IN  [path |-> s.path, kind |-> KindOfKeyword(s.kw), isDir |-> KindOfKeyword(s.kw) # "leaf", ns |-> "", errors |-> {},
         conf |-> ConfigOf(s, side),
         mand |-> s.mand, units |-> s.units, type |-> s.type, dflts |-> s.dflts,
         attr |-> IF bounds THEN x ELSE NilEntry, hasMin |-> s.min # -1, hasMax |-> s.max # -1,
         min |-> IF s.min = -1 THEN 0 ELSE s.min, max |-> IF s.max = -1 THEN NoLimit ELSE s.max]

BareNode(kind) ==
    [path |-> NoPath, kind |-> kind, isDir |-> TRUE, ns |-> "", errors |-> {}, conf |-> "", mand |-> "", units |-> "",
     type |-> "", dflts |-> <<>>, attr |-> NilEntry, hasMin |-> FALSE, hasMax |-> FALSE, min |-> 0, max |-> NoLimit]

EntriesIdle ==
    /\ entries = {} /\ nameOf = Unallocated("") /\ parentOf = Unallocated(NilEntry)
    /\ dirOf = Unallocated(NoDir) /\ orderedOf = Unallocated(<<>>)
    /\ rpcOf = Unallocated(NilEntry) /\ ioOf = Unallocated(NoIO) /\ extraOf = Unallocated(NoExtra)
    /\ nodeOf = Unallocated(BareNode("directory")) /\ roots = NoDir /\ work = <<>> /\ found = NilEntry /\ call = NoCall

(* The statements of a body, one by one.                                   *)
Body(st, e, body) == <<[Task("build", e, e) EXCEPT !.body = [body EXCEPT !.subs = st.subs]]>>
Building == Now("build") /\ work[1].body.subs # <<>>
Current == Head(work[1].body.subs)
TheRest == <<[work[1] EXCEPT !.body.subs = Tail(@)]>>
BuildDone ==
    /\ Now("build") /\ work[1].body.subs = <<>>
    /\ Later(<<>>)
    /\ UNCHANGED <<links, rpcOf, ioOf, extraOf, nodeOf, roots, found, call>>

InEntry(st, a) ==
    [a EXCEPT !.scopes = Append(@, st), !.seen = {}, !.group = FALSE,
              !.side = IF st.kw \in Sides THEN st.kw ELSE @]
ModuleContext(st) == [NoBody EXCEPT !.scopes = <<st>>, !.mod = st.arg]

(* findGrouping and groupingFromResolver: the innermost body that has a    *)
(* grouping of that local name, then what the module can see.              *)
NoGrouping == [st |-> NoStatement, mod |-> ""]
GroupingsOf(st, local) == {i \in DOMAIN st.subs : st.subs[i].kw = "grouping" /\ st.subs[i].arg = local}
LastOf(S) == CHOOSE i \in S : \A j \in S : j <= i
findGrouping(a, uses) ==
    LET D == {i \in DOMAIN a.scopes : GroupingsOf(a.scopes[i], uses.arg) # {}}
        inner == a.scopes[LastOf(D)]
        seen == <<a.mod, uses.pre, uses.arg>>
    IN  IF D # {} THEN [st |-> inner.subs[LastOf(GroupingsOf(inner, uses.arg))], mod |-> a.mod]
        ELSE IF seen \in DOMAIN Program.groups THEN Program.groups[seen]
        ELSE NoGrouping

(* addGroupingChildren.                                                    *)
BuildUses ==
    /\ Building /\ Current.kw = "uses"
    /\ LET t == work[1]
           g == findGrouping(t.body, Current)
       IN  \/ /\ g = NoGrouping
              /\ Report(t.e, {<<"unknown group", Current.arg>>}) /\ Later(TheRest)
           \/ /\ g # NoGrouping /\ g.st \in t.body.seen
              /\ Report(t.e, {<<"circular group", Current.arg>>}) /\ Later(TheRest)
           \/ /\ g # NoGrouping /\ g.st \notin t.body.seen
              /\ Later(Body(g.st, t.e, [t.body EXCEPT !.seen = @ \cup {g.st}, !.scopes = Append(@, g.st),
                                                      !.group = TRUE, !.mod = g.mod]) \o TheRest)
              /\ UNCHANGED nodeOf
    /\ UNCHANGED <<links, rpcOf, ioOf, extraOf, roots, found, call>>

Excluded(s) == Program.native /\ s.mod \in Program.excluded
BuildNothing ==
    /\ Building /\ Current.kw # "uses"
    /\ Current.kw \notin SchemaKeywords \/ Excluded(Current)
    /\ Later(TheRest)
    /\ UNCHANGED <<links, rpcOf, ioOf, extraOf, nodeOf, roots, found, call>>

(* entryFromStatementWithScopes and projectNode, for one substatement or   *)
(* child: the entry, where it goes, and then its own body.                 *)
BuildEntry ==
    /\ Building /\ Current.kw \in SchemaKeywords /\ ~Excluded(Current) /\ CanAllocate
    /\ LET t == work[1]
           s == Current
           x == NewEntry
           apart == s.kw \in Apart /\ ~t.body.group
           io == s.kw \in Sides /\ ~t.body.group
           owner == IF rpcOf[t.e] = NilEntry THEN t.e ELSE rpcOf[t.e]
       IN  /\ Born(x, s.arg, t.e, ~apart)
           /\ extraOf' = [extraOf EXCEPT ![x] = NoExtra,
                            ![t.e] = IF apart THEN [@ EXCEPT ![s.kw] = Append(extraOf[t.e][s.kw], x)] ELSE @]
           /\ rpcOf' = [rpcOf EXCEPT
                ![x] = IF s.kw = "rpc" \/ (Program.native /\ s.kw = "action") THEN x ELSE NilEntry,
                ![t.e] = IF io THEN owner ELSE @]
           /\ ioOf' = [ioOf EXCEPT ![x] = NoIO, ![owner] = IF io THEN [@ EXCEPT ![s.kw] = x] ELSE @]
           /\ nodeOf' = [nodeOf EXCEPT ![x] = EntryNode(x, s, t.body.side),
                                       ![t.e].isDir = IF apart THEN @ ELSE TRUE]
           /\ Later(Body(s, x, InEntry(s, t.body)) \o TheRest)
    /\ UNCHANGED <<roots, found, call>>

(* entryFromCompatModule, when the record has no entry yet.                *)
NewRoot(m, x) ==
    /\ Born(x, m, NilEntry, FALSE)
    /\ extraOf' = [extraOf EXCEPT ![x] = NoExtra]
    /\ rpcOf' = [rpcOf EXCEPT ![x] = NilEntry]
    /\ ioOf' = [ioOf EXCEPT ![x] = NoIO]
    /\ nodeOf' = [nodeOf EXCEPT ![x] = EntryNode(x, Program.modules[m], "")]
    /\ roots' = Bind(roots, m, x)
RootBody(m, x) == Body(Program.modules[m], x, ModuleContext(Program.modules[m]))

Ready == work = <<>>
ToEntry(m) ==
    /\ Ready /\ Known(m) /\ m \notin DOMAIN roots /\ CanAllocate
    /\ NewRoot(m, NewEntry)
    /\ work' = RootBody(m, NewEntry)
    /\ UNCHANGED <<found, call>>

------------------------------------------------------------------------------
(* Find.  A path is absolute or not and has parts [pre, name].             *)
FindTask(e, path) ==
    [Task(IF path.abs THEN "climb" ELSE "walk", e, e) EXCEPT !.parts = path.parts, !.flag = TRUE]
Walk(e, parts, first) == [Task("walk", e, e) EXCEPT !.parts = parts, !.flag = first]

ClimbUp ==
    /\ Now("climb") /\ parentOf[work[1].e] # NilEntry
    /\ Later(<<[Task("climb", parentOf[work[1].e], parentOf[work[1].e]) EXCEPT !.parts = work[1].parts]>>)
    /\ UNCHANGED <<links, rpcOf, ioOf, extraOf, nodeOf, roots, found, call>>

(* matchesModulePrefix and importedPrefixRoot, at the root of the tree.    *)
matchesModulePrefix(m, pre) == m = pre \/ (Known(m) /\ Program.prefixes[m] = pre)
ImportsNamed(m, pre) ==
    IF ~Known(m) THEN {}
    ELSE {i.name : i \in {j \in Program.imports[m] : j.prefix = pre \/ (Program.native /\ j.name = pre)}}
         \cap DOMAIN Program.modules
AtRoot == Now("climb") /\ parentOf[work[1].e] = NilEntry
FirstPrefix == IF work[1].parts = <<>> THEN "" ELSE work[1].parts[1].pre
ResolveHere ==
    /\ AtRoot
    /\ FirstPrefix = "" \/ matchesModulePrefix(nameOf[work[1].e], FirstPrefix)
    /\ Later(<<Walk(work[1].e, work[1].parts, TRUE)>>)
    /\ UNCHANGED <<links, rpcOf, ioOf, extraOf, nodeOf, roots, found, call>>
ResolveImport ==
    /\ AtRoot /\ FirstPrefix # "" /\ ~matchesModulePrefix(nameOf[work[1].e], FirstPrefix)
    /\ \E m \in ImportsNamed(nameOf[work[1].e], FirstPrefix) :
          \/ /\ m \in DOMAIN roots
             /\ Later(<<Walk(roots[m], work[1].parts, TRUE)>>)
             /\ UNCHANGED <<links, rpcOf, ioOf, extraOf, nodeOf, roots>>
          \/ /\ m \notin DOMAIN roots /\ CanAllocate
             /\ NewRoot(m, NewEntry)
             /\ Later(Append(RootBody(m, NewEntry), Walk(NewEntry, work[1].parts, TRUE)))
    /\ UNCHANGED <<found, call>>
ResolveNothing ==
    /\ AtRoot /\ FirstPrefix # "" /\ ~matchesModulePrefix(nameOf[work[1].e], FirstPrefix)
    /\ ImportsNamed(nameOf[work[1].e], FirstPrefix) = {}
    /\ Report(work[1].e, {<<"no module", FirstPrefix>>})
    /\ found' = NilEntry /\ Later(<<>>)
    /\ UNCHANGED <<links, rpcOf, ioOf, extraOf, roots, call>>

Stop(e) == found' = e /\ Later(<<>>) /\ UNCHANGED <<links, rpcOf, ioOf, extraOf, nodeOf, roots, call>>
GoOn(e) ==
    /\ Later(<<Walk(e, Tail(work[1].parts), FALSE)>>)
    /\ UNCHANGED <<links, rpcOf, ioOf, extraOf, nodeOf, roots, found, call>>
Walked == Now("walk") /\ work[1].parts = <<>> /\ Stop(work[1].e)

Walking == Now("walk") /\ work[1].parts # <<>>
Part == work[1].parts[1].name
SkipsRoot == work[1].flag /\ parentOf[work[1].e] = NilEntry /\ Part = nameOf[work[1].e]
WalkUp ==
    /\ Walking /\ Part = ".."
    /\ IF parentOf[work[1].e] = NilEntry THEN Stop(NilEntry) ELSE GoOn(parentOf[work[1].e])
WalkHere == Walking /\ (Part = "." \/ (Part # ".." /\ SkipsRoot)) /\ GoOn(work[1].e)
WalkDown ==
    /\ Walking /\ Part \notin {".", ".."} /\ ~SkipsRoot
    /\ Part \in DOMAIN dirOf[work[1].e] /\ GoOn(dirOf[work[1].e][Part])

(* The input or output of an operation, made when there is none.           *)
ToIO == /\ Walking /\ Part \notin {".", ".."} /\ ~SkipsRoot /\ Part \notin DOMAIN dirOf[work[1].e]
        /\ Part \in Sides /\ rpcOf[work[1].e] # NilEntry
WalkIO == ToIO /\ ioOf[rpcOf[work[1].e]][Part] # NilEntry /\ GoOn(ioOf[rpcOf[work[1].e]][Part])
syntheticOperationIOEntry ==
    /\ ToIO /\ ioOf[rpcOf[work[1].e]][Part] = NilEntry /\ CanAllocate
    /\ LET x == NewEntry IN
        /\ Born(x, Part, work[1].e, FALSE)
        /\ ioOf' = [ioOf EXCEPT ![x] = NoIO, ![rpcOf[work[1].e]][Part] = x]
        /\ rpcOf' = [rpcOf EXCEPT ![x] = NilEntry]
        /\ extraOf' = [extraOf EXCEPT ![x] = NoExtra]
        /\ nodeOf' = [nodeOf EXCEPT ![x] = BareNode(Part)]
        /\ Later(<<Walk(x, Tail(work[1].parts), FALSE)>>)
    /\ UNCHANGED <<roots, found, call>>
WalkNowhere ==
    /\ Walking /\ Part \notin {".", ".."} /\ ~SkipsRoot /\ Part \notin DOMAIN dirOf[work[1].e]
    /\ Part \notin Sides \/ rpcOf[work[1].e] = NilEntry
    /\ Stop(NilEntry)

EntryCall(op, e, parts) == call' = [NoCall EXCEPT !.op = op, !.on = e, !.parts = parts, !.number = call.number + 1]
MayCall(e) == Ready /\ call.number < MaxEntryCalls /\ \E m \in DOMAIN roots : e = roots[m]
FindEntry(e, path) ==
    /\ MayCall(e) /\ path \in Program.paths
    /\ EntryCall("find", e, path.parts)
    /\ work' = <<FindTask(e, path)>>
    /\ UNCHANGED <<links, rpcOf, ioOf, extraOf, nodeOf, roots, found>>

------------------------------------------------------------------------------
(* Augment: each pending augment of e in turn.                             *)
Augment(e, addErrors) ==
    LET A == extraOf[e]["augment"] IN
    /\ MayCall(e)
    /\ EntryCall("augment", e, <<>>)
    /\ work' = [i \in 1..(2 * Len(A)) |-> LET a == A[(i + 1) \div 2] IN
                  IF i % 2 = 1 THEN FindTask(a, nodeOf[a].path)
                  ELSE [Task("graft", e, a) EXCEPT !.flag = addErrors]]
    /\ extraOf' = [extraOf EXCEPT ![e]["augment"] = <<>>]
    /\ UNCHANGED <<links, rpcOf, ioOf, nodeOf, roots, found>>

(* Not found: it stays pending.                                            *)
Postpone ==
    /\ Now("graft") /\ found = NilEntry
    /\ LET t == work[1] IN
        /\ Report(t.e, IF t.flag THEN {<<"augment not found", nodeOf[t.x].path>>} ELSE {})
        /\ extraOf' = [extraOf EXCEPT ![t.e]["augment"] = Append(@, t.x)]
    /\ call' = [call EXCEPT !.skipped = @ + 1]
    /\ Later(<<>>)
    /\ UNCHANGED <<links, rpcOf, ioOf, roots, found>>

(* merge, and the record of it.  The shallow copy that Augmented and       *)
(* AugmentedBy keep is the augment itself here: nothing else has it.       *)
Graft ==
    /\ Now("graft") /\ found # NilEntry
    /\ LET t == work[1] IN
        /\ nodeOf' = [nodeOf EXCEPT ![found].errors = @ \cup GetErrors(t.x), ![found].isDir = TRUE]
        /\ extraOf' = [extraOf EXCEPT ![found]["augmented"] = Append(@, t.x)]
        /\ Later([i \in DOMAIN orderedOf[t.x] |-> [Task("merge", found, t.x) EXCEPT !.at = i]])
    /\ call' = [call EXCEPT !.processed = @ + 1]
    /\ UNCHANGED <<links, rpcOf, ioOf, roots, found>>

(* dup, for one entry: c becomes a child x of up.  A copy shares RPC,      *)
(* ListAttr, Augments and Deviations with its original.                    *)
Copied(x, c, up, ns) ==
    /\ Born(x, nameOf[c], up, TRUE)
    /\ rpcOf' = [rpcOf EXCEPT ![x] = rpcOf[c]]
    /\ ioOf' = [ioOf EXCEPT ![x] = NoIO]
    /\ extraOf' = [extraOf EXCEPT ![x] = extraOf[c]]
    /\ nodeOf' = [nodeOf EXCEPT ![x] = [nodeOf[c] EXCEPT !.ns = ns]]
CopyTasks(x, c) == [i \in DOMAIN orderedOf[c] |-> [Task("copy", x, c) EXCEPT !.at = i]]

(* The i-th child of x, if x has one that is in its Dir.                   *)
Child(x, i) == IF orderedOf[x][i] # NilEntry /\ InDir(x, orderedOf[x][i]) THEN orderedOf[x][i] ELSE NilEntry
Copying(op) == Now(op) /\ Child(work[1].x, work[1].at) # NilEntry
CopyNothing ==
    /\ Now("copy") \/ Now("merge")
    /\ Child(work[1].x, work[1].at) = NilEntry
    /\ Later(<<>>)
    /\ UNCHANGED <<links, rpcOf, ioOf, extraOf, nodeOf, roots, found, call>>
Copy ==
    /\ Copying("copy") /\ CanAllocate
    /\ LET t == work[1]
           c == Child(t.x, t.at)
       IN  Copied(NewEntry, c, t.e, nodeOf[c].ns) /\ Later(CopyTasks(NewEntry, c))
    /\ UNCHANGED <<roots, found, call>>

(* merge, for one child: what the target has of that name stays.           *)
MayMerge_Always(e, c) == TRUE     \* what it has of that name is overwritten
MayMerge(e, c) == nameOf[c] \notin DOMAIN dirOf[e]
Merge ==
    /\ Copying("merge") /\ CanAllocate
    /\ LET t == work[1]
           c == Child(t.x, t.at)
       IN  /\ MayMerge(t.e, c)
           /\ Copied(NewEntry, c, t.e, nameOf[call.on]) /\ Later(CopyTasks(NewEntry, c))
    /\ UNCHANGED <<roots, found, call>>
MergeDuplicate ==
    /\ Copying("merge")
    /\ LET t == work[1]
           c == Child(t.x, t.at)
       IN  ~MayMerge(t.e, c) /\ Report(t.e, {<<"duplicate node", nameOf[c]>>}) /\ Later(<<>>)
    /\ UNCHANGED <<links, rpcOf, ioOf, extraOf, roots, found, call>>

------------------------------------------------------------------------------
(* FixChoice.                                                              *)
FixChoice(e) ==
    /\ MayCall(e)
    /\ EntryCall("fix", e, <<>>)
    /\ work' = <<Task("fix", e, e)>>
    /\ UNCHANGED <<links, rpcOf, ioOf, extraOf, nodeOf, roots, found>>

ToWrap(e) ==
    {n \in DOMAIN dirOf[e] :
        nodeOf[e].kind = "choice" /\ nodeOf[e].errors = {} /\ nodeOf[dirOf[e][n]].kind # "case"}

(* implicitCaseForChoiceChild: the case x between a choice e and its child *)
(* c, in the place of c.                                                   *)
Wrapped(e, n, c, x) ==
    /\ entries' = entries \cup {x}
    /\ nameOf' = [nameOf EXCEPT ![x] = n]
    /\ parentOf' = [parentOf EXCEPT ![x] = e, ![c] = x]
    /\ dirOf' = [dirOf EXCEPT ![x] = Bind(NoDir, n, c), ![e] = Bind(dirOf[e], n, x)]
    /\ orderedOf' = [orderedOf EXCEPT ![x] = <<c>>,
                        ![e] = [i \in DOMAIN orderedOf[e] |-> IF orderedOf[e][i] = c THEN x ELSE orderedOf[e][i]]]
WrapCase ==
    /\ Now("fix") /\ CanAllocate
    /\ \E n \in ToWrap(work[1].e) :
        LET c == dirOf[work[1].e][n]
            x == NewEntry
        IN  /\ Wrapped(work[1].e, n, c, x)
            /\ nodeOf' = [nodeOf EXCEPT ![x] = [BareNode("case") EXCEPT !.conf = nodeOf[c].conf]]
            /\ rpcOf' = [rpcOf EXCEPT ![x] = NilEntry]
            /\ ioOf' = [ioOf EXCEPT ![x] = NoIO]
            /\ extraOf' = [extraOf EXCEPT ![x] = NoExtra]
    /\ UNCHANGED <<roots, work, found, call>>

(* Then its children; those of Dir are among those in order.               *)
FixChildren_None ==     \* the recursion is left out
    /\ Now("fix") /\ ToWrap(work[1].e) = {} /\ Later(<<>>)
    /\ UNCHANGED <<links, rpcOf, ioOf, extraOf, nodeOf, roots, found, call>>
FixChildren ==
    /\ Now("fix") /\ ToWrap(work[1].e) = {}
    /\ LET e == work[1].e
           fix(i) == IF orderedOf[e][i] = NilEntry THEN Task("nothing", e, e)
                     ELSE Task("fix", orderedOf[e][i], orderedOf[e][i])
       IN  Later([i \in DOMAIN orderedOf[e] |-> fix(i)])
    /\ UNCHANGED <<links, rpcOf, ioOf, extraOf, nodeOf, roots, found, call>>
FixNothing ==
    /\ Now("nothing") /\ Later(<<>>)
    /\ UNCHANGED <<links, rpcOf, ioOf, extraOf, nodeOf, roots, found, call>>

------------------------------------------------------------------------------
(* ApplyDeviate: each deviation in turn, its deviates by kind.             *)
ApplyDeviate(e, ignoreNotSupported) ==
    LET D == extraOf[e]["deviation"] IN
    /\ MayCall(e)
    /\ EntryCall("deviate", e, <<>>)
    /\ work' = [i \in 1..(2 * Len(D)) |-> LET d == D[(i + 1) \div 2] IN
                  IF i % 2 = 1 THEN FindTask(e, nodeOf[d].path)
                  ELSE [Task("deviation", e, d) EXCEPT !.flag = ignoreNotSupported]]
    /\ UNCHANGED <<links, rpcOf, ioOf, extraOf, nodeOf, roots, found>>

Hows == <<"unknown", "not-supported", "add", "replace", "delete">>
How(arg) == IF \E i \in DOMAIN Hows : Hows[i] = arg THEN arg ELSE "unknown"
Fail(errors) == call' = [call EXCEPT !.errs = @ \cup errors]

StartDeviation ==
    /\ Now("deviation")
    /\ LET t == work[1]
           n == Len(extraOf[t.x]["deviate"])
           deviate(i) == [Task("deviate", found, extraOf[t.x]["deviate"][1 + ((i - 1) % n)])
                            EXCEPT !.how = Hows[1 + (i - 1) \div n], !.flag = t.flag]
       IN  IF found = NilEntry
           THEN Fail({<<"no target", nodeOf[t.x].path>>}) /\ Later(<<>>)
           ELSE /\ UNCHANGED call
                /\ Later([i \in 1..(5 * n) |-> deviate(i)])
    /\ UNCHANGED <<links, rpcOf, ioOf, extraOf, nodeOf, roots, found>>

Deviating(how) == Now("deviate") /\ work[1].how = how /\ How(nameOf[work[1].x]) = how
DeviateNothing ==
    /\ Now("deviate") /\ How(nameOf[work[1].x]) # work[1].how
    /\ Later(<<>>)
    /\ UNCHANGED <<links, rpcOf, ioOf, extraOf, nodeOf, roots, found, call>>
DeviateUnknown ==
    /\ Deviating("unknown") /\ Fail({<<"unknown deviate", "">>}) /\ Later(<<>>)
    /\ UNCHANGED <<links, rpcOf, ioOf, extraOf, nodeOf, roots, found>>

(* delete: out of Dir, and every child of that name out of the order.      *)
Removed(p, n) ==
    /\ dirOf' = [dirOf EXCEPT ![p] = Unbind(@, n)]
    /\ orderedOf' = [orderedOf EXCEPT ![p] = [i \in DOMAIN @ |->
                        IF @[i] # NilEntry /\ nameOf[@[i]] = n THEN NilEntry ELSE @[i]]]
    /\ Report(p, IF n \in DOMAIN dirOf[p] THEN {} ELSE {<<"unknown child key", n>>})
    /\ UNCHANGED <<entries, nameOf, parentOf>>
DeviateNotSupported ==
    /\ Deviating("not-supported")
    /\ LET t == work[1]
           p == parentOf[t.e]
       IN  /\ Fail(IF p = NilEntry THEN {<<"no parent", nameOf[t.e]>>} ELSE {})
           /\ IF p = NilEntry \/ t.flag THEN UNCHANGED <<links, nodeOf>> ELSE Removed(p, nameOf[t.e])
    /\ Later(<<>>)
    /\ UNCHANGED <<rpcOf, ioOf, extraOf, roots, found>>

IsList(e) == nodeOf[e].isDir /\ nodeOf[e].attr # NilEntry
IsLeafList(e) == ~nodeOf[e].isDir /\ nodeOf[e].kind = "leaf" /\ nodeOf[e].attr # NilEntry
Replaced(old, new) == IF new = "" THEN old ELSE new
Erased(old, new) == IF new = "" THEN old ELSE ""
(* The bounds, which copies of an entry share.                             *)
Bounds(e, s, min, max) ==
    LET A == IF IsList(e) \/ IsLeafList(e) THEN nodeOf[e].attr ELSE NilEntry IN
    [x \in Entries |-> IF x # A THEN nodeOf[x]
                       ELSE [nodeOf[x] EXCEPT !.min = IF nodeOf[s].hasMin THEN min ELSE @,
                                              !.max = IF nodeOf[s].hasMax THEN max ELSE @]]
BoundsErrors(e, s) ==
    IF (nodeOf[s].hasMin \/ nodeOf[s].hasMax) /\ ~IsList(e) /\ ~IsLeafList(e) THEN {<<"not a list", nameOf[e]>>} ELSE {}

(* applyAddOrReplaceDeviation.                                             *)
DeviateAddOrReplace ==
    /\ Deviating("add") \/ Deviating("replace")
    /\ LET e == work[1].e
           s == work[1].x
           n == nodeOf[e]
           new == nodeOf[s].dflts
           refused == work[1].how = "add" /\ ~IsLeafList(e) /\ new # <<>> /\ (Len(new) > 1 \/ n.dflts # <<>>)
       IN  /\ nodeOf' = [Bounds(e, s, nodeOf[s].min, nodeOf[s].max) EXCEPT
                ![e].conf = Replaced(@, nodeOf[s].conf), ![e].mand = Replaced(@, nodeOf[s].mand),
                ![e].units = Replaced(@, nodeOf[s].units), ![e].type = Replaced(@, nodeOf[s].type),
                ![e].dflts = IF new = <<>> \/ refused THEN @
                             ELSE IF work[1].how = "add" /\ IsLeafList(e) THEN @ \o new
                             ELSE new]
           /\ Fail(BoundsErrors(e, s) \cup IF refused THEN {<<"default refused", nameOf[e]>>} ELSE {})
    /\ Later(<<>>)
    /\ UNCHANGED <<links, rpcOf, ioOf, extraOf, roots, found>>

(* applyDeleteDeviation: a bound that differs is reset all the same.       *)
DeviateDelete ==
    /\ Deviating("delete")
    /\ LET e == work[1].e
           s == work[1].x
           n == nodeOf[e]
           old == nodeOf[s].dflts
           refused == old # <<>> /\ (IsLeafList(e) \/ n.dflts = <<>> \/ (n.dflts # <<>> /\ n.dflts[1] # old[1]))
           a == nodeOf[n.attr]
           differs == (IsList(e) \/ IsLeafList(e))
                      /\ ((nodeOf[s].hasMin /\ a.min # nodeOf[s].min) \/ (nodeOf[s].hasMax /\ a.max # nodeOf[s].max))
       IN  /\ nodeOf' = [Bounds(e, s, 0, NoLimit) EXCEPT
                ![e].conf = Erased(@, nodeOf[s].conf), ![e].mand = Erased(@, nodeOf[s].mand),
                ![e].dflts = IF old = <<>> \/ refused THEN @ ELSE <<>>]
           /\ Fail(BoundsErrors(e, s) \cup (IF refused THEN {<<"default refused", nameOf[e]>>} ELSE {})
                   \cup IF differs THEN {<<"bound differs", nameOf[e]>>} ELSE {})
    /\ Later(<<>>)
    /\ UNCHANGED <<links, rpcOf, ioOf, extraOf, roots, found>>

------------------------------------------------------------------------------
EntriesNext ==
    \/ AskEntries /\ UNCHANGED evars
    \/ /\ Asked("entries") /\ UNCHANGED probe
       /\ \/ \E m \in DOMAIN Program.modules : ToEntry(m)
          \/ BuildDone \/ BuildUses \/ BuildNothing \/ BuildEntry
          \/ ClimbUp \/ ResolveHere \/ ResolveImport \/ ResolveNothing
          \/ Walked \/ WalkUp \/ WalkHere \/ WalkDown \/ WalkIO \/ syntheticOperationIOEntry \/ WalkNowhere
          \/ Postpone \/ Graft \/ CopyNothing \/ Copy \/ Merge \/ MergeDuplicate
          \/ WrapCase \/ FixChildren \/ FixNothing
          \/ StartDeviation \/ DeviateNothing \/ DeviateUnknown \/ DeviateNotSupported
          \/ DeviateAddOrReplace \/ DeviateDelete
          \/ \E e \in entries : \/ \E path \in Program.paths : FindEntry(e, path)
                                \/ \E b \in BOOLEAN : Augment(e, b) \/ ApplyDeviate(e, b)
                                \/ FixChoice(e)
------------------------------------------------------------------------------
(* The entries with a root above them, at most that many levels up.        *)
Parentless == {e \in entries : parentOf[e] \notin entries}
ChildrenOf(S) == {e \in entries : parentOf[e] \in S}
UnderRoots ==
    LET R[n \in 0..Cardinality(entries)] ==
          IF n = 0 THEN Parentless ELSE LET above == R[n - 1] IN above \cup ChildrenOf(above)
    IN  R[Cardinality(entries)]

(* Whatever was augmented, deviated, fixed and looked up, in any order:    *)
(* every child in order has the entry as its parent, and nothing has it    *)
(* twice; Dir has one of these children for each of their names, the last  *)
(* (add overwrites, merge keeps, delete removes all of a name, FixChoice   *)
(* replaces in both); and every entry has a root above it, so that the     *)
(* recursions over parents and over children end.                          *)
OrderLinked(e) ==
    \A i \in DOMAIN orderedOf[e] : orderedOf[e][i] # NilEntry =>
        /\ orderedOf[e][i] \in entries /\ parentOf[orderedOf[e][i]] = e
        /\ nameOf[orderedOf[e][i]] \in DOMAIN dirOf[e]
        /\ \A j \in DOMAIN orderedOf[e] : j # i => orderedOf[e][j] # orderedOf[e][i]
LastInDir(e) ==
    \A n \in DOMAIN dirOf[e] :
        /\ dirOf[e][n] \in entries /\ nameOf[dirOf[e][n]] = n
        /\ \E i \in DOMAIN orderedOf[e] :
              /\ orderedOf[e][i] = dirOf[e][n]
              /\ \A j \in DOMAIN orderedOf[e] : j > i /\ orderedOf[e][j] # NilEntry => nameOf[orderedOf[e][j]] # n
EntriesLinked == (\A e \in entries : OrderLinked(e) /\ LastInDir(e)) /\ UnderRoots = entries

(* The builders keep Dir and the order in sync (orderedEntryChildPairs): a *)
(* child in order is in Dir, between the steps of a call too, and siblings *)
(* that have names of their own keep them through augments, merges, copies *)
(* and wrapped choices.  Two cases are left out, where the code does keep a*)
(* child in order that Dir has lost: modules with two siblings of one name,*)
(* which no valid schema has; and a raw operation that has both an input   *)
(* and an output, whose entries are named after an argument they lack.     *)
OrderedOnes(e) == ToSet(orderedOf[e]) \ {NilEntry}
OneNameEach(e) == \A x, y \in OrderedOnes(e) : nameOf[x] = nameOf[y] => x = y
TwoSides(e) == {nodeOf[x].kind : x \in OrderedOnes(e)} = Sides /\ {nameOf[x] : x \in OrderedOnes(e)} = {""}
InSync(e) == OrderedOnes(e) = {dirOf[e][n] : n \in DOMAIN dirOf[e]}
EntriesSynced ==
    /\ EntriesLinked
    /\ Asked("entries") /\ Program.distinct => \A e \in entries : InSync(e) \/ TwoSides(e)

(* An entry and those above it, upwards; ReadOnly: the first of them that  *)
(* says decides.                                                           *)
Upwards(e) ==
    LET U[n \in Nat] ==
          IF n = 0 THEN <<e>>
          ELSE LET u == U[n - 1]
                   up == parentOf[u[Len(u)]]
               IN  IF up = NilEntry THEN u ELSE Append(u, up)
    IN  U[Cardinality(entries)]
Says(e) == nodeOf[e].kind = "output" \/ nodeOf[e].conf # ""
ReadOnly(e) ==
    LET u == Upwards(e) IN
    \E n \in DOMAIN u : /\ Says(u[n]) /\ \A m \in 1..n-1 : ~Says(u[m])
                        /\ nodeOf[u[n]].kind = "output" \/ nodeOf[u[n]].conf = "false"

(* Between calls, in whatever order they came: once FixChoice has returned *)
(* every child that Dir has of a choice below its entry is a case, and     *)
(* every child in order is too where no two of them share a name, unless   *)
(* the choice has an error; and what is built elsewhere afterwards does not*)
(* undo it.  (Of two that share a name the code wraps the one in Dir only.)*)
ChoicesFixed ==
    call.op = "fix" =>
        \A e \in EntriesBelow(call.on) : nodeOf[e].kind = "choice" /\ nodeOf[e].errors = {} =>
            /\ \A n \in DOMAIN dirOf[e] : nodeOf[dirOf[e][n]].kind = "case"
            /\ OneNameEach(e) => \A x \in OrderedOnes(e) : nodeOf[x].kind = "case"

ChoicesSettled == Asked("entries") /\ work = <<>> => ChoicesFixed

(* Every augment of a module is pending or was applied to one entry, which *)
(* has its children but for those a deviation removed; what Find returned  *)
(* has the names of the path above it (but for operations: copies share    *)
(* RPC, and the input of an augmented action is that of its original); and *)
(* everything below an output of a compiled schema is read-only.           *)
LastName(path) == path.parts[Len(path.parts)].name
Removes(d) == \E s \in ToSet(extraOf[d]["deviate"]) : nameOf[s] = "not-supported"
DeviationsOf(m) == ToSet(extraOf[roots[m]]["deviation"])
Removable == {LastName(nodeOf[d].path) : d \in {x \in UNION {DeviationsOf(m) : m \in DOMAIN roots} : Removes(x)}}
AppliedOf(r) ==
    UNION {{<<e, a>> : a \in {x \in ToSet(extraOf[e]["augmented"]) : parentOf[x] = r}} : e \in entries}
AugmentsApplied ==
    \A m \in DOMAIN roots :
        /\ Cardinality(AppliedOf(roots[m])) + Len(extraOf[roots[m]]["augment"])
             = Cardinality({i \in DOMAIN Program.modules[m].subs : Program.modules[m].subs[i].kw = "augment"})
        /\ \A p \in AppliedOf(roots[m]) : DOMAIN dirOf[p[2]] \subseteq DOMAIN dirOf[p[1]] \cup Removable

(* A relative path, or one of a module's own: the names without a first    *)
(* that is the root's.                                                     *)
FoundByName ==
    LET names == [i \in DOMAIN call.parts |-> call.parts[i].name]
        u == Upwards(found)
    IN  call.op = "find" /\ found # NilEntry /\ ToSet(names) \cap {".", "..", "input", "output"} = {} =>
          \E k \in {0, 1} : /\ Len(u) + k = Len(names) + 1
                            /\ \A i \in 1..Len(u)-1 : nameOf[u[i]] = names[Len(names) + 1 - i]
                            /\ k = 1 => names[1] = nameOf[u[Len(u)]]
OutputsReadOnly ==
    Program.native =>
        \A e \in entries : (\E x \in ToSet(Upwards(e)) : nodeOf[x].kind = "output") => ReadOnly(e)

EntriesSettled ==
    Asked("entries") /\ work = <<>> => AugmentsApplied /\ FoundByName /\ OutputsReadOnly

------------------------------------------------------------------------------
EntrySpec == Unasked /\ EntriesIdle /\ [][EntriesNext]_<<probe, evars>>
=============================================================================
