---------------------------- MODULE SchemaContext ----------------------------
(***************************************************************************)
(* The pure-Go schema context and its builder (go/cambium/cambium.go):     *)
(* transactional module loading with snapshot and restore, import          *)
(* resolution by catalog, by default module and by search path, the        *)
(* default module of a name and of a namespace, and the rebuild loop that  *)
(* promotes import-only modules to implemented ones until the amendments   *)
(* (augments and deviations) of every implemented module are applied.      *)
(*                                                                         *)
(* A context has one user at a time until it is frozen, so a load runs     *)
(* without interruption; it is split into steps because it may fail at     *)
(* each of them.  A module object (moduleData) is identified by its key.   *)
(***************************************************************************)
EXTENDS Integers, SequencesExt

CONSTANTS
    Names, Revs, Spaces, Dirs,   \* Revs: naturals, 0 for "no revision"
    Sources,        \* YANG sources: records, see IsSource
    Builders,       \* copies of the ContextBuilder value
    Memory,         \* the directory of a source given as a string
    Nil,
    Flags,          \* the values of ContextFlags.AllImplemented to consider
    MaxCalls        \* bound on the calls that load modules or change settings

(* A source: what it declares, where it lies, whether its file is called   *)
(* name.yang (plain) or name@revision.yang, its imports (revision 0: not   *)
(* pinned), which of the imports its amendments and its leafref paths      *)
(* name, whether a leafref dangles, whether it declares the feature, and   *)
(* what is wrong with it: it does not parse, or it includes a submodule    *)
(* whose file cannot always be read.                                       *)
IsSource(s) ==
    /\ s \in [name : Names, rev : Revs, ns : Spaces, dir : Dirs \cup {Memory}, plain : BOOLEAN,
              imports : Seq([name : Names, rev : Revs]), amends : SUBSET Nat, refs : SUBSET Nat,
              dangling : BOOLEAN, feature : BOOLEAN, fault : {"none", "parse", "include"}]
    /\ s.amends \cup s.refs \subseteq DOMAIN s.imports

ASSUME SourcesAssumption == IsFiniteSet(Sources) /\ \A s \in Sources : IsSource(s)
ASSUME RevsAssumption == 0 \in Revs /\ Revs \subseteq Nat
ASSUME FlagsAssumption == Flags \subseteq BOOLEAN
ASSUME ContextNilAssumption == Nil \notin Names \X Revs \cup Sources /\ Memory \notin Dirs
ASSUME MaxCallsAssumption == MaxCalls \in Nat

VARIABLES
    mods,      \* modulesByKey: the module objects that are loaded
    order,     \* loadOrder
    modules,   \* the default module of a name
    byNS,      \* the default module of a namespace
    paths,     \* searchPaths
    features,  \* enabledFeatures: the modules whose feature is enabled
    vendor,    \* validationMode is ValidationVendorCompatible
    dirty,
    allImplemented,
    catalog,   \* sourceCatalog: the registered sources
    frozen, closed,
    built,     \* the builder copies that have built
    importing, \* the modules being loaded, outermost first
    snap,      \* the snapshot of the load in progress, Nil if there is none
    user,      \* who waits for a rebuild: Nil, "reader" or a builder
    applied,   \* the modules whose amendments are in the schema
    before,    \* history: what was visible when the last call began
    result,    \* history: how the last load ended
    calls      \* history: how many calls have loaded or changed settings

index   == <<mods, order, modules, byNS>>
settings == <<paths, features, vendor>>
visible == <<index, settings, dirty>>
phase   == <<frozen, closed, built>>
run     == <<importing, snap, user>>
history == <<before, result>>
vars    == <<visible, allImplemented, catalog, phase, run, applied, history, calls>>

Keys == Names \X Revs
KeyOf(s) == <<s.name, s.rev>>
Key(n, r) == IF <<n, r>> \in DOMAIN mods THEN <<n, r>> ELSE Nil
Best(S) == CHOOSE s \in S : \A t \in S : s.rev >= t.rev
----------------------------------------------------------------------------
Init ==
    /\ mods = <<>> /\ order = <<>>
    /\ modules = [n \in Names |-> Nil] /\ byNS = [x \in Spaces |-> Nil]
    /\ paths = <<>> /\ features = {} /\ vendor = FALSE
    /\ dirty = FALSE /\ allImplemented \in Flags /\ catalog = {}
    /\ frozen = FALSE /\ closed = FALSE /\ built = {}
    /\ importing = <<>> /\ snap = Nil /\ user = Nil /\ applied = {}
    /\ before = <<>> /\ result = "none" /\ calls = 0

Loading == importing # <<>>
Idle    == ~Loading /\ user = Nil

(* Mutant: a copy of the builder looks at its own flag only.               *)
ensureMutable_Copy(b) == Idle /\ b \notin built /\ ~closed

(* ContextBuilder.ensureMutable and Context.ensureMutable.                 *)
ensureMutable(b) == Idle /\ b \notin built /\ ~closed /\ ~frozen

----------------------------------------------------------------------------
(* Settings.                                                               *)
SetSearchPath(b, d) ==
    /\ ensureMutable(b)
    /\ paths' = Append(paths, d)
    /\ UNCHANGED <<index, features, vendor, dirty, catalog, phase, run, applied>>

UnsetSearchPath(b, d) ==
    /\ ensureMutable(b) /\ d \in ToSet(paths)
    /\ paths' = RemoveFirst(paths, d)
    /\ UNCHANGED <<index, features, vendor, dirty, catalog, phase, run, applied>>

SetFeatures(b, n, on) ==
    /\ ensureMutable(b)
    /\ features' = IF on THEN features \cup {n} ELSE features \ {n}
    /\ dirty' = TRUE
    /\ UNCHANGED <<index, paths, vendor, catalog, phase, run, applied>>

(* SetFeaturePolicy, SetDeviationPolicy, SetRefinementPolicy with a policy *)
(* that is not the current one.                                            *)
SetPolicy(b) ==
    /\ ensureMutable(b)
    /\ dirty' = TRUE
    /\ UNCHANGED <<index, settings, catalog, phase, run, applied>>

(* SetValidationMode: the schema is not marked for a rebuild.              *)
SetValidationMode(b, v) ==
    /\ ensureMutable(b)
    /\ vendor' = v
    /\ UNCHANGED <<index, paths, features, dirty, catalog, phase, run, applied>>

(* RegisterSourcePaths: before any module is loaded; two files that        *)
(* declare the same identity are refused.                                  *)
RegisterSourcePaths(b, S) ==
    /\ ensureMutable(b) /\ order = <<>>
    /\ \A s \in S : s.dir # Memory /\ s.fault # "parse"
    /\ \A s, t \in catalog \cup S : KeyOf(s) = KeyOf(t) => s = t
    /\ catalog' = catalog \cup S
    /\ UNCHANGED <<visible, phase, run, applied>>

----------------------------------------------------------------------------
(* Finding a source.                                                       *)

(* registeredSource: the pinned revision, or the newest registered one.    *)
registeredSource(n, r) ==
    LET S == {s \in catalog : s.name = n /\ (r = 0 \/ s.rev = r)}
    IN  IF S = {} THEN Nil ELSE Best(S)

(* findModuleDirect: name.yang comes before the newest name@revision.yang; *)
(* a pinned revision must be the effective one.                            *)
findModuleDirect(d, n, r) ==
    LET S == {s \in Sources : s.dir = d /\ s.name = n}
        P == IF r = 0 THEN {s \in S : s.plain}
             ELSE {s \in S : s.rev = r /\ ~s.plain}
        Q == IF r = 0 THEN {s \in S : ~s.plain}
             ELSE {s \in S : s.rev = r /\ s.plain /\ s.fault # "parse"}
    IN  IF P # {} THEN Best(P) ELSE IF Q # {} THEN Best(Q) ELSE Nil

findSourcePathRevision(n, r) ==
    LET found == {i \in DOMAIN paths : findModuleDirect(paths[i], n, r) # Nil}
    IN  IF registeredSource(n, r) # Nil THEN registeredSource(n, r)
        ELSE IF found = {} THEN Nil
        ELSE findModuleDirect(paths[Min(found)], n, r)

----------------------------------------------------------------------------
(* The transaction.                                                        *)
snapshot == [mods |-> mods, order |-> order, modules |-> modules, byNS |-> byNS,
             paths |-> paths, features |-> features, vendor |-> vendor, dirty |-> dirty]

(* Mutant: the indexes are restored, the module objects are not.           *)
restore_Indexes(s) ==
    /\ mods' = [k \in DOMAIN s.mods |-> mods[k]]
    /\ order' = s.order /\ modules' = s.modules /\ byNS' = s.byNS
    /\ paths' = s.paths /\ features' = s.features
    /\ vendor' = s.vendor /\ dirty' = s.dirty

restore(s) ==
    /\ mods' = s.mods
    /\ order' = s.order /\ modules' = s.modules /\ byNS' = s.byNS
    /\ paths' = s.paths /\ features' = s.features
    /\ vendor' = s.vendor /\ dirty' = s.dirty

(* An error anywhere in a load undoes the load.                            *)
Fail(s) ==
    /\ restore(s)
    /\ importing' = <<>> /\ snap' = Nil /\ result' = "failed"

----------------------------------------------------------------------------
(* The default module of a name or a namespace.                            *)

(* Mutant: the newest revision, implemented or not.                        *)
preferModuleDefault_Newest(M, k, cur) ==
    cur = Nil \/ k[2] >= cur[2]

preferModuleDefault(M, k, cur) ==
    \/ cur = Nil
    \/ M[k].implemented /\ ~M[cur].implemented
    \/ M[k].implemented = M[cur].implemented /\ k[2] >= cur[2]

(* D gives the default of each name, or of each namespace; k belongs to x. *)
preferred(M, D, x, k) ==
    IF preferModuleDefault(M, k, D[x]) THEN [D EXCEPT ![x] = k] ELSE D

registerNameDefault(M, k) ==
    /\ modules' = preferred(M, modules, k[1], k)
    /\ byNS' = preferred(M, byNS, M[k].src.ns, k)

(* The defaults once the modules of S are registered in load order; k      *)
(* belongs to X[k].                                                        *)
preferredInOrder(M, S, D, X) ==
    LET upTo[i \in 0 .. Len(order)] ==
          IF i = 0 THEN D
          ELSE IF order[i] \in S THEN preferred(M, upTo[i - 1], X[order[i]], order[i])
          ELSE upTo[i - 1]
    IN  upTo[Len(order)]

(* markImplemented for the modules of S, which become implemented.  The    *)
(* code marks them as it finds them; the order makes no difference to the  *)
(* defaults, since each place has one best module.                         *)
markImplemented(M, S) ==
    /\ modules' = preferredInOrder(M, S, modules, [k \in DOMAIN M |-> k[1]])
    /\ byNS' = preferredInOrder(M, S, byNS, [k \in DOMAIN M |-> M[k].src.ns])

(* Mutant: only the default modules are asked for their namespace, and     *)
(* only those that are implemented.                                        *)
namespaceOwner_Implemented(s) ==
    byNS[s.ns] # Nil /\ byNS[s.ns][1] # s.name /\ mods[byNS[s.ns]].implemented

(* namespaceOwner: a loaded module of another name has the namespace.      *)
namespaceOwner(s) ==
    \E k \in DOMAIN mods : mods[k].src.ns = s.ns /\ k[1] # s.name

(* equivalentModuleSource: a loaded module may be loaded again from the    *)
(* same file or from one with the same content, never from memory.         *)
equivalentModuleSource(s) ==
    KeyOf(s) \in DOMAIN mods =>
        LET old == mods[KeyOf(s)].src IN
        /\ Memory \notin {old.dir, s.dir}
        /\ [old EXCEPT !.dir = s.dir, !.plain = s.plain] = s

(* loadModuleSource up to its imports; fs is the feature set, sn the       *)
(* snapshot to restore.                                                    *)
loadModuleSource(s, implemented, requested, sn, fs) ==
    IF s.fault = "parse" \/ namespaceOwner(s) \/ ~equivalentModuleSource(s)
    THEN Fail(sn)
    ELSE LET k   == KeyOf(s)
             old == k \in DOMAIN mods
             m   == [src |-> s, bound |-> <<>>,
                     implemented |-> implemented \/ allImplemented
                                       \/ (old /\ mods[k].implemented),
                     requested |-> requested \/ (old /\ mods[k].requested)]
             M   == [j \in DOMAIN mods \cup {k} |-> IF j = k THEN m ELSE mods[j]]
         IN  \E N \in {M} :
             /\ mods' = N
             /\ order' = IF old THEN order ELSE Append(order, k)
             /\ registerNameDefault(N, k)
             /\ paths' = IF s.dir = Memory \/ s.dir \in ToSet(paths) THEN paths
                         ELSE Append(paths, s.dir)
             /\ importing' = Append(importing, k)
             /\ features' = fs
             /\ snap' = sn /\ result' = "none"
             /\ UNCHANGED <<vendor, dirty>>

(* The module on top of importing, and whether it has an import to load.   *)
Top  == Last(importing)
Here == mods[Top]
Done == Len(Here.bound)

(* loadIncludes: an include that fails.                                    *)
loadIncludes ==
    /\ Loading /\ Here.src.fault = "include" /\ Done = 0
    /\ Fail(snap)
    /\ UNCHANGED <<catalog, phase, user, applied, before>>

(* Mutant: an unpinned import takes whatever is loaded.                    *)
importTarget_Loaded(i) ==
    IF i.rev # 0 THEN Key(i.name, i.rev)
    ELSE IF Key(i.name, 0) # Nil THEN Key(i.name, 0)
    ELSE modules[i.name]

(* loadImports: which loaded module an import names.                       *)
importTarget(i) ==
    LET reg == registeredSource(i.name, 0) IN
    IF i.rev # 0 THEN Key(i.name, i.rev)
    ELSE IF reg # Nil THEN Key(i.name, reg.rev)
    ELSE IF Key(i.name, 0) # Nil THEN Key(i.name, 0)
    ELSE modules[i.name]

(* The import of module m is resolved to k; rest is importing without the  *)
(* modules that are done.  An import of a module that is being loaded is a *)
(* cycle: an error, or a warning in vendor-compatible mode.                *)
bindImport(m, k, rest) ==
    IF k \in ToSet(rest) /\ ~vendor THEN Fail(snap)
    ELSE LET mark == allImplemented /\ ~mods[k].implemented
             M == [mods EXCEPT ![m].bound = Append(@, k),
                               ![k].implemented = @ \/ allImplemented]
         IN  \E N \in {M} :
             /\ mods' = N
             /\ IF mark THEN registerNameDefault(N, k) ELSE UNCHANGED <<modules, byNS>>
             /\ importing' = rest
             /\ dirty' = (dirty \/ mark \/ rest # importing)
             /\ UNCHANGED <<order, settings, snap, result>>

(* loadImports, one import: self-imports are errors, a target that is not  *)
(* loaded is looked up and loaded, import-only.                            *)
loadImport ==
    /\ Loading /\ Done < Len(Here.src.imports)
    /\ LET i == Here.src.imports[Done + 1] IN
       \E k \in {importTarget(i)}, s \in {findSourcePathRevision(i.name, i.rev)} :
           IF i.name = Top[1] THEN Fail(snap)
           ELSE IF k # Nil THEN bindImport(Top, k, importing)
           ELSE IF s = Nil THEN Fail(snap)
           ELSE loadModuleSource(s, FALSE, FALSE, snap, features)
    /\ UNCHANGED <<catalog, phase, user, applied, before>>

(* The imports of the innermost module are done: its importer binds it, or *)
(* the load has succeeded.                                                 *)
loadReturn ==
    /\ Loading /\ Done = Len(Here.src.imports)
    /\ LET rest == Front(importing) IN
       IF rest # <<>> THEN bindImport(Last(rest), Top, rest)
       ELSE /\ importing' = <<>> /\ snap' = Nil /\ result' = "ok" /\ dirty' = TRUE
            /\ UNCHANGED <<index, settings>>
    /\ UNCHANGED <<catalog, phase, user, applied, before>>

(* Mutant: the snapshot is taken after the features are set.               *)
LoadModule_LateSnapshot(b, n, r, fs) ==
    /\ ensureMutable(b)
    /\ before' = visible
    /\ LET s == findSourcePathRevision(n, r)
           sn == [snapshot EXCEPT !.features = fs]
       IN  IF s = Nil THEN Fail(sn) ELSE loadModuleSource(s, TRUE, TRUE, sn, fs)
    /\ UNCHANGED <<catalog, phase, user, applied>>

(* ContextBuilder.LoadModule and Context.LoadModule; fs is the feature set *)
(* after the call's own SetFeatures.                                       *)
LoadModule(b, n, r, fs) ==
    /\ ensureMutable(b)
    /\ before' = visible
    /\ \E s \in {findSourcePathRevision(n, r)} :
       IF s = Nil THEN Fail(snapshot) ELSE loadModuleSource(s, TRUE, TRUE, snapshot, fs)
    /\ UNCHANGED <<catalog, phase, user, applied>>

(* LoadModuleFromPath and, for a source in memory, LoadModuleStr.          *)
LoadModuleFromPath(b, s) ==
    /\ ensureMutable(b)
    /\ before' = visible
    /\ loadModuleSource(s, TRUE, TRUE, snapshot, features)
    /\ UNCHANGED <<catalog, phase, user, applied>>

----------------------------------------------------------------------------
(* The rebuild.                                                            *)
Implemented == {k \in DOMAIN mods : mods[k].implemented}
Amending(S) == {k \in S : mods[k].src.amends # {}}
Named(k, I) == {mods[k].bound[i] : i \in I}

(* validateEnabledFeatures: an enabled feature must be declared.           *)
unknownFeature ==
    \E n \in features : modules[n] # Nil /\ ~mods[modules[n]].src.feature

(* implementAmendmentTargets: everything that an amendment of an           *)
(* implemented module names, until nothing changes.                        *)
implementAmendmentTargets(S) ==
    LET round[i \in 0 .. Len(order)] ==
          IF i = 0 THEN S
          ELSE round[i - 1] \cup UNION {Named(k, mods[k].src.amends) : k \in round[i - 1]}
    IN  round[Len(order)]

(* resolveLeafRefs: one walk in load order; the leafref paths of a module  *)
(* that is implemented when the walk reaches it implement what they name,  *)
(* and only in such a module a dangling leafref is an error.               *)
resolveLeafRefs(S) ==
    LET upTo[i \in 0 .. Len(order)] ==
          IF i = 0 THEN [impl |-> S, err |-> FALSE]
          ELSE IF order[i] \notin upTo[i - 1].impl THEN upTo[i - 1]
          ELSE [impl |-> upTo[i - 1].impl \cup Named(order[i], mods[order[i]].src.refs),
                err  |-> upTo[i - 1].err \/ mods[order[i]].src.dangling]
    IN  upTo[Len(order)]

(* Mutant: the loop ends after the first pass.                             *)
settled_Always(am, impl) == TRUE

(* Mutant: the loop waits for every module to be implemented.              *)
settled_Full(am, impl) == am = Amending(impl) /\ impl = DOMAIN mods

(* rebuildIfDirty compares the number of implemented amending modules      *)
(* before and after; they only accumulate, so the sets are compared.       *)
settled(am, impl) == am = Amending(impl)

(* One rebuild() and the decision of rebuildIfDirty to stop.  A failed     *)
(* rebuild leaves the context dirty and the promotions in place.           *)
rebuild ==
    /\ user # Nil
    /\ IF unknownFeature
       THEN user' = Nil /\ UNCHANGED <<index, dirty, frozen, built, applied>>
       ELSE \E S \in {implementAmendmentTargets(Implemented)} : \E w \in {resolveLeafRefs(S)} :
            LET M   == [k \in DOMAIN mods |-> [mods[k] EXCEPT !.implemented = k \in w.impl]]
                end == settled(Amending(S), w.impl)
                ok  == end /\ ~w.err
            IN  /\ mods' = M
                /\ markImplemented(M, w.impl \ Implemented)
                /\ applied' = Amending(S)
                /\ user' = IF end THEN Nil ELSE user
                /\ dirty' = ~ok
                /\ frozen' = (frozen \/ (ok /\ user \in Builders))
                /\ built' = IF ok /\ user \in Builders THEN built \cup {user} ELSE built
                /\ UNCHANGED order
    /\ UNCHANGED <<settings, catalog, closed, importing, snap>>

(* Schema, GetModule, Modules, LoadReport and the other readers.           *)
Schema ==
    /\ Idle /\ ~closed /\ dirty
    /\ user' = "reader"
    /\ UNCHANGED <<visible, catalog, phase, importing, snap, applied>>

Build(b) ==
    /\ ensureMutable(b)
    /\ IF dirty THEN user' = b /\ UNCHANGED <<frozen, built>>
       ELSE frozen' = TRUE /\ built' = built \cup {b} /\ UNCHANGED user
    /\ UNCHANGED <<visible, catalog, closed, importing, snap, applied>>

Close ==
    /\ Idle /\ ~closed
    /\ closed' = TRUE
    /\ mods' = <<>> /\ order' = <<>> /\ paths' = <<>> /\ features' = {} /\ dirty' = FALSE
    /\ modules' = [n \in Names |-> Nil] /\ byNS' = [x \in Spaces |-> Nil]
    /\ catalog' = {} /\ applied' = {}
    /\ UNCHANGED <<vendor, frozen, built, run>>

----------------------------------------------------------------------------
StartLoad(b) ==
    \/ \E n \in Names, r \in Revs :
         \E fs \in {features, features \cup {n}} : LoadModule(b, n, r, fs)
    \/ \E s \in Sources : LoadModuleFromPath(b, s)

LoadStep == loadIncludes \/ loadImport \/ loadReturn

Configure(b) ==
    \/ \E d \in Dirs : SetSearchPath(b, d) \/ UnsetSearchPath(b, d)
    \/ \E n \in Names, on \in BOOLEAN : SetFeatures(b, n, on)
    \/ \E s \in Sources : RegisterSourcePaths(b, {s})
    \/ SetPolicy(b)
    \/ \E v \in BOOLEAN : SetValidationMode(b, v)

Quiet == result' = "none" /\ before' = <<>>

Call(b) == calls < MaxCalls /\ calls' = calls + 1 /\ (StartLoad(b) \/ (Configure(b) /\ Quiet))

Next ==
    /\ \/ \E b \in Builders : Call(b)
       \/ LoadStep /\ UNCHANGED calls
       \/ (rebuild \/ Schema \/ Close \/ \E b \in Builders : Build(b)) /\ Quiet /\ UNCHANGED calls
    /\ UNCHANGED allImplemented

(* A call runs to its end: nothing else runs in the context meanwhile.     *)
Fairness == WF_vars(~Idle /\ Next)

Spec == Init /\ [][Next]_vars /\ Fairness
----------------------------------------------------------------------------
(* Correctness.                                                            *)
(* snapshot and restore: "Failed module loads are transactional at the     *)
(* context boundary".  Whatever the load had done, the modules, the        *)
(* defaults, the search path and the features are those of before.         *)
FailedLoadInvisible == result = "failed" => visible = before

(* loadImports: between calls every import of every loaded module is       *)
(* bound to a loaded module of that name, to the pinned revision if there  *)
(* is one, and to the newest registered revision if there is none and the  *)
(* name is registered.                                                     *)
ImportsBound ==
    ~Loading => \A k \in DOMAIN mods :
        LET m == mods[k] IN
        /\ Len(m.bound) = Len(m.src.imports)
        /\ \A i \in DOMAIN m.bound :
             LET imp == m.src.imports[i]  reg == registeredSource(imp.name, 0) IN
             /\ m.bound[i] \in DOMAIN mods /\ m.bound[i][1] = imp.name
             /\ imp.rev # 0 => m.bound[i][2] = imp.rev
             /\ imp.rev = 0 /\ reg # Nil => m.bound[i][2] = reg.rev

(* registerNameDefault, markImplemented: in whatever order revisions are   *)
(* loaded and promoted, Schema(name) and FindModuleByNamespace answer with *)
(* the newest implemented revision, or the newest if none is implemented.  *)
DefaultIsBest ==
    LET better(j, k) == \/ mods[j].implemented /\ ~mods[k].implemented
                        \/ mods[j].implemented = mods[k].implemented /\ j[2] > k[2]
        best(S, k) == IF S = {} THEN k = Nil
                      ELSE k \in S /\ \A j \in S : ~better(j, k)
    IN  /\ \A n \in Names : best({k \in DOMAIN mods : k[1] = n}, modules[n])
        /\ \A x \in Spaces : best({k \in DOMAIN mods : mods[k].src.ns = x}, byNS[x])

(* namespaceOwner: a namespace belongs to modules of one name.             *)
NamespaceOwned ==
    \A j, k \in DOMAIN mods : mods[j].src.ns = mods[k].src.ns => j[1] = k[1]

(* rebuildIfDirty: in a clean context the amendments of exactly the        *)
(* implemented modules are in the schema, and every module they name is    *)
(* implemented, also when a leafref promoted a module after the augments   *)
(* had been applied.                                                       *)
AmendmentsComplete ==
    ~dirty /\ ~Loading =>
        /\ Amending(Implemented) = applied
        /\ \A k \in Implemented : Named(k, mods[k].src.amends) \subseteq Implemented

(* ContextBuilder.Build: a frozen context "may be shared by goroutines for *)
(* read-only schema access": it is clean, and until Close no call through  *)
(* any copy of the builder, and no read, changes it.                       *)
FrozenIsReadOnly ==
    [][frozen /\ ~closed' => ~dirty /\ UNCHANGED <<visible, catalog, applied>>]_vars

(* rebuildIfDirty ("implemented modules only accumulate, so this ends")    *)
(* and the recursive loading of imports, cycles included, come to an end.  *)
CallsReturn == ~Idle ~> Idle

(* "Import cycles ... fail loading" (spec/api.md).                         *)
ImportsAcyclic ==
    ~Loading =>
        LET reach[i \in Nat] ==
              IF i = 0 THEN [k \in DOMAIN mods |-> ToSet(mods[k].bound)]
              ELSE [k \in DOMAIN mods |->
                      reach[i - 1][k] \cup UNION {ToSet(mods[j].bound) : j \in reach[i - 1][k]}]
        IN  \A k \in DOMAIN mods : k \notin reach[Len(order)][k]

(* resolveLeafRefs: "imported modules that an implemented module's leafref *)
(* paths ... name are still promoted to implemented status" (spec/api.md). *)
LeafrefsPromote ==
    ~dirty /\ ~Loading =>
        \A k \in Implemented : Named(k, mods[k].src.refs) \subseteq Implemented
=============================================================================
