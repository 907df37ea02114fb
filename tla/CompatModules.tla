---------------------------- MODULE CompatModules ----------------------------
(***************************************************************************)
(* The module set of the goyang-compatible facade (go/compat/modules.go,   *)
(* modules_load.go): sources are recorded as they are parsed, a context is *)
(* built from all of them on demand, and the modules of the context are    *)
(* merged into the records.  A record is identified by the order in which  *)
(* it was made (recordOrder).                                              *)
(*                                                                         *)
(* A module set is a record ms: the tables Modules and SubModules by full  *)
(* and by bare name, the records, the sources, the search paths, the       *)
(* context, whether it is up to date (built) and the namespace cache.  A   *)
(* full name is a pair of a name and a date, a bare name has the date "".  *)
(***************************************************************************)
EXTENDS Probe, Integers, SequencesExt

CONSTANTS
    Dates,           \* the dates of revisions, oldest first
    FacadePrograms,  \* texts, files and lookups, see IsFacadeProgram
    MaxFacadeCalls   \* bound on the calls on one module set

VARIABLE facade

(* A statement: its keyword, the prefix of an extension's keyword, its     *)
(* argument and its substatements.                                         *)
Statement(kw, arg, subs) == [kw |-> kw, pfx |-> "", arg |-> arg, subs |-> subs]
Nowhere == Statement("", "", <<>>)

direct(st, kw) == SelectSeq(st.subs, LAMBDA s : s.pfx = "" /\ s.kw = kw)
childArgument(st, kw) == LET D == direct(st, kw) IN IF D = <<>> THEN "" ELSE D[1].arg

(* Dates are compared as strings; "" comes before all of them.             *)
Rank(date) == IF date = "" THEN 0 ELSE CHOOSE i \in DOMAIN Dates : Dates[i] = date
latestRevision(dates) ==
    IF dates = {} THEN "" ELSE CHOOSE d \in dates : \A e \in dates : Rank(e) <= Rank(d)

------------------------------------------------------------------------------
(* Declarations and records.                                               *)

(* importFromStatement and includeFromStatement.                           *)
Reference(st) == [name |-> st.arg, prefix |-> childArgument(st, "prefix"),
                  date |-> childArgument(st, "revision-date")]
References(st, kw) == [i \in DOMAIN direct(st, kw) |-> Reference(direct(st, kw)[i])]
revisionsOf(st) == {s.arg : s \in ToSet(direct(st, "revision"))} \ {""}

NoParent == [name |-> "", prefix |-> ""]

(* moduleDeclFromStatement.  The description stands for contact,           *)
(* organization, reference and yang-version too.                           *)
moduleDeclFromStatement(st) ==
    LET B == direct(st, "belongs-to")
        P == childArgument(st, "prefix")
    IN  [name |-> st.arg, sub |-> st.kw = "submodule", source |-> st,
         belongsTo |-> IF B = <<>> THEN NoParent
                       ELSE [name |-> B[1].arg, prefix |-> childArgument(B[1], "prefix")],
         namespace |-> childArgument(st, "namespace"),
         prefix |-> IF st.kw = "submodule" /\ B # <<>> /\ P = "" THEN childArgument(B[1], "prefix") ELSE P,
         description |-> childArgument(st, "description"), revisions |-> revisionsOf(st),
         imports |-> References(st, "import"), includes |-> References(st, "include")]

fullName(d) == <<d.name, latestRevision(d.revisions)>>
Table(sub) == IF sub THEN "SubModules" ELSE "Modules"
Tables == {"Modules", "SubModules"}
Recorded(ms, t, key) == key \in DOMAIN ms[t]
RecordAt(ms, t, key) == ms.records[ms[t][key]]

NoContext == [id |-> 0, loaded |-> <<>>]
NoEntry == [context |-> 0, key |-> <<"", "">>]
NewModules == [Modules |-> <<>>, SubModules |-> <<>>, records |-> <<>>, sources |-> <<>>,
               paths |-> <<>>, context |-> NoContext, contexts |-> 0, built |-> FALSE, byNS |-> <<>>]

duplicateModuleDeclError(ms, d) == Recorded(ms, Table(d.sub), fullName(d))

(* moduleValueChild: the source's statement before the declared value.     *)
moduleValueChild(source, kw, value) ==
    IF direct(source, kw) # <<>> THEN childArgument(source, kw) ELSE value

(* addModuleDecl up to the bare name: the record of the full name, made if *)
(* there is none, takes what the declaration has; only the namespace of a  *)
(* module goes away, and a submodule has no prefix of its own.             *)
addModuleDecl_Merge(ms, d) ==
    LET t    == Table(d.sub)
        full == fullName(d)
        new  == ~Recorded(ms, t, full)
        id   == IF new THEN Len(ms.records) + 1 ELSE ms[t][full]
        old  == IF new THEN [name |-> d.name, sub |-> d.sub, source |-> Nowhere, belongsTo |-> NoParent,
                             namespace |-> "", prefix |-> "", description |-> "", revisions |-> {},
                             imports |-> <<>>, includes |-> <<>>, entry |-> NoEntry]
                ELSE ms.records[id]
        source == IF d.source # Nowhere THEN d.source ELSE old.source
        rec  == [old EXCEPT
                   !.name = d.name, !.source = source,
                   !.belongsTo = IF d.belongsTo # NoParent THEN d.belongsTo
                                 ELSE IF d.sub /\ @ = NoParent THEN [name |-> d.name, prefix |-> d.prefix]
                                 ELSE @,
                   !.namespace = IF d.namespace # "" THEN moduleValueChild(source, "namespace", d.namespace)
                                 ELSE IF d.sub THEN @ ELSE "",
                   !.prefix = IF d.sub THEN "" ELSE IF d.prefix = "" THEN @
                              ELSE moduleValueChild(source, "prefix", d.prefix),
                   !.description = IF d.description = "" THEN @
                                   ELSE moduleValueChild(source, "description", d.description),
                   !.revisions = IF d.revisions = {} THEN @ ELSE d.revisions,
                   !.imports = IF d.imports = <<>> THEN @ ELSE d.imports,
                   !.includes = IF d.includes = <<>> THEN @ ELSE d.includes]
    IN  [ms EXCEPT !.records = IF new THEN Append(@, rec) ELSE [@ EXCEPT ![id] = rec],
                   ![t] = (full :> id) @@ @]

(* addModuleDecl: the bare name goes to the greatest full name.            *)
addModuleDecl(ms, d) ==
    LET t    == Table(d.sub)
        m    == addModuleDecl_Merge(ms, d)
        id   == m[t][fullName(d)]
        bare == <<d.name, "">>
        Full(i) == Rank(latestRevision(m.records[i].revisions))
    IN  IF bare \notin DOMAIN m[t] \/ Full(m[t][bare]) < Full(id)
        THEN [m EXCEPT ![t] = (bare :> id) @@ @] ELSE m

------------------------------------------------------------------------------
(* Sources and search paths.                                               *)

(* Mutant: the cache stays as it is.                                       *)
resetNamespaceCache_Kept(ms) == ms

resetNamespaceCache(ms) == [ms EXCEPT !.byNS = <<>>]

AddPath(ms, path) ==
    IF path \in ToSet(ms.paths) THEN ms
    ELSE resetNamespaceCache([ms EXCEPT !.paths = Append(@, path), !.built = FALSE])

(* A file: its directory, its name as a pair of name and date, its text.   *)
NoFile == [dir |-> "", key |-> <<"", "">>, text |-> <<>>]

(* Parse: the declarations before a refused one stay recorded.             *)
ParseText(ms, text, file) ==
    LET step(s, st) ==
          LET d == moduleDeclFromStatement(st) IN
          IF ~s.ok \/ st.kw \notin {"module", "submodule"} \/ duplicateModuleDeclError(s.ms, d)
          THEN [s EXCEPT !.ok = FALSE] ELSE [s EXCEPT !.ms = addModuleDecl(@, d)]
        parsed == FoldLeft(step, [ms |-> ms, ok |-> TRUE], text)
    IN  IF ~parsed.ok THEN parsed
        ELSE [parsed EXCEPT !.ms = resetNamespaceCache(
                [@ EXCEPT !.sources = Append(@, [text |-> text, file |-> file]),
                          !.context = NoContext, !.built = FALSE])]

(* findInDir: the exact file, the newest revision, then the directories    *)
(* below in their order.                                                   *)
RECURSIVE findInDir(_, _, _, _)
findInDir(P, dir, key, recurse) ==
    LET exact  == {f \in P.files : f.dir = dir /\ f.key = key}
        dated  == {f \in P.files : key[2] = "" /\ f.dir = dir /\ f.key[1] = key[1] /\ f.key[2] # ""}
        newest == CHOOSE f \in dated : \A g \in dated : Rank(g.key[2]) <= Rank(f.key[2])
        below  == IF recurse /\ dir \in DOMAIN P.below
                  THEN SelectSeq([i \in DOMAIN P.below[dir] |-> findInDir(P, P.below[dir][i], key, TRUE)],
                                 LAMBDA f : f # NoFile)
                  ELSE <<>>
    IN  IF exact # {} THEN CHOOSE f \in exact : TRUE
        ELSE IF dated # {} THEN newest
        ELSE IF below # <<>> THEN below[1] ELSE NoFile

(* findFile: the working directory, which becomes a search path, then the  *)
(* search paths.                                                           *)
findFile(P, ms, key) ==
    LET here  == findInDir(P, ".", key, FALSE)
        found == SelectSeq([i \in DOMAIN ms.paths |-> findInDir(P, ms.paths[i].dir, key, ms.paths[i].deep)],
                           LAMBDA f : f # NoFile)
    IN  IF here # NoFile THEN [ms |-> AddPath(ms, [dir |-> ".", deep |-> FALSE]), file |-> here]
        ELSE [ms |-> ms, file |-> IF found = <<>> THEN NoFile ELSE found[1]]

Read(P, ms, key) ==
    LET f == findFile(P, ms, key) IN
    IF f.file = NoFile THEN [ms |-> f.ms, ok |-> FALSE] ELSE ParseText(f.ms, f.file.text, f.file)

(* Read of a file named with its directory.                                *)
ReadPath(ms, file) ==
    ParseText(AddPath(ms, [dir |-> file.dir, deep |-> FALSE]), file.text, file)

------------------------------------------------------------------------------
(* The loader, in brief (SchemaContext has it in full): what a context     *)
(* holds after the loads, and the name of what it did not find.            *)
NoModules == [ok |-> TRUE, missing |-> "", loaded |-> <<>>, paths |-> <<>>]
NotLoaded(L) == [L EXCEPT !.ok = FALSE]
NotFound(L, name) == [L EXCEPT !.ok = FALSE, !.missing = name]
keysOf(L) == {m.key : m \in ToSet(L.loaded)}
loadedAt(L, key) == CHOOSE i \in DOMAIN L.loaded : L.loaded[i].key = key

(* The default module of a name: implemented ones first, then the newest.  *)
defaultKey(loaded, name) ==
    LET S == {m \in ToSet(loaded) : m.key[1] = name}
        I == {m \in S : m.implemented}
        C == IF I # {} THEN I ELSE S
    IN  IF C = {} THEN <<"", "">>
        ELSE (CHOOSE m \in C : \A n \in C : Rank(n.key[2]) <= Rank(m.key[2])).key

(* findSourcePathRevision: a pinned revision may also be that of the file  *)
(* without a date.                                                         *)
findSource(P, L, name, date) ==
    LET In(path, key) == findInDir(P, path.dir, key, path.deep)
        At(path) == LET f == In(path, <<name, date>>)
                        g == In(path, <<name, "">>)
                    IN  IF f = NoFile /\ g # NoFile /\ latestRevision(revisionsOf(g.text[1])) = date
                        THEN g ELSE f
        found == SelectSeq([i \in DOMAIN L.paths |-> At(L.paths[i])], LAMBDA f : f # NoFile)
    IN  IF found = <<>> THEN NoFile ELSE found[1]

(* loadIncludes: every submodule is found and belongs to the module.       *)
RECURSIVE loadIncludes(_, _, _, _, _)
loadIncludes(P, L, of, st, including) ==
    LET step(l, inc) ==
          LET f  == findSource(P, l, inc.name, inc.date)
              sm == f.text[1]
          IN  IF ~l.ok THEN l
              ELSE IF f = NoFile THEN NotFound(l, IF inc.date = "" THEN inc.name ELSE "")
              ELSE IF sm.kw # "submodule" \/ moduleDeclFromStatement(sm).belongsTo.name # of
                   THEN NotLoaded(l)
              ELSE IF inc.name \in including THEN IF P.vendor THEN l ELSE NotLoaded(l)
              ELSE loadIncludes(P, l, of, sm, including \cup {inc.name})
    IN  FoldLeft(step, L, References(st, "include"))

(* loadModuleSource: a submodule stands for its module in the lenient mode *)
(* only; then the module itself, its includes and its imports.             *)
RECURSIVE loadModuleSource(_, _, _, _, _)
loadModuleSource(P, L, f, implemented, importing) ==
    LET st  == f.text[1]
        d   == moduleDeclFromStatement(st)
        key == fullName(d)
        parent == findSource(P, L, d.belongsTo.name, "")
        entry == [key |-> key, source |-> st, namespace |-> d.namespace, implemented |-> implemented]
        L1  == [L EXCEPT !.loaded = IF key \in keysOf(L)
                                    THEN [@ EXCEPT ![loadedAt(L, key)].implemented = @ \/ implemented]
                                    ELSE Append(@, entry),
                         !.paths = IF \E p \in ToSet(@) : p.dir = f.dir THEN @
                                   ELSE Append(@, [dir |-> f.dir, deep |-> FALSE])]
        step(l, imp) ==
          LET loaded == IF imp.date # "" THEN <<imp.name, imp.date>> ELSE
                        IF <<imp.name, "">> \in keysOf(l) THEN <<imp.name, "">>
                        ELSE defaultKey(l.loaded, imp.name)
              g == findSource(P, l, imp.name, imp.date)
          IN  IF ~l.ok THEN l
              ELSE IF imp.name = d.name THEN NotLoaded(l)
              ELSE IF loaded \in keysOf(l)
                   THEN IF loaded \in importing \cup {key} /\ ~P.vendor THEN NotLoaded(l) ELSE l
              ELSE IF g = NoFile THEN NotFound(l, IF imp.date = "" THEN imp.name ELSE "")
              ELSE loadModuleSource(P, l, g, FALSE, importing \cup {key})
    IN  IF Len(f.text) # 1 THEN NotLoaded(L)
        ELSE IF st.kw = "submodule"
        THEN IF P.vendor /\ parent # NoFile THEN loadModuleSource(P, L, parent, implemented, importing)
             ELSE NotLoaded(L)
        ELSE IF \/ d.namespace = "" \/ d.prefix = ""
                \/ \E m \in ToSet(L.loaded) : m.namespace = d.namespace /\ m.key[1] # d.name
                \/ key \in keysOf(L) /\ L.loaded[loadedAt(L, key)].source # st
             THEN NotLoaded(L)
        ELSE FoldLeft(step, loadIncludes(P, L1, d.name, st, {}), d.imports)

------------------------------------------------------------------------------
(* Building the context.                                                   *)

(* stageInMemorySources: the statements of the sources that have no file,  *)
(* one file each; a name that is not safe or that is taken is refused.     *)
stagedFiles(ms) ==
    LET texts == SelectSeq(ms.sources, LAMBDA s : s.file = NoFile)
        stmts == Concat([i \in DOMAIN texts |-> texts[i].text])
    IN  [i \in DOMAIN stmts |->
           [dir |-> "memory", key |-> <<stmts[i].arg, latestRevision(revisionsOf(stmts[i]))>>,
            text |-> <<stmts[i]>>]]
stageable(F) == /\ \A i \in DOMAIN F : F[i].key[1] # ""
                /\ \A i, j \in DOMAIN F : F[i].key = F[j].key => i = j

(* What Process loads: the files of the sources in order, of a source in   *)
(* memory its modules.                                                     *)
requestedFiles(ms) ==
    Concat([i \in DOMAIN ms.sources |->
        LET s == ms.sources[i] IN
        IF s.file # NoFile THEN <<s.file>>
        ELSE SelectSeq([j \in DOMAIN s.text |->
                          [dir |-> "memory", key |-> <<s.text[j].arg, latestRevision(revisionsOf(s.text[j]))>>,
                           text |-> <<s.text[j]>>]],
                       LAMBDA f : f.text[1].kw = "module")])

BuildContext(P, ms) ==
    LET staged == ToSet(stagedFiles(ms))
        Q == [P EXCEPT !.files = @ \cup staged]
        memory == IF staged = {} THEN <<>> ELSE <<[dir |-> "memory", deep |-> FALSE]>>
        L == [NoModules EXCEPT !.paths = memory \o ms.paths]
        step(l, f) == IF l.ok THEN loadModuleSource(Q, l, f, TRUE, {}) ELSE l
    IN  IF stageable(stagedFiles(ms)) THEN FoldLeft(step, L, requestedFiles(ms)) ELSE NotLoaded(L)

(* recordModule: a module of the context is merged into its record, and    *)
(* the record has its entry.                                               *)
recordModule(ms, m) ==
    LET d  == [moduleDeclFromStatement(m.source) EXCEPT !.source = Nowhere, !.belongsTo = NoParent]
        ns == addModuleDecl(ms, d)
    IN  [ns EXCEPT !.records[ns.Modules[fullName(d)]].entry = [context |-> ms.context.id, key |-> m.key]]

(* translateProcessError: a missing module is reported as a submodule if   *)
(* some record includes one of its name.                                   *)
translateProcessError(ms, missing) ==
    LET present == UNION {{ms.records[ms[t][k]] : k \in DOMAIN ms[t]} : t \in Tables}
        Names(f) == {r.name : r \in UNION {ToSet(rec[f]) : rec \in present}} IN
    IF missing = "" THEN "other"
    ELSE IF missing \in Names("includes") THEN "submodule"
    ELSE IF missing \in Names("imports") THEN "module" ELSE "other"

(* Process: the implemented modules of the new context are recorded.       *)
Process(P, ms) ==
    LET L  == Compute("BuildContext", <<P, ms>>)
        m1 == resetNamespaceCache([ms EXCEPT
                !.context = [id |-> ms.contexts + 1, loaded |-> L.loaded], !.contexts = @ + 1, !.built = TRUE])
    IN  IF ms.built THEN [ms |-> ms, ok |-> TRUE, why |-> ""]
        ELSE IF ~L.ok THEN [ms |-> ms, ok |-> FALSE, why |-> translateProcessError(ms, L.missing)]
        ELSE [ms |-> FoldLeft(recordModule, m1, SelectSeq(L.loaded, LAMBDA m : m.implemented)),
              ok |-> TRUE, why |-> ""]

ClearEntryCache(ms) ==
    [ms EXCEPT !.records = [i \in DOMAIN @ |-> [@[i] EXCEPT !.entry =
        IF \E t \in Tables : \E k \in DOMAIN ms[t] : ms[t][k] = i THEN NoEntry ELSE @]]]

------------------------------------------------------------------------------
(* Lookups.  An answer: whether there is one, the record, its entry.       *)
NoAnswer == [op |-> "none", ok |-> FALSE, asked |-> <<"", "">>, record |-> 0, entry |-> NoEntry, why |-> ""]
Answered(op, key, ms, id) ==
    [NoAnswer EXCEPT !.op = op, !.asked = key, !.ok = TRUE, !.record = id, !.entry = ms.records[id].entry]
NotAnswered(op, key, why) == [NoAnswer EXCEPT !.op = op, !.asked = key, !.why = why]

(* GetModule: a name without a record is read first; the entry of a record *)
(* is kept until it is cleared, then made again from the context, which    *)
(* knows modules by their bare names.                                      *)
GetModule(P, ms, key) ==
    LET r == IF Recorded(ms, "Modules", key) THEN [ms |-> ms, ok |-> TRUE] ELSE Read(P, ms, key)
        p == Process(P, r.ms)
        default == IF key[2] = "" THEN defaultKey(p.ms.context.loaded, key[1]) ELSE <<"", "">>
        m == p.ms.context.loaded[loadedAt([loaded |-> p.ms.context.loaded], default)]
        again == recordModule(p.ms, m)
    IN  IF ~r.ok \/ ~Recorded(r.ms, "Modules", key)
        THEN [ms |-> r.ms, answer |-> NotAnswered("GetModule", key, "read")]
        ELSE IF ~p.ok THEN [ms |-> p.ms, answer |-> NotAnswered("GetModule", key, p.why)]
        ELSE IF RecordAt(p.ms, "Modules", key).entry # NoEntry
        THEN [ms |-> p.ms, answer |-> Answered("GetModule", key, p.ms, p.ms.Modules[key])]
        ELSE IF default \notin keysOf([loaded |-> p.ms.context.loaded])
        THEN [ms |-> p.ms, answer |-> NotAnswered("GetModule", key, "missing")]
        ELSE [ms |-> again, answer |-> Answered("GetModule", key, again, again.Modules[m.key])]

(* FindModule: an import or an include with a date takes that revision,    *)
(* reading it if need be, or else what the bare name has.                  *)
FindModule(P, ms, t, ref) ==
    LET full  == <<ref.name, ref.date>>
        bare  == <<ref.name, "">>
        first == IF Recorded(ms, t, full) THEN ms ELSE Read(P, ms, full).ms
        none  == ref.date # "" /\ ~Recorded(first, t, full) /\ ~Recorded(first, t, bare)
        last  == IF none THEN Read(P, first, bare) ELSE [ms |-> first, ok |-> TRUE]
        found == SelectSeq(<<full, bare>>, LAMBDA k : Recorded(last.ms, t, k))
    IN  IF ~last.ok \/ found = <<>>
        THEN [ms |-> last.ms, answer |-> NotAnswered("FindModule", full, "read")]
        ELSE [ms |-> last.ms, answer |-> Answered("FindModule", full, last.ms, last.ms[t][found[1]])]

(* findRecordedModuleByNamespace: in the order of recording.               *)
recordedWith(ms, ns) ==
    {i \in DOMAIN ms.records : ms.records[i].namespace = ns
                              /\ \E k \in DOMAIN ms.Modules : ms.Modules[k] = i}

FindModuleByNamespace(ms, ns) ==
    LET S == recordedWith(ms, ns)
        M == SelectSeq(ms.context.loaded, LAMBDA m : m.namespace = ns)
        found == defaultKey(M, IF M = <<>> THEN "" ELSE M[1].key[1])
        again == recordModule(ms, ms.context.loaded[loadedAt(ms.context, found)])
        Cached(m, i) == [ms |-> [m EXCEPT !.byNS = (ns :> i) @@ @],
                         answer |-> Answered("FindModuleByNamespace", <<ns, "">>, m, i)]
    IN  IF ns \in DOMAIN ms.byNS
        THEN [ms |-> ms, answer |-> Answered("FindModuleByNamespace", <<ns, "">>, ms, ms.byNS[ns])]
        ELSE IF Cardinality(S) > 1
        THEN [ms |-> ms, answer |-> NotAnswered("FindModuleByNamespace", <<ns, "">>, "ambiguous")]
        ELSE IF S # {} THEN Cached(ms, CHOOSE i \in S : TRUE)
        ELSE IF M # <<>> THEN Cached(again, again.Modules[found])
        ELSE [ms |-> ms, answer |-> NotAnswered("FindModuleByNamespace", <<ns, "">>, "missing")]

------------------------------------------------------------------------------
(* The calls on one module set.                                            *)
NoFacade == [calls |-> 0, ms |-> NewModules, answer |-> NoAnswer]
FacadeIdle == facade = NoFacade

AskFacade == Unasked /\ \E P \in FacadePrograms : Ask("facade", P) /\ UNCHANGED facade

Calling == Asked("facade") /\ facade.calls < MaxFacadeCalls
Called(ms, answer) ==
    facade' = [calls |-> facade.calls + 1, ms |-> ms, answer |-> answer] /\ UNCHANGED probe
Ok(op, ok, why) == [NoAnswer EXCEPT !.op = op, !.ok = ok, !.why = why]

CallAddPath ==
    /\ Calling
    /\ \E p \in probe.question.paths : Called(AddPath(facade.ms, p), Ok("AddPath", TRUE, ""))
CallParse ==
    /\ Calling
    /\ \E t \in probe.question.texts : LET r == Compute("ParseText", <<facade.ms, t, NoFile>>) IN
                                Called(r.ms, Ok("Parse", r.ok, ""))
CallRead ==
    /\ Calling
    /\ \E k \in probe.question.names : LET r == Compute("Read", <<probe.question, facade.ms, k>>) IN
                                Called(r.ms, Ok("Read", r.ok, ""))
CallReadPath ==
    /\ Calling
    /\ \E f \in probe.question.files : LET r == Compute("ReadPath", <<facade.ms, f>>) IN
                                Called(r.ms, Ok("ReadPath", r.ok, ""))
CallProcess ==
    /\ Calling
    /\ LET r == Compute("Process", <<probe.question, facade.ms>>) IN Called(r.ms, Ok("Process", r.ok, r.why))
CallClearEntryCache ==
    /\ Calling
    /\ Called(ClearEntryCache(facade.ms), Ok("ClearEntryCache", TRUE, ""))
CallGetModule ==
    /\ Calling
    /\ \E k \in probe.question.names : LET r == Compute("GetModule", <<probe.question, facade.ms, k>>) IN
                                Called(r.ms, r.answer)
CallFindModule ==
    /\ Calling
    /\ \E t \in Tables, ref \in probe.question.refs :
         LET r == Compute("FindModule", <<probe.question, facade.ms, t, ref>>) IN Called(r.ms, r.answer)
CallFindModuleByNamespace ==
    /\ Calling
    /\ \E ns \in probe.question.spaces :
         LET r == Compute("FindModuleByNamespace", <<facade.ms, ns>>) IN Called(r.ms, r.answer)

FacadeNext ==
    \/ AskFacade \/ CallAddPath \/ CallParse \/ CallRead \/ CallReadPath \/ CallProcess
    \/ CallClearEntryCache \/ CallGetModule \/ CallFindModule \/ CallFindModuleByNamespace

------------------------------------------------------------------------------
(* Properties.                                                             *)

(* The records whose statement is in no source: a Parse that was refused   *)
(* has left them.  A module without a revision whose name has revisions    *)
(* too shares the key of the bare name.                                    *)
leftOver(ms) == {i \in DOMAIN ms.records :
                   /\ ms.records[i].source # Nowhere
                   /\ \A s \in ToSet(ms.sources) : ms.records[i].source \notin ToSet(s.text)}
sharesKey(ms, t, name) == Cardinality({k[2] : k \in {k \in DOMAIN ms[t] : k[1] = name}}) > 1
                       /\ \E s \in ToSet(ms.sources) : \E st \in ToSet(s.text) :
                            st.arg = name /\ revisionsOf(st) = {}

(* The bare name has the greatest revision, the full name its own.         *)
NamesExact(ms) ==
    \A t \in Tables : \A k \in DOMAIN ms[t] :
        LET rec == RecordAt(ms, t, k)
            own == <<rec.name, latestRevision(rec.revisions)>>
        IN  /\ rec.name = k[1] /\ rec.sub = (t = "SubModules")
            /\ own \in DOMAIN ms[t] /\ (~sharesKey(ms, t, rec.name) => ms[t][own] = ms[t][k])
            /\ IF k[2] # "" THEN own = k
               ELSE \A l \in DOMAIN ms[t] : l[1] = k[1] => Rank(l[2]) <= Rank(own[2])

(* Every accepted statement has its record, with what it declares.         *)
SourcesRecorded(ms) ==
    \A s \in ToSet(ms.sources) : \A st \in ToSet(s.text) :
        LET d == moduleDeclFromStatement(st)
            t == Table(d.sub)
        IN  /\ Recorded(ms, t, fullName(d))
            /\ ~sharesKey(ms, t, d.name) =>
                 LET rec == RecordAt(ms, t, fullName(d)) IN
                 /\ rec.source = st /\ rec.namespace = d.namespace /\ rec.belongsTo = d.belongsTo
                 /\ rec.imports = d.imports /\ rec.includes = d.includes

(* A cached namespace has the answer a search would give.                  *)
CacheCurrent(ms) ==
    \A ns \in DOMAIN ms.byNS :
        /\ ms.byNS[ns] \in recordedWith(ms, ns)
        /\ leftOver(ms) = {} => recordedWith(ms, ns) = {ms.byNS[ns]}

(* The records of an up-to-date module set have the entries of its context *)
EntriesCurrent(ms) ==
    ms.built => \A m \in ToSet(ms.context.loaded) :
        m.implemented /\ ~sharesKey(ms, "Modules", m.key[1]) =>
            /\ Recorded(ms, "Modules", m.key)
            /\ RecordAt(ms, "Modules", m.key).entry \in {NoEntry, [context |-> ms.context.id, key |-> m.key]}

(* What a lookup answers is what it was asked for.                         *)
AnswerExact(ms, a) ==
    LET rec == ms.records[a.record]
        own == <<rec.name, latestRevision(rec.revisions)>>
        live == \E m \in ToSet(ms.context.loaded) : m.implemented /\ m.key = own
    IN  a.ok =>
        CASE a.op = "GetModule" ->
               /\ rec.name = a.asked[1] /\ a.asked[2] \in {"", own[2]}
               /\ live /\ ~sharesKey(ms, "Modules", rec.name) => a.entry = [context |-> ms.context.id, key |-> own]
          [] a.op = "FindModule" ->
               /\ rec.name = a.asked[1]
               /\ a.asked[2] # "" => own = a.asked \/ ~Recorded(ms, Table(rec.sub), a.asked)
          [] a.op = "FindModuleByNamespace" -> rec.namespace = a.asked[1]
          [] OTHER -> TRUE

(* Whatever the calls and their order, names, namespaces and entries are   *)
(* those of the sources and of the context.                                *)
FacadeConsistent ==
    /\ NamesExact(facade.ms) /\ SourcesRecorded(facade.ms) /\ CacheCurrent(facade.ms)
    /\ EntriesCurrent(facade.ms) /\ AnswerExact(facade.ms, facade.answer)
=============================================================================
