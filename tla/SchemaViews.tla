---------------------------- MODULE SchemaViews ----------------------------
(***************************************************************************)
(* The views go/cambium gives of a built schema: handles and the paths they*)
(* print, lookups by path, the data children of a node, and the two        *)
(* materialised forms of the schema, the nested one, whose size can grow   *)
(* exponentially with the depth, and the table.                            *)
(*                                                                         *)
(* A schema s has its modules, mods, by name, their load order, and its    *)
(* nodes by identifier; the root of a module has the module's name.  A     *)
(* step of a path is a prefix, "" when there is none, and a name.          *)
(***************************************************************************)
EXTENDS Integers, SequencesExt, FiniteSetsExt, Functions, Probe

CONSTANTS Views,             \* the schemas looked at, by name
          MaxRecords,        \* the largest number a record count can hold
          ComputeView(_, _)  \* Compute, for the operators of the views

IsDataNode(n) == n.kind \in {"container", "leaf", "leaf-list", "list", "anydata"}
TopLevel(s, m) ==
    SelectSeq(s.nodes[m].kids, LAMBDA id : s.nodes[id].kind \notin {"rpc", "notification"})

RECURSIVE AddData(_, _, _)
AddData(s, ids, flat) ==
    Concat([i \in DOMAIN ids |->
        LET n == s.nodes[ids[i]] IN
        IF n.kind \in {"rpc", "action", "notification"} THEN <<>>
        ELSE IF flat /\ n.kind \in {"choice", "case"} THEN AddData(s, n.kids, flat)
        ELSE <<ids[i]>>])
DataChildrenOf(s, id, flat) == AddData(s, s.nodes[id].kids, flat)

(* The way from the top of its module to a node, and what the three paths  *)
(* print of it.                                                            *)
RECURSIVE Way(_, _)
Way(s, id) ==
    IF s.nodes[id].kind = "module" THEN <<>> ELSE Append(Way(s, s.nodes[id].up), id)
AncestorsOf(s, id) == Front(Way(s, id))
DataAncestorsOf(s, id) == SelectSeq(AncestorsOf(s, id), LAMBDA a : IsDataNode(s.nodes[a]))

LocalPath(s, id) == FoldLeft(LAMBDA p, k : Append(p, s.nodes[k].name), <<>>, Way(s, id))
QualifiedPath(s, id) ==
    FoldLeft(LAMBDA p, k : Append(p, <<s.nodes[k].mod, s.nodes[k].name>>), <<>>, Way(s, id))
NamespacePath(s, id) ==
    FoldLeft(LAMBDA p, k : Append(p, <<s.mods[s.nodes[k].mod].ns, s.nodes[k].name>>), <<>>, Way(s, id))

------------------------------------------------------------------------------
(* Lookups.  "none" stands for no module and for no node.                  *)
ImportedAs(s, m, prefix) ==
    IF prefix \in DOMAIN s.mods[m].imports THEN s.mods[m].imports[prefix] ELSE "none"
QNameModule(s, m, prefix) ==
    IF prefix \in {"", s.mods[m].prefix, m} THEN m ELSE ImportedAs(s, m, prefix)
SourceQNameModule(s, m, prefix) ==
    IF prefix \in {"", s.mods[m].prefix} THEN m ELSE ImportedAs(s, m, prefix)

(* The child a step names: the first its prefix names exactly, else the    *)
(* first whose statement or whose instantiating module the prefix names.   *)
StepTo(s, m, id, step) ==
    LET want  == QNameModule(s, m, step[1])
        Is(x) == IF want # "none" THEN x = want ELSE step[1] \in {s.mods[x].prefix, x}
        named == SelectSeq(s.nodes[id].kids, LAMBDA k : s.nodes[k].name = step[2])
        exact == SelectSeq(named, LAMBDA k : step[1] = "" \/ Is(s.nodes[k].mod))
        near  == SelectSeq(named, LAMBDA k : Is(s.nodes[k].src) \/ Is(s.nodes[k].inst))
    IN  IF exact # <<>> THEN exact[1] ELSE IF near # <<>> THEN near[1] ELSE "none"

(* An absolute path starts in the module its first prefix names for m or in*)
(* the loaded one with that name; a bare first step that repeats m's name  *)
(* or prefix only says so.                                                 *)
FindByPath(s, m, path) ==
    LET prefix == path[1][1]
        first == IF QNameModule(s, m, prefix) = "none" /\ prefix \in DOMAIN s.mods THEN prefix
                 ELSE QNameModule(s, m, prefix)
        steps == IF prefix = "" /\ path[1][2] \in {m, s.mods[m].prefix} THEN Tail(path) ELSE path
    IN  IF first = "none" THEN "none"
        ELSE FoldLeft(LAMBDA at, step : IF at = "none" THEN at ELSE StepTo(s, m, at, step),
                      first, steps)

(* From a node: names of children, whatever their modules, and ".." for the*)
(* next node up that is no choice, case or leaf.                           *)
ModuleRoot(s, id) == IF Way(s, id) = <<>> THEN id ELSE s.nodes[Way(s, id)[1]].up
ParentStep(s, id) ==
    LET up == SelectSeq(AncestorsOf(s, id),
                        LAMBDA a : s.nodes[a].kind \notin {"choice", "case", "leaf"})
    IN  IF s.nodes[id].kind = "module" THEN "none" ELSE IF up = <<>> THEN ModuleRoot(s, id) ELSE Last(up)
FirstNamed(s, id, name) ==
    LET named == SelectSeq(s.nodes[id].kids, LAMBDA k : s.nodes[k].name = name)
    IN  IF named = <<>> THEN "none" ELSE named[1]
FindFrom(s, id, path) ==
    FoldLeft(LAMBDA at, step : IF at = "none" THEN at ELSE IF step = ".." THEN ParentStep(s, at)
                               ELSE FirstNamed(s, at, step),
             id, path)

(* Every node is found by its qualified path from its own module, and from *)
(* any node below it or beside it by the local steps that lead there.      *)
PathsLeadBack(s) ==
    \A id \in {k \in DOMAIN s.nodes : s.nodes[k].kind # "module"} :
      LET local == LocalPath(s, id)
          over  == Len(local) - Len(LocalPath(s, ParentStep(s, id)))
          back  == FindFrom(s, id, <<"..">> \o SubSeq(local, Len(local) - over + 1, Len(local)))
      IN  /\ FindByPath(s, s.nodes[id].mod, QualifiedPath(s, id)) = id
          /\ back # "none" /\ LocalPath(s, back) = local
          /\ \A k \in DOMAIN s.nodes :
               k # id /\ s.nodes[k].up = s.nodes[id].up /\ LocalPath(s, k) = local =>
                 back = FirstNamed(s, s.nodes[id].up, s.nodes[id].name)

------------------------------------------------------------------------------
(* The nested form has full copies of the subtrees of all three views of a *)
(* node; its size is counted before it is built, and the count saturates.  *)
WrappingAdd(a, b) == (a + b) % (MaxRecords + 1)
SaturatingAdd(a, b) == IF a > MaxRecords - b THEN MaxRecords ELSE a + b

ViewsOf(s, id) == s.nodes[id].kids \o DataChildrenOf(s, id, TRUE) \o s.nodes[id].keys

RECURSIVE V1Records(_, _)
V1Records(s, id) ==
    FoldLeft(LAMBDA n, k : SaturatingAdd(n, V1Records(s, k)), 1, ViewsOf(s, id))

TopNodes(s) == Concat([i \in DOMAIN s.order |-> s.nodes[s.order[i]].kids])
SchemaIRStats(s) ==
    [nodes |-> Cardinality(DOMAIN s.nodes) - Len(s.order),
     records |-> FoldLeft(LAMBDA n, k : SaturatingAdd(n, V1Records(s, k)), 0, TopNodes(s))]

Admitted(stats, limit) == stats.records <= limit /\ stats.records # MaxRecords

RECURSIVE SchemaIRNode(_, _)
SchemaIRNode(s, id) ==
    LET of(ids) == [i \in DOMAIN ids |-> SchemaIRNode(s, ids[i])]
    IN  [ref |-> id, kids |-> of(s.nodes[id].kids), data |-> of(DataChildrenOf(s, id, TRUE)),
         keys |-> of(s.nodes[id].keys)]

SchemaIRWithLimit(s, limit) ==
    IF Admitted(SchemaIRStats(s), limit)
    THEN [ok |-> TRUE, nodes |-> [i \in DOMAIN TopNodes(s) |-> SchemaIRNode(s, TopNodes(s)[i])]]
    ELSE [ok |-> FALSE, nodes |-> <<>>]

(* The table: the records in the order of a walk, their views as indices.  *)
RECURSIVE AddRecord(_, _, _)
AddRecord(s, table, id) ==
    FoldLeft(LAMBDA t, k : AddRecord(s, t, k), Append(table, id), s.nodes[id].kids)
SchemaIRTable(s) ==
    LET refs == FoldLeft(LAMBDA t, k : AddRecord(s, t, k), <<>>, TopNodes(s))
        Index(id) == IF s.nodes[id].kind = "module" THEN 0
                     ELSE CHOOSE i \in DOMAIN refs : refs[i] = id
        of(ids) == [i \in DOMAIN ids |-> Index(ids[i])]
    IN  [i \in DOMAIN refs |->
            [ref |-> refs[i], parent |-> Index(s.nodes[refs[i]].up),
             kids |-> of(s.nodes[refs[i]].kids), data |-> of(DataChildrenOf(s, refs[i], TRUE)),
             keys |-> of(s.nodes[refs[i]].keys)]]

------------------------------------------------------------------------------
(* What the two forms have to agree on.                                    *)
RECURSIVE Records(_)
Records(irs) ==
    FoldLeft(LAMBDA n, r : n + 1 + Records(r.kids) + Records(r.data) + Records(r.keys), 0, irs)

RECURSIVE FromTable(_, _)
FromTable(table, i) ==
    LET of(is) == [k \in DOMAIN is |-> FromTable(table, is[k])]
    IN  [ref |-> table[i].ref, kids |-> of(table[i].kids), data |-> of(table[i].data),
         keys |-> of(table[i].keys)]

Nested(s) == [i \in DOMAIN TopNodes(s) |-> SchemaIRNode(s, TopNodes(s)[i])]

FormsAgree(s, limit) ==
    LET table == SchemaIRTable(s)
        all   == Nested(s)
        tops  == SelectSeq([i \in DOMAIN table |-> i], LAMBDA i : table[i].parent = 0)
        r     == SchemaIRWithLimit(s, limit)
    IN  /\ PathsLeadBack(s)
        /\ r.ok <=> Records(all) <= limit /\ Records(all) < MaxRecords
        /\ r.ok => r.nodes = all
        /\ Len(table) = SchemaIRStats(s).nodes
        /\ all = [i \in DOMAIN tops |-> FromTable(table, tops[i])]
        /\ \A i \in DOMAIN table :
             /\ table[i].parent < i
             /\ \A k \in DOMAIN table[i].kids : table[table[i].kids[k]].parent = i
=============================================================================
