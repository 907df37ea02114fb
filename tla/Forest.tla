------------------------------- MODULE Forest -------------------------------
(***************************************************************************)
(* The schema forest of go/libyangbackend, the pure-Go copy of what libyang*)
(* has compiled: how it is built, and what is read from it.                *)
(*                                                                         *)
(* A compiled context is external: mods, the loaded modules, and nodes, the*)
(* compiled nodes by address, linked by child, next, acts and notifs as    *)
(* libyang links them (the children of the cases of one choice are one     *)
(* list; the null pointer is 0).  A node keeps what it was compiled from   *)
(* under said, which only the properties read.  Indices count from 1; 0 is *)
(* "no parent".                                                            *)
(***************************************************************************)
EXTENDS CompiledNodes, ForestReaders, FiniteSetsExt, Functions

Null == 0

------------------------------------------------------------------------------
(* The walk of the compiled nodes.                                         *)
AllSiblings(c, first, parent) ==
    LET chain[a \in {Null} \cup DOMAIN c.nodes] ==
          IF a = Null THEN <<>> ELSE <<a>> \o chain[c.nodes[a].next]
    IN  chain[first]

WalkSchemaSiblings(c, first, parent) ==
    LET chain[a \in {Null} \cup DOMAIN c.nodes] ==
          IF a = Null \/ (a # Null /\ c.nodes[a].parent # parent) THEN <<>>
          ELSE <<a>> \o chain[c.nodes[a].next]
    IN  chain[first]

RawChildren(c, a) ==
    LET n == c.nodes[a] IN
    WalkSchemaSiblings(c, n.child, a) \o WalkSchemaSiblings(c, n.acts, a)
    \o WalkSchemaSiblings(c, n.notifs, a)

RECURSIVE RawPreOrder(_, _)
RawPreOrder(c, a) ==
    <<a>> \o Concat([i \in DOMAIN RawChildren(c, a) |-> RawPreOrder(c, RawChildren(c, a)[i])])

Under(c, roots) == Concat([i \in DOMAIN roots |-> RawPreOrder(c, roots[i])])

------------------------------------------------------------------------------
(* Names of other modules, as one module writes them.                      *)
NoName == ""
ImportNamed(mod, prefix) ==
    SelectSeq(mod.imports, LAMBDA i : i.prefix = prefix \/ i.name = prefix)
ResolveModuleNameForPrefix(mod, prefix) ==
    IF prefix \in {"", mod.prefix, mod.name} THEN mod.name
    ELSE IF ImportNamed(mod, prefix) = <<>> THEN NoName ELSE ImportNamed(mod, prefix)[1].name

NormalizeSchemaNodeID(mod, path) ==
    LET first == ResolveModuleNameForPrefix(mod, path[1].prefix) IN
    IF path = <<>> \/ first = NoName THEN <<>>
    ELSE <<first>> \o [i \in DOMAIN path |-> path[i].name]

(* A base is named by its module in the file of the identity, the module's *)
(* own or a submodule's with imports of its own; a name that is not found  *)
(* stays as it is written.                                                 *)
IdentityBaseModuleName(mod, file, prefix) ==
    IF prefix \in {"", mod.name, mod.prefix, file.prefix} THEN mod.name
    ELSE IF ImportNamed(file, prefix) = <<>> THEN prefix ELSE ImportNamed(file, prefix)[1].name
NormalizeIdentityName(mod, base) ==
    LET own == ResolveModuleNameForPrefix(mod, base[1]) IN
    IF own = NoName THEN base ELSE <<own, base[2]>>
ModuleIdentities(mod) ==
    [i \in DOMAIN mod.idents |->
        [mod |-> mod.name, name |-> mod.idents[i].name, derived |-> mod.idents[i].derived,
         bases |-> [j \in DOMAIN mod.idents[i].bases |->
            LET b == mod.idents[i].bases[j] IN
            NormalizeIdentityName(mod, <<IdentityBaseModuleName(mod, mod.idents[i].file, b.prefix), b.name>>)]]]

------------------------------------------------------------------------------
(* Every property of a deviate statement is an entry of its own; a deviate *)
(* maps each property it has to the values it gives, in order.             *)
PropertyOrder(type) ==
    CASE type = "add" -> <<"units", "must", "unique", "default", "config", "mandatory", "min-elements", "max-elements">>
      [] type = "delete" -> <<"units", "must", "unique", "default">>
      [] type = "replace" -> <<"type", "units", "default", "config", "mandatory", "min-elements", "max-elements">>
DeviateEntries(path, d) ==
    IF d.type = "not-supported" THEN <<[path |-> path, type |-> d.type, property |-> "", value |-> ""]>>
    ELSE Concat([i \in DOMAIN PropertyOrder(d.type) |->
        LET p == PropertyOrder(d.type)[i] IN
        IF p \notin DOMAIN d.set THEN <<>>
        ELSE [k \in DOMAIN d.set[p] |->
                [path |-> path, type |-> d.type, property |-> p,
                 value |-> IF p = "max-elements" /\ d.set[p][k] = "0" THEN "unbounded" ELSE d.set[p][k]]]])
ModuleDeviations(mod) ==
    Concat([i \in DOMAIN mod.devs |->
        Concat([k \in DOMAIN mod.devs[i].deviates |->
            DeviateEntries(NormalizeSchemaNodeID(mod, mod.devs[i].path), mod.devs[i].deviates[k])])])

ModuleOperations(c, mod, kind) ==
    SelectSeq(WalkSchemaSiblings(c, mod.rpcs, Null), LAMBDA a : NodeKind(c.nodes[a]) = kind)

(* Building: one arena of nodes per module, each node at the index it has  *)
(* when its parent is entered first; at gives the index of an address.     *)
Indices(at, as) == [i \in DOMAIN as |-> at[as[i]]]

AddRoot(at, data) ==
    [name |-> "", kind |-> "module", parent |-> 0, kids |-> Indices(at, data), keys |-> <<>>, ptr |-> Null,
     inChoice |-> FALSE, uniques |-> <<>>, type |-> UnknownType, owner |-> <<"", "">>]

AddNode(c, at, a) ==
    LET n == c.nodes[a]
        kids == RawChildren(c, a)
        inChoice[b \in {Null} \cup DOMAIN c.nodes] ==
          b # Null /\ (NodeKind(c.nodes[b]) \in {"choice", "case"} \/ inChoice[c.nodes[b].parent])
    IN  [name |-> n.name, parent |-> at[n.parent], kids |-> Indices(at, kids), ptr |-> a,
         keys |-> IF NodeKind(n) = "list"
                  THEN Indices(at, SelectSeq(kids, LAMBDA b : Attributes(c.nodes[b]).isKey)) ELSE <<>>,
         inChoice |-> inChoice[n.parent], uniques |-> n.uniques, owner |-> n.mod] @@ Attributes(n)

AddModule(c, f, mod) ==
    LET data == WalkSchemaSiblings(c, mod.data, Null)
        rpcs == ModuleOperations(c, mod, "rpc")
        notifs == WalkSchemaSiblings(c, mod.notifs, Null)
        order == <<Null>> \o Under(c, data \o rpcs \o ModuleOperations(c, mod, "action") \o notifs)
        m == Len(f.modules) + 1
        at == [a \in ToSet(order) |-> CHOOSE i \in DOMAIN order : order[i] = a]
        ptrs == [a \in ToSet(order) \ {Null} |-> <<m, at[a]>>] @@ f.ptrs
        resolved(spec) == LET known == SelectSeq(spec, LAMBDA a : a \in DOMAIN ptrs) IN
                          [i \in DOMAIN known |-> ptrs[known[i]][2]]
        node(a) == IF a = Null THEN AddRoot(at, data)
                   ELSE [AddNode(c, at, a) EXCEPT !.uniques = [u \in DOMAIN @ |-> resolved(@[u])]]
        idents == ModuleIdentities(mod)
    IN  [modules |-> Append(f.modules,
            [name |-> mod.name, prefix |-> mod.prefix, rev |-> mod.rev, impl |-> mod.impl, imports |-> mod.imports,
             nodes |-> [i \in DOMAIN order |-> node(order[i])], idents |-> idents,
             rpcs |-> Indices(at, rpcs), notifs |-> Indices(at, notifs), devs |-> ModuleDeviations(mod)]),
         ptrs |-> ptrs,
         idents |-> [k \in {<<idents[i].mod, idents[i].name>> : i \in DOMAIN idents} |->
                        <<m, CHOOSE i \in DOMAIN idents : <<idents[i].mod, idents[i].name>> = k>>] @@ f.idents]

SchemaModules(c) ==
    SelectSeq(c.mods, LAMBDA mod : mod.impl \/ mod.parsed \/ mod.idents # <<>> \/ mod.imports # <<>>)

BuildForest(c) ==
    FoldLeft(LAMBDA f, mod : AddModule(c, f, mod), [modules |-> <<>>, ptrs |-> <<>>, idents |-> <<>>],
             SchemaModules(c))

------------------------------------------------------------------------------
(* Reading a forest.  A handle on a node is <<module, node>>.              *)
NodeData(f, ref) == f.modules[ref[1]].nodes[ref[2]]

ModuleIndex(f, name) == {i \in DOMAIN f.modules : f.modules[i].name = name}
ModuleIndexForImport(f, name, rev) ==
    {i \in ModuleIndex(f, name) : rev = "" \/ f.modules[i].rev = rev}
Lowest(is) == CHOOSE i \in is : \A j \in is : i <= j

SchemaRefByPtr(f, ptr) == f.ptrs[ptr]
Identified(f, names) == SelectSeq(names, LAMBDA n : n \in DOMAIN f.idents)

IsDir(f, ref) ==
    NodeData(f, ref).kind \in {"container", "list", "choice", "case", "rpc", "action", "input", "output", "notification"}
Parent(f, ref) == IF ref[2] = 1 THEN <<>> ELSE <<<<ref[1], NodeData(f, ref).parent>>>>
Children(f, ref) == [i \in DOMAIN NodeData(f, ref).kids |-> <<ref[1], NodeData(f, ref).kids[i]>>]
ListKeys(f, ref) == [i \in DOMAIN NodeData(f, ref).keys |-> <<ref[1], NodeData(f, ref).keys[i]>>]
UniqueLeafs(f, ref) ==
    [u \in DOMAIN NodeData(f, ref).uniques |->
        [i \in DOMAIN NodeData(f, ref).uniques[u] |-> <<ref[1], NodeData(f, ref).uniques[u][i]>>]]

(* A type is resolved when it is read: the target of a leafref and the     *)
(* bases of an identityref may be in a module that comes later.            *)
RECURSIVE ResolveType(_, _)
ResolveType(f, raw) ==
    LET type == [raw EXCEPT !.base = BaseFromRaw(@)] IN
    CASE type.base = "leafref" ->
           [type EXCEPT !.real = ResolveType(f, @),
                        !.target = IF @ \in DOMAIN f.ptrs THEN <<SchemaRefByPtr(f, @)>> ELSE <<>>]
      [] type.base = "union" ->
           [type EXCEPT !.members = [i \in DOMAIN @ |-> ResolveType(f, @[i])]]
      [] type.base = "identityref" ->
           [type EXCEPT !.bases = LET b == Identified(f, @) IN [i \in DOMAIN b |-> f.idents[b[i]]]]
      [] OTHER -> type
LeafType(f, ref) == ResolveType(f, NodeData(f, ref).type)

RECURSIVE Ancestors(_, _)
Ancestors(f, ref) ==
    LET p == NodeData(f, ref).parent IN
    IF p \in {0, 1} THEN <<>> ELSE Append(Ancestors(f, <<ref[1], p>>), <<ref[1], p>>)

SchemaPath(f, ref) ==
    LET up == IF ref[2] = 1 THEN <<>> ELSE Append(Ancestors(f, ref), ref) IN
    <<f.modules[ref[1]].name>> \o [i \in DOMAIN up |-> NodeData(f, up[i]).name]

DataChildKinds == {"container", "list", "leaf", "leaf-list", "anydata", "anyxml", "choice", "case"}
RECURSIVE Flattened(_, _)
Flattened(f, ref) ==
    IF NodeData(f, ref).kind \notin DataChildKinds THEN <<>>
    ELSE IF NodeData(f, ref).kind \in {"choice", "case"}
         THEN Concat([i \in DOMAIN Children(f, ref) |-> Flattened(f, Children(f, ref)[i])])
    ELSE <<ref>>
DataChildren(f, ref) ==
    Concat([i \in DOMAIN Children(f, ref) |-> Flattened(f, Children(f, ref)[i])])

OwnerModule(f, ref) ==
    LET o == NodeData(f, ref).owner
        own == ModuleIndexForImport(f, o[1], o[2])
    IN  IF o[1] # "" /\ own # {} THEN Lowest(own) ELSE ref[1]

ResolvePathPrefix(f, mod, prefix) ==
    LET own == ResolveModuleNameForPrefix(mod, prefix) IN
    IF own # NoName THEN own ELSE IF ModuleIndex(f, prefix) # {} THEN prefix ELSE NoName

Roots(m, indices) == [i \in DOMAIN indices |-> <<m, indices[i]>>]
TopLevelNodes(f, m) == Roots(m, f.modules[m].nodes[1].kids)
RPCs(f, m) == Roots(m, f.modules[m].rpcs)
Notifications(f, m) == Roots(m, f.modules[m].notifs)

(* A segment is a prefix, or none, and a name.  The first may name the     *)
(* module itself.                                                          *)
FindPath(f, m, path) ==
    LET mod == f.modules[m]
        segments == IF path # <<>> /\ path[1] = [prefix |-> "", name |-> mod.name] THEN Tail(path) ELSE path
        owner(i) == IF NodeData(f, <<m, i>>).owner[1] = "" THEN mod.name ELSE NodeData(f, <<m, i>>).owner[1]
        step(i, s) ==
          LET named == SelectSeq(mod.nodes[i].kids, LAMBDA k :
                /\ mod.nodes[k].name = s.name
                /\ s.prefix # "" => owner(k) = ResolvePathPrefix(f, mod, s.prefix))
          IN  IF named = <<>> THEN 0 ELSE named[1]
    IN  FoldLeft(LAMBDA i, s : IF i = 0 THEN 0 ELSE step(i, s), 1, segments)

ResolvePrefix(f, m, prefix) ==
    LET mod == f.modules[m]
        imps == SelectSeq(mod.imports, LAMBDA i : i.prefix = prefix)
    IN  IF prefix \in {"", mod.prefix} THEN {m}
        ELSE IF imps = <<>> THEN {}
        ELSE {Lowest({i}) : i \in {j \in ModuleIndexForImport(f, imps[1].name, imps[1].rev) :
                 \A k \in ModuleIndexForImport(f, imps[1].name, imps[1].rev) : j <= k}}

DeviationProvenance(f, ref) ==
    UNION {{<<i, d>> : d \in {x \in DOMAIN f.modules[i].devs : f.modules[i].devs[x].path = SchemaPath(f, ref)}}
             : i \in DOMAIN f.modules}

IdentityAt(f, loc) == f.modules[loc[1]].idents[loc[2]]
BaseIdentities(f, loc) ==
    LET b == Identified(f, IdentityAt(f, loc).bases) IN [i \in DOMAIN b |-> f.idents[b[i]]]

(* Depth first over a stack: an identity with two derived bases is met     *)
(* twice and kept once.                                                    *)
DirectlyDerived(f, loc) ==
    LET d == Identified(f, IdentityAt(f, loc).derived) IN [i \in DOMAIN d |-> f.idents[d[i]]]
RECURSIVE Drain(_, _, _)
Drain(f, stack, out) ==
    IF stack = <<>> THEN out
    ELSE IF Last(stack) \in ToSet(out) THEN Drain(f, Front(stack), out)
    ELSE Drain(f, Front(stack) \o DirectlyDerived(f, Last(stack)), Append(out, Last(stack)))
Derived(f, loc) == Drain(f, DirectlyDerived(f, loc), <<>>)

------------------------------------------------------------------------------
(* The legacy view: a tree of the data nodes of one implemented module.    *)
RECURSIVE NodeFromRaw(_, _)
NodeFromRaw(c, a) ==
    LET n == RawAttributes(c.nodes[a])
        kids == RawChildren(c, a)
    IN  [name |-> c.nodes[a].name, kind |-> KindFromRaw(n.kind), orderedByUser |-> n.orderedByUser, isKey |-> n.isKey,
         keyNames |-> IF n.kind = "list"
                      THEN LET keys == SelectSeq(kids, LAMBDA b : RawAttributes(c.nodes[b]).isKey) IN
                           [i \in DOMAIN keys |-> c.nodes[keys[i]].name]
                      ELSE <<>>,
         leafType |-> n.leafType, kids |-> [i \in DOMAIN kids |-> NodeFromRaw(c, kids[i])]]
SchemaTree(c, mod) ==
    LET data == WalkSchemaSiblings(c, mod.data, Null) IN
    [name |-> "", kind |-> "module", orderedByUser |-> FALSE, isKey |-> FALSE, keyNames |-> <<>>, leafType |-> "unknown",
     kids |-> [i \in DOMAIN data |-> NodeFromRaw(c, data[i])]]

NoNode == <<>>
Find(tree, path) ==
    LET down(t, name) ==
          IF t = NoNode \/ \A i \in DOMAIN t.kids : t.kids[i].name # name THEN NoNode
          ELSE SelectSeq(t.kids, LAMBDA k : k.name = name)[1]
    IN  FoldLeft(down, tree, path)
RECURSIVE PreOrder(_)
PreOrder(tree) == <<tree>> \o Concat([i \in DOMAIN tree.kids |-> PreOrder(tree.kids[i])])

------------------------------------------------------------------------------
(* What the compiled schema says, by the parents of its nodes alone.       *)
Above(c, a) ==
    LET up[b \in {Null} \cup DOMAIN c.nodes] == IF b = Null THEN <<>> ELSE Append(up[c.nodes[b].parent], b)
    IN  up[a]
ChoiceKinds == {"choice", "case"}
Between(c, a, b) == {x \in ToSet(Front(Above(c, b))) : a \in ToSet(Front(Above(c, x)))}
Imported(mod, prefix) ==
    IF prefix = mod.prefix THEN mod.name
    ELSE (CHOOSE i \in ToSet(mod.imports) : i.prefix = prefix).name
Written(c, a) == [i \in DOMAIN Above(c, a) |-> <<c.nodes[Above(c, a)[i]].mod[1], c.nodes[Above(c, a)[i]].name>>]
Targets(c, mod, path) ==
    {a \in DOMAIN c.nodes : Written(c, a) = [i \in DOMAIN path |-> <<Imported(mod, path[i].prefix), path[i].name>>]}

(* The number a text says, in units of its last digit, and what libyang    *)
(* prints for some values of a type, with the typed value each should give:*)
(* a decimal without the zeros it can do without, and the bounds of ranges.*)
Said(text, fd) ==
    LET n == NumberOf(SelectSeq(text, LAMBDA ch : ch \in ToSet(DigitChars))) IN
    IF Len(After(text, ".")) # fd THEN "malformed" ELSE IF text[1] = "-" THEN -n ELSE n
CanonicalInt(v) == (IF v < 0 THEN <<"-">> ELSE <<>>) \o DigitsOf[IF v < 0 THEN -v ELSE v]
RECURSIVE CanonicalFixed(_, _)
CanonicalFixed(v, fd) ==
    IF fd > 1 /\ v % 10 = 0 THEN CanonicalFixed(v \div 10, fd - 1)
    ELSE LET digits == DigitsOf[IF v < 0 THEN -v ELSE v]
             all == Zeros(fd + 1 - Len(digits)) \o digits
         IN  (IF v < 0 THEN <<"-">> ELSE <<>>) \o InsertAt(all, Len(all) - fd + 1, ".")
ValuesOf(said) ==
    LET bounds == UNION {ToSet(said.parts[i]) : i \in DOMAIN said.parts} IN
    CASE said.base \in IntegerBases -> {<<CanonicalInt(v), Typed(said.base, v)>> : v \in bounds}
      [] said.base = "decimal64" -> {<<CanonicalFixed(v, said.fd), Typed("decimal64", <<v, said.fd>>)>> : v \in bounds}
      [] said.base = "boolean" -> {<<<<"true">>, Typed("boolean", TRUE)>>, <<<<"false">>, Typed("boolean", FALSE)>>}
      [] said.base = "bits" -> {<<<<"a", " ", "b">>, Typed("bits", <<"a", "b">>)>>, <<<<>>, Typed("bits", <<>>)>>}
      [] said.base = "empty" -> {<<<<>>, Typed("empty", <<>>)>>}
      [] said.base = "binary" -> {<<<<"base64", "a", "b">>, Typed("binary", <<"a", "b">>)>>}
      [] said.base \in {"enumeration", "identityref", "instance-identifier"} -> {<<<<"a">>, Typed(said.base, <<"a">>)>>}
      [] said.base = "union" -> {<<<<"1", ".", "5">>, Typed("string", <<"1", ".", "5">>)>>}
      [] OTHER -> {<<<<"a">>, Typed("string", <<"a">>)>>}

BoundsExact(parts, range, fd) ==
    [i \in DOMAIN range |-> <<Said(range[i].min, fd), Said(range[i].max, fd)>>] = parts

RECURSIVE TypeExact(_, _, _, _)
TypeExact(f, said, type, own) ==
    /\ type.base = said.base /\ type.typedef = IF said.name = said.base THEN NoTypedef ELSE said.name
    /\ CASE said.base = "leafref" ->
              /\ [i \in DOMAIN type.target |-> NodeData(f, type.target[i]).ptr]
                 = IF own THEN <<said.target>> ELSE <<>>
              /\ type.require = said.require /\ TypeExact(f, said.real, type.real, FALSE)
         [] said.base = "union" ->
              /\ Len(type.members) = Len(said.members)
              /\ \A i \in DOMAIN said.members : TypeExact(f, said.members[i], type.members[i], FALSE)
         [] said.base = "identityref" ->
              [i \in DOMAIN type.bases |-> <<IdentityAt(f, type.bases[i]).mod, IdentityAt(f, type.bases[i]).name>>] = said.bases
         [] said.base \in IntegerBases -> BoundsExact(said.parts, type.range, 0)
         [] said.base = "decimal64" -> type.fd = said.fd /\ BoundsExact(said.parts, type.range, said.fd)
         [] said.base \in {"string", "binary"} -> BoundsExact(said.parts, type.length, 0)
         [] said.base \in {"enumeration", "bits"} -> type.values = said.values
         [] OTHER -> TRUE

RECURSIVE RealSaid(_)
RealSaid(said) == IF said.base = "leafref" THEN RealSaid(said.real) ELSE said

(* Values read as what libyang holds; a decimal is printed as it was read. *)
ValuesTyped(said, type) ==
    \A inst \in ValuesOf(RealSaid(said)) :
        LET value == ParseValue(inst[1], type) IN
        /\ value = inst[2]
        /\ value.kind = "decimal64" => FormatFixed(value.value[1], value.value[2], TRUE) = inst[1]

AttributesExact(said, n) ==
    /\ n.kind = said.kind /\ n.status = said.status /\ n.dflts = said.dflts
    /\ n.config = (IF said.config = "ro" THEN "ro" ELSE "rw")
    /\ n.mandatory = (said.mandatory = "true") /\ n.presence = said.presence /\ n.isKey = said.key
    /\ said.kind \in ListKinds =>
         /\ n.orderedBy = said.order
         /\ n.min = (IF said.min = 0 THEN Unset ELSE <<said.min>>) /\ n.max = (IF said.max = NoMax THEN Unset ELSE <<said.max>>)

NodeExact(c, f, a) ==
    LET ref == SchemaRefByPtr(f, a)
        n == c.nodes[a]
        kind(b) == c.nodes[b].said.kind
        ptrs(refs) == [i \in DOMAIN refs |-> NodeData(f, refs[i]).ptr]
        kids == {b \in DOMAIN c.nodes : c.nodes[b].parent = a}
        named == Written(c, a)
    IN  /\ NodeData(f, ref).ptr = a
        /\ f.modules[ref[1]].name = named[1][1] /\ f.modules[OwnerModule(f, ref)].name = n.mod[1]
        /\ ptrs(Append(Ancestors(f, ref), ref)) = Above(c, a)
        /\ Len(Children(f, ref)) = Cardinality(kids) /\ ToSet(ptrs(Children(f, ref))) = kids
        /\ NodeData(f, ref).inChoice <=> \E b \in ToSet(Front(Above(c, a))) : kind(b) \in ChoiceKinds
        /\ ToSet(ptrs(ListKeys(f, ref))) = {b \in kids : c.nodes[b].said.key}
        /\ ToSet(ptrs(DataChildren(f, ref))) =
             {b \in DOMAIN c.nodes : /\ a \in ToSet(Front(Above(c, b))) /\ kind(b) \in DataChildKinds \ ChoiceKinds
                                     /\ \A x \in Between(c, a, b) : kind(x) \in ChoiceKinds}
        /\ [u \in DOMAIN UniqueLeafs(f, ref) |-> ptrs(UniqueLeafs(f, ref)[u])] = n.uniques
        /\ ptrs(Parent(f, ref)) = <<n.parent>> /\ kids # {} => IsDir(f, ref)
        /\ AttributesExact(n.said, NodeData(f, ref))
        /\ n.said.kind \in LeafKinds => TypeExact(f, n.said.type, LeafType(f, ref), TRUE) /\ ValuesTyped(n.said.type, LeafType(f, ref))
        /\ kind(Above(c, a)[1]) \in DataChildKinds =>
             FindPath(f, ref[1], [i \in DOMAIN named |-> [prefix |-> named[i][1], name |-> named[i][2]]]) = ref[2]
        /\ \A i \in DOMAIN c.mods, dev \in UNION {ToSet(m.devs) : m \in ToSet(c.mods)} :
             dev \in ToSet(c.mods[i].devs) /\ a \in Targets(c, c.mods[i], dev.path) =>
                 \A d \in ToSet(dev.deviates) : \A p \in DOMAIN d.set : \A k \in DOMAIN d.set[p] :
                    \E x \in DeviationProvenance(f, ref) :
                       LET e == f.modules[x[1]].devs[x[2]] IN
                       x[1] = i /\ e.type = d.type /\ e.property = p
                       /\ e.value = IF d.set[p][k] = "0" THEN "unbounded" ELSE d.set[p][k]

IdentityExact(c, f, m, k) ==
    LET id(l) == <<IdentityAt(f, l).mod, IdentityAt(f, l).name>>
        all == UNION {{<<i, j>> : j \in DOMAIN c.mods[i].idents} : i \in DOMAIN c.mods}
        from(b) == {x \in all : \E y \in ToSet(c.mods[x[1]].idents[x[2]].bases) :
                       <<Imported(c.mods[x[1]].idents[x[2]].file, y.prefix), y.name>> = <<c.mods[b[1]].name, c.mods[b[1]].idents[b[2]].name>>}
        RECURSIVE below(_)
        below(b) == from(b) \cup UNION {below(x) : x \in from(b)}
    IN  /\ ToSet(Derived(f, <<m, k>>)) = below(<<m, k>>) /\ IsInjective(Derived(f, <<m, k>>))
        /\ \A x \in all : <<m, k>> \in ToSet(BaseIdentities(f, x)) <=> x \in from(<<m, k>>)

(* A module has its own top-level nodes and operations, its prefixes name  *)
(* what it imports, and its legacy tree is its data nodes in their order.  *)
ModuleExact(c, f, m) ==
    LET mod == f.modules[m]
        said == (CHOOSE x \in ToSet(c.mods) : x.name = mod.name /\ x.rev = mod.rev)
        roots(refs) == {NodeData(f, refs[i]).ptr : i \in DOMAIN refs}
        tops(kinds) == {a \in DOMAIN c.nodes : c.nodes[a].parent = Null /\ c.nodes[a].said.kind \in kinds /\ f.ptrs[a][1] = m}
        legacy == PreOrder(SchemaTree(c, said))
        view(n) == <<n.name, n.kind, n.isKey>>
        plain(a) == [i \in DOMAIN Above(c, a) |-> c.nodes[Above(c, a)[i]].name]
        found(a) == Find(SchemaTree(c, said), plain(a))
    IN  /\ mod.impl = said.impl
        /\ roots(TopLevelNodes(f, m)) = tops(DataChildKinds) /\ roots(RPCs(f, m)) = tops({"rpc"})
        /\ roots(Notifications(f, m)) = tops({"notification"})
        /\ \A imp \in ToSet(mod.imports) : \A x \in ResolvePrefix(f, m, imp.prefix) :
             f.modules[x].name = imp.name /\ (imp.rev # "" => f.modules[x].rev = imp.rev)
        /\ said.data # Null =>
             /\ \A i \in 2 .. Len(legacy) :
                  /\ view(legacy[i]) = view(mod.nodes[i])
                  /\ mod.nodes[i].kind \in ListKinds => legacy[i].orderedByUser = (mod.nodes[i].orderedBy = "user")
                  /\ mod.nodes[i].kind = "list" =>
                       legacy[i].keyNames = [k \in DOMAIN mod.nodes[i].keys |-> mod.nodes[mod.nodes[i].keys[k]].name]
                  /\ (legacy[i].leafType = "int") = (mod.nodes[i].type.base \in IntegerBases \cup {"decimal64"})
             /\ \A a \in UNION {{b \in DOMAIN c.nodes : Above(c, b)[1] = t} : t \in tops(DataChildKinds)} :
                  LET path == <<mod.name>> \o plain(a)
                      same == FindPath(f, m, [i \in DOMAIN path |-> [prefix |-> "", name |-> path[i]]])
                  IN  IF same = 0 THEN found(a) = NoNode ELSE found(a) # NoNode /\ view(found(a)) = view(mod.nodes[same])

SchemaKept(c, f) ==
    /\ DOMAIN f.ptrs = DOMAIN c.nodes
    /\ \A a \in DOMAIN c.nodes : NodeExact(c, f, a)
    /\ \A m \in DOMAIN f.modules :
         ModuleExact(c, f, m) /\ \A k \in DOMAIN f.modules[m].idents : IdentityExact(c, f, m, k)
    /\ \A mod \in ToSet(c.mods) : mod.impl =>
         f.modules[Lowest(ModuleIndexForImport(f, mod.name, mod.rev))].impl

(* The forest is the schema of libyang: a compiled node is one node in it, *)
(* with its own parent, children, keys, unique leaves, leafref target and  *)
(* owner, although the children of all the cases of a choice are linked in *)
(* one list and a target may be in a later module; with the attributes and *)
(* bounds its statement gave it, although the flags of different kinds     *)
(* share bits and a bound is a 64-bit cell; a path that names the modules  *)
(* finds it again; a canonical value of it reads as that value; and the    *)
(* derived identities are all those that lead to the base, once each       *)
(* (addModule, walkSchemaSiblings, findPath, parseValue).                  *)
ForestExact ==
    schemaForest # NoForest /\ NoReaders =>
        Compute("SchemaKept", <<Holding(schemaForest.loads), schemaForest.content>>)
=============================================================================
