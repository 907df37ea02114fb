------------------------------ MODULE PureTree ------------------------------
(***************************************************************************)
(* The pure-Go data tree (go/datatree): parsing a document into a tree in  *)
(* canonical order, filling in defaults, and validating it.                *)
(*                                                                         *)
(* A schema maps identifiers to nodes; a node of a tree has the schema     *)
(* node sn it instantiates, the values vals of a leaf or leaf-list, and    *)
(* sets, the children of a container (its only set) or of the entries of a *)
(* list.  A document is a sequence of members, their names with the module *)
(* or without ("").  Conditions (when, must) stand for the XPath the code  *)
(* evaluates: that a node some levels up has a value.                      *)
(***************************************************************************)
EXTENDS DataValues

CONSTANT Documents  \* the schemas and documents asked about

VARIABLES given,  \* the tree as it was parsed
          tree    \* the tree after the defaults were filled in so often
tvars == <<given, tree>>

Sch == probe.question.schema
Node(id) == Sch.nodes[id]

RECURSIVE AppendFlattened(_)
AppendFlattened(ids) ==
    Concat([i \in DOMAIN ids |->
        IF Node(ids[i]).kind \in {"choice", "case"} THEN AppendFlattened(Node(ids[i]).kids)
        ELSE <<ids[i]>>])

(* The modules of a tree are ordered by name, whatever order they are given*)
(* in, and none is given twice.                                            *)
TopLevelModules ==
    SetToSortSeq(ToSet(Sch.mods), LAMBDA m, n : ByteRank[m] < ByteRank[n])
TopLevelSchema ==
    Concat([i \in DOMAIN TopLevelModules |-> Sch.tops[TopLevelModules[i]]])

------------------------------------------------------------------------------
(* Parsing.                                                                *)
KeysInPlace(id, kids) == kids

KeysFirst(id, kids) ==
    LET keys == Node(id).keys
        Of(k) == SelectSeq(kids, LAMBDA n : n.sn = k)
    IN  Concat([i \in DOMAIN keys |-> Of(keys[i])])
        \o SelectSeq(kids, LAMBDA n : n.sn \notin ToSet(keys))

SystemOrdered(id) ==
    LET n == Node(id) IN
    n.sys /\ n.cfg /\ (n.kind = "leaf-list" \/ (n.kind = "list" /\ n.keys # <<>>))

InvalidOrderKey == InvalidKey([shape |-> "", text |-> <<>>])
EntryOrderKeys(id, entry) ==
    [i \in DOMAIN Node(id).keys |->
        LET k == Node(id).keys[i]
            at == {j \in DOMAIN entry : entry[j].sn = k}
        IN  IF at = {} THEN InvalidOrderKey
            ELSE Compute("ValueOrderKey", <<Node(k).type, entry[CHOOSE j \in at : TRUE].vals[1], Node(k).mod>>)]

SortSystemOrdered(n) ==
    LET sn == Node(n.sn) IN
    IF ~SystemOrdered(n.sn) THEN n
    ELSE [n EXCEPT
        !.vals = Compute("SortStable", <<@, [i \in DOMAIN @ |-> <<Compute("ValueOrderKey", <<sn.type, @[i], sn.mod>>)>>]>>),
        !.sets = Compute("SortStable", <<@, [i \in DOMAIN @ |-> EntryOrderKeys(n.sn, @[i])]>>)]

CanonicalLeafToken(id, tok) == Compute("CanonicalToken", <<Node(id).type, tok, Node(id).mod>>)

(* The member for a node: by its module and name, or by its name alone     *)
(* inside a node of its own module.                                        *)
LookupMember(id, raw, parentMod) ==
    LET named(m) == {i \in DOMAIN raw : raw[i].mod = m /\ raw[i].name = Node(id).name}
    IN  IF named(Node(id).mod) # {} THEN named(Node(id).mod)
        ELSE IF parentMod # "" /\ Node(id).mod = parentMod THEN named("") ELSE {}

RECURSIVE ParseChildren(_, _, _), ParseNode(_, _)
ParseNode(id, member) ==
    LET of(raw) == ParseChildren(AppendFlattened(Node(id).kids), raw, Node(id).mod)
        sets == [i \in DOMAIN member.sets |-> of(member.sets[i])]
    IN  [ok |-> \A i \in DOMAIN sets : sets[i].ok,
         node |-> SortSystemOrdered(
            [sn |-> id, vals |-> [i \in DOMAIN member.vals |-> CanonicalLeafToken(id, member.vals[i])],
             sets |-> [i \in DOMAIN sets |-> KeysFirst(id, sets[i].nodes)]])]

(* The children present, in schema order; a member no child consumes, or   *)
(* one given twice, is an error.                                           *)
ParseChildren(ids, raw, parentMod) ==
    LET at(id) == LookupMember(id, raw, parentMod)
        here == SelectSeq(ids, LAMBDA id : at(id) # {})
        parsed == [i \in DOMAIN here |-> ParseNode(here[i], raw[CHOOSE j \in at(here[i]) : TRUE])]
    IN  [ok |-> /\ \A i, j \in DOMAIN raw :
                     raw[i].mod = raw[j].mod /\ raw[i].name = raw[j].name => i = j
                /\ UNION {at(here[i]) : i \in DOMAIN here} = DOMAIN raw
                /\ \A i \in DOMAIN parsed : parsed[i].ok,
         nodes |-> [i \in DOMAIN parsed |-> parsed[i].node]]

Parse(raw) == ParseChildren(AppendFlattened(TopLevelSchema), raw, "")

(* Writing a tree: names carry the module where it is not the parent's.    *)
RECURSIVE WriteObject(_, _)
WriteObject(nodes, parentMod) ==
    [i \in DOMAIN nodes |->
        LET sn == Node(nodes[i].sn) IN
        [mod |-> IF sn.mod = parentMod THEN "" ELSE sn.mod, name |-> sn.name,
         vals |-> nodes[i].vals,
         sets |-> [k \in DOMAIN nodes[i].sets |-> WriteObject(nodes[i].sets[k], sn.mod)]]]

------------------------------------------------------------------------------
(* Which case of a choice is in effect.  A level is the sequence of nodes  *)
(* present in one container or entry.                                      *)
Instances(level, id) == {i \in DOMAIN level : level[i].sn = id}
InstanceAt(level, id) == level[CHOOSE i \in Instances(level, id) : TRUE]

CaseSchema(c) == IF Node(c).kind = "case" THEN Node(c).kids ELSE <<c>>

Instantiated(n) ==
    CASE Node(n.sn).kind = "leaf-list" -> n.vals # <<>>
      [] Node(n.sn).kind = "list" -> n.sets # <<>>
      [] OTHER -> TRUE

(* More than an empty non-presence container.                              *)
RECURSIVE CarriesData(_)
CarriesData(n) ==
    /\ Instantiated(n)
    /\ Node(n.sn).kind = "container" /\ ~Node(n.sn).presence =>
         \E i \in DOMAIN n.sets[1] : CarriesData(n.sets[1][i])

CaseHas(c, level, Has(_)) ==
    \E i \in DOMAIN level : level[i].sn \in ToSet(AppendFlattened(<<c>>)) /\ Has(level[i])

FirstCase(choice, cases) ==
    IF cases = {} THEN "none"
    ELSE LET kids == Node(choice).kids
             i == CHOOSE i \in DOMAIN kids : kids[i] \in cases
                     /\ \A j \in 1 .. i - 1 : kids[j] \notin cases
         IN  kids[i]

DataCase_AnyNode(choice, level) ==
    FirstCase(choice, {c \in ToSet(Node(choice).kids) : CaseHas(c, level, Instantiated)})

DataCase(choice, level) ==
    FirstCase(choice, {c \in ToSet(Node(choice).kids) : CaseHas(c, level, CarriesData)})

EffectiveCase_DefaultFirst(choice, level) ==
    LET named == {c \in ToSet(Node(choice).kids) : Node(c).name = Node(choice).dcase}
    IN  IF named # {} THEN FirstCase(choice, named) ELSE DataCase(choice, level)

EffectiveCase(choice, level) ==
    IF DataCase(choice, level) # "none" THEN DataCase(choice, level)
    ELSE FirstCase(choice, {c \in ToSet(Node(choice).kids) : Node(c).name = Node(choice).dcase})

(* A condition at a node of the last of the levels given, which lead to it *)
(* from the top: TRUE, FALSE, or not supported by the XPath engine.        *)
NoCondition == [up |-> 0, id |-> "", val |-> {}]
Condition(c, levels) ==
    LET level == levels[Len(levels) - c.up] IN
    CASE c.id = "" -> "true"
      [] c.id = "?" -> "unsupported"
      [] c.id \notin {"", "?"} ->
           IF \E i \in Instances(level, c.id) : ToSet(level[i].vals) \cap c.val # {}
           THEN "true" ELSE "false"

(* The when of an absent node must hold for anything to be asked of it.    *)
Active(id, levels) == Condition(Node(id).when, levels) = "true"

------------------------------------------------------------------------------
(* Defaults.  Conditions are evaluated in the tree as it was given.        *)
DefaultNode(id) ==
    SortSystemOrdered(
        [sn |-> id, sets |-> <<>>,
         vals |-> [i \in DOMAIN Node(id).dflts |-> CanonicalLeafToken(id, Node(id).dflts[i])]])

AppendCaseData(c, level, dropEmpty) ==
    LET all == AppendFlattened(<<c>>)
        here == SelectSeq(all, LAMBDA id : Instances(level, id) # {} /\
                                 (dropEmpty => CarriesData(InstanceAt(level, id))))
    IN  [i \in DOMAIN here |-> InstanceAt(level, here[i])]

RECURSIVE AppendDefaults(_, _), DefaultsFor(_, _)
DefaultsFor(id, levels) ==
    LET sn == Node(id)
        level == Last(levels)
        n == InstanceAt(level, id)
        below == AppendDefaults(sn.kids, Append(levels, <<>>))
        in == EffectiveCase(id, level)
    IN  CASE sn.kind = "choice" ->
               Concat([i \in DOMAIN sn.kids |->
                   IF sn.kids[i] = in THEN AppendDefaults(CaseSchema(in), levels)
                   ELSE AppendCaseData(sn.kids[i], level, in # "none")])
          [] sn.kind # "choice" /\ Instances(level, id) # {} ->
               <<[n EXCEPT !.sets = [i \in DOMAIN @ |->
                   KeysFirst(id, AppendDefaults(sn.kids, Append(levels, @[i])))]]>>
          [] sn.kind # "choice" /\ Instances(level, id) = {} ->
               IF sn.dflts # <<>> /\ Active(id, levels) THEN <<DefaultNode(id)>> ELSE <<>>

AppendDefaults(ids, levels) == Concat([i \in DOMAIN ids |-> DefaultsFor(ids[i], levels)])

ApplyDefaults(roots) == AppendDefaults(TopLevelSchema, <<roots>>)

------------------------------------------------------------------------------
(* Validation: the set of what is wrong, with the schema node it is about. *)
Violation(what, id) == {[what |-> what, id |-> id]}
When(bad, what, id) == IF bad THEN Violation(what, id) ELSE {}

CheckElements(id, count) ==
    When(count < Node(id).min, "min-elements", id)
    \cup When(Node(id).max >= 0 /\ count > Node(id).max, "max-elements", id)

(* Entries with all their keys have them together only once.               *)
CheckListKeys(id, n) ==
    LET keys == Node(id).keys
        complete == {i \in DOMAIN n.sets : \A k \in ToSet(keys) : Instances(n.sets[i], k) # {}}
        tuple(i) == [k \in DOMAIN keys |-> InstanceAt(n.sets[i], keys[k]).vals[1]]
    IN  When(keys # <<>> /\ complete # DOMAIN n.sets, "key missing", id)
        \cup When(keys # <<>> /\ \E i, j \in complete : i < j /\ tuple(i) = tuple(j), "key twice", id)

CheckLeafListUnique(n) ==
    When(Node(n.sn).cfg /\ ~IsInjective(n.vals), "value twice", n.sn)

LeafValueKey(id, tok) == Compute("ValueKey", <<Node(id).type, tok, Node(id).mod>>)
NoValue == <<>>

(* The value of a leaf below an entry, by the way down to it, or the       *)
(* default in use there.                                                   *)
RECURSIVE EntryLeafValue(_, _)
EntryLeafValue(chain, levels) ==
    LET id == Head(chain)
        sn == Node(id)
        level == Last(levels)
        here == Instances(level, id) # {}
        empty == sn.kind = "container" /\ ~sn.presence
    IN  CASE sn.kind = "choice" ->
               IF EffectiveCase(id, level) = chain[2] THEN EntryLeafValue(Tail(chain), levels)
               ELSE NoValue
          [] sn.kind = "case" -> EntryLeafValue(Tail(chain), levels)
          [] sn.kind = "leaf" /\ here -> <<LeafValueKey(id, InstanceAt(level, id).vals[1])>>
          [] sn.kind = "leaf" /\ ~here ->
               IF Active(id, levels) /\ sn.dflts # <<>>
               THEN <<LeafValueKey(id, CanonicalLeafToken(id, sn.dflts[1]))>> ELSE NoValue
          [] sn.kind \in {"container", "list"} ->
               IF here THEN EntryLeafValue(Tail(chain), Append(levels, InstanceAt(level, id).sets[1]))
               ELSE IF Active(id, levels) /\ empty
               THEN EntryLeafValue(Tail(chain), Append(levels, <<>>)) ELSE NoValue

CheckUnique(id, n, levels) ==
    LET value(i, chain) == EntryLeafValue(chain, Append(levels, n.sets[i]))
        same(u, i, j) == \A k \in DOMAIN u : value(i, u[k]) # NoValue /\ value(i, u[k]) = value(j, u[k])
    IN  When(\E u \in ToSet(Node(id).uniq), i, j \in DOMAIN n.sets : i < j /\ same(u, i, j), "unique", id)

(* The values a leafref path reaches, as comparison keys.                  *)
RECURSIVE Reached(_, _)
Reached(level, steps) ==
    IF Instances(level, Head(steps)) = {} THEN {}
    ELSE LET n == InstanceAt(level, Head(steps)) IN
         IF Len(steps) = 1 THEN {LeafValueKey(n.sn, n.vals[i]) : i \in DOMAIN n.vals}
         ELSE UNION {Reached(n.sets[i], Tail(steps)) : i \in DOMAIN n.sets}

(* up 0 is an absolute path.                                               *)
CheckLeafRefInstance(id, tok, levels) ==
    LET ref == Node(id).type.ref
        start == IF ref.up = 0 THEN levels[1] ELSE levels[Len(levels) + 1 - ref.up]
    IN  When(Node(id).type.base = "leafref" /\ LeafValueKey(id, tok) \notin Reached(start, ref.steps),
             "leafref", id)

CheckValue(id, tok, levels) ==
    When(~ValidateLeafValue(Node(id).type, tok, Node(id).mod), "type", id)
    \cup CheckLeafRefInstance(id, tok, levels)

RECURSIVE Level(_, _), Nodes(_, _), Missing(_, _), Choice(_, _)
Level(ids, levels) == UNION {Nodes(ids[i], levels) : i \in DOMAIN ids}

Nodes(id, levels) ==
    LET sn == Node(id)
        n == InstanceAt(Last(levels), id)
        within == UNION {Level(sn.kids, Append(levels, n.sets[i])) : i \in DOMAIN n.sets}
        values == UNION {CheckValue(id, n.vals[i], levels) : i \in DOMAIN n.vals}
    IN  CASE sn.kind = "choice" -> Choice(id, levels)
          [] sn.kind # "choice" /\ Instances(Last(levels), id) = {} -> Missing(id, levels)
          [] OTHER -> CASE sn.kind = "list" -> CheckElements(id, Len(n.sets)) \cup CheckListKeys(id, n)
                                               \cup CheckUnique(id, n, levels) \cup within
                        [] sn.kind = "leaf-list" -> CheckElements(id, Len(n.vals))
                                               \cup CheckLeafListUnique(n) \cup values
                        [] sn.kind = "container" -> within
                        [] sn.kind = "leaf" -> values

Missing(id, levels) ==
    LET sn == Node(id) IN
    IF ~Active(id, levels) THEN {}
    ELSE When(sn.mand, "mandatory", id) \cup When(sn.min > 0, "min-elements", id)
         \cup IF sn.kind = "container" /\ ~sn.presence THEN Level(sn.kids, Append(levels, <<>>)) ELSE {}

Choice(id, levels) ==
    LET level == Last(levels)
        in == DataCase(id, level)
        withData == {c \in ToSet(Node(id).kids) : CaseHas(c, level, Instantiated)}
    IN  When(Cardinality(withData) > 1, "two cases", id)
        \cup IF in # "none" THEN Level(CaseSchema(in), levels)
             ELSE When(Node(id).mand /\ Active(id, levels), "mandatory", id)

(* Every node present, whatever its case, keeps its when and must.         *)
RECURSIVE WalkMustWhen(_)
WalkMustWhen(levels) ==
    UNION {LET n == Last(levels)[i] sn == Node(n.sn) IN
           When(Instantiated(n) /\ Condition(sn.when, levels) = "false", "when", n.sn)
           \cup When(Instantiated(n) /\ Condition(sn.must, levels) = "false", "must", n.sn)
           \cup UNION {WalkMustWhen(Append(levels, n.sets[k])) : k \in DOMAIN n.sets}
             : i \in DOMAIN Last(levels)}

Validate(roots) == Level(TopLevelSchema, <<roots>>) \cup WalkMustWhen(<<roots>>)

------------------------------------------------------------------------------
NoTree == [ok |-> FALSE, nodes |-> <<>>]
TreeIdle == given = NoTree /\ tree = NoTree

AskDocument ==
    /\ Unasked
    /\ Unasked /\ \E d \in Documents : \E doc \in d.docs : Ask("tree", [schema |-> d.schema, doc |-> doc])
    /\ UNCHANGED tvars

ParseDocument ==
    /\ Asked("tree") /\ ~given.ok
    /\ given' = Parse(probe.question.doc) /\ tree' = given'
    /\ UNCHANGED probe

FillDefaults ==
    /\ Asked("tree") /\ given.ok
    /\ tree' = [tree EXCEPT !.nodes = ApplyDefaults(@)]
    /\ UNCHANGED <<probe, given>>

TreeNext == AskDocument \/ ParseDocument \/ FillDefaults

(* The document with the members of every object, the values of system-    *)
(* ordered leaf-lists and the entries of system-ordered lists reversed.    *)
RECURSIVE Reordered(_)
Reordered(raw) ==
    Reverse([i \in DOMAIN raw |->
        LET sets == [k \in DOMAIN raw[i].sets |-> Reordered(raw[i].sets[k])]
            free == \E id \in DOMAIN Sch.nodes :
                        Node(id).name = raw[i].name /\ SystemOrdered(id)
        IN  [raw[i] EXCEPT !.vals = IF free THEN Reverse(@) ELSE @,
                           !.sets = IF free THEN Reverse(sets) ELSE sets]])

RECURSIVE InSchemaOrder(_, _)
InSchemaOrder(level, ids) ==
    LET pos(n) == CHOOSE i \in DOMAIN ids : ids[i] = n.sn
        below(n) == LET kids == AppendFlattened(Node(n.sn).kids)
                        keys == Node(n.sn).keys
                    IN  keys \o SelectSeq(kids, LAMBDA k : k \notin ToSet(keys))
    IN  \A i \in DOMAIN level :
          /\ i > 1 => pos(level[i - 1]) < pos(level[i])
          /\ \A k \in DOMAIN level[i].sets : InSchemaOrder(level[i].sets[k], below(level[i]))

(* A tree does not depend on the order of the members of a document, nor on*)
(* that of system-ordered values and entries that differ; it is in schema  *)
(* order with keys first, also after the defaults were filled in; and what *)
(* is written out and read back is the same tree (parseChildren, keysFirst,*)
(* sortSystemOrdered, writeObject).                                        *)
ParseCanonical ==
    Asked("tree") /\ given.ok =>
      /\ InSchemaOrder(tree.nodes, AppendFlattened(TopLevelSchema))
      /\ Parse(WriteObject(tree.nodes, "")) = tree
      /\ tree = given /\ Validate(given.nodes) = {} => Parse(Reordered(probe.question.doc)) = given

(* The levels of a tree by the way to them: the node and which of its sets.*)
RECURSIVE Ways(_), LevelsOn(_, _)
Ways(level) ==
    {<<>>} \cup UNION {UNION {{<<<<level[i].sn, k>>>> \o w : w \in Ways(level[i].sets[k])}
                         : k \in DOMAIN level[i].sets} : i \in DOMAIN level}
LevelsOn(level, way) ==
    IF way = <<>> THEN <<level>>
    ELSE <<level>> \o LevelsOn(InstanceAt(level, way[1][1]).sets[way[1][2]], Tail(way))
OwnerOf(way) == IF way = <<>> THEN "/" ELSE Last(way)[1]

(* What a data node is a child of, past choices and cases.                 *)
RECURSIVE DataUp(_)
DataUp(id) ==
    LET up == Node(id).up IN IF Node(up).kind \in {"choice", "case"} THEN DataUp(up) ELSE up
SchemaIds == DOMAIN Sch.nodes \ {"/"}
DataNodes == {id \in SchemaIds : Node(id).kind \notin {"choice", "case"}}

RECURSIVE HasContent(_)
HasContent(n) ==
    \/ n.vals # <<>>
    \/ n.sets # <<>> /\ (Node(n.sn).kind = "list" \/ Node(n.sn).presence)
    \/ \E k \in DOMAIN n.sets : \E i \in DOMAIN n.sets[k] : HasContent(n.sets[k][i])

(* A node belongs to a level if it is in the case that each choice above it*)
(* has there, the first with content; or in the default case of a choice   *)
(* without any.                                                            *)
RECURSIVE IsIn(_, _), Belongs(_, _, _)
IsIn(id, c) == id = c \/ (Node(id).up # "/" /\ IsIn(Node(id).up, c))
Filled(c, level) == \E i \in DOMAIN level : IsIn(level[i].sn, c) /\ HasContent(level[i])
Belongs(id, level, defaults) ==
    LET up == Node(id).up
        choice == IF Node(up).kind = "case" THEN Node(up).up ELSE up
        case == IF Node(up).kind = "case" THEN up ELSE id
        kids == Node(choice).kids
        pos == CHOOSE i \in DOMAIN kids : kids[i] = case
    IN  Node(choice).kind = "choice" =>
          /\ Belongs(choice, level, defaults)
          /\ IF Filled(choice, level)
             THEN Filled(case, level) /\ \A i \in 1 .. pos - 1 : ~Filled(kids[i], level)
             ELSE defaults /\ Node(choice).dcase = Node(case).name

(* Filling in defaults adds to the levels that exist exactly the leaves and*)
(* leaf-lists whose defaults are in use there, changes and loses nothing   *)
(* but empty containers of cases without effect, keeps a valid tree valid, *)
(* and doing it again adds nothing (ApplyDefaults), though a choice's case *)
(* is found from the data while that is rebuilt.                           *)
DefaultsKept(old, new, owner) ==
    \A id \in {x \in DataNodes : DataUp(x) = owner} :
        LET had == Instances(Last(old), id) # {}
            has == Instances(Last(new), id) # {}
            inUse == /\ Node(id).dflts # <<>> /\ Active(id, old)
                     /\ Belongs(id, Last(old), TRUE)
        IN  /\ ~had => (has <=> inUse)
            /\ had /\ has => InstanceAt(Last(new), id).vals = InstanceAt(Last(old), id).vals
                             /\ Len(InstanceAt(Last(new), id).sets) = Len(InstanceAt(Last(old), id).sets)
            /\ had /\ ~has => ~HasContent(InstanceAt(Last(old), id))

DefaultsExact ==
    Asked("tree") /\ tree # given =>
      /\ ApplyDefaults(tree.nodes) = tree.nodes
      /\ Validate(given.nodes) = {} => Validate(tree.nodes) = {}
      /\ \A way \in Ways(given.nodes) \cap Ways(tree.nodes) :
           DefaultsKept(LevelsOn(given.nodes, way), LevelsOn(tree.nodes, way), OwnerOf(way))

(* Both hold of every tree.                                                *)
TreesExact == ParseCanonical /\ DefaultsExact

(* The levels in which the children of a node are asked for: those of its  *)
(* instances where it belongs, and an empty one where a non-presence       *)
(* container is absent and its when holds.                                 *)
RECURSIVE Contexts(_)
Contexts(p) ==
    IF p = "/" THEN {<<tree.nodes>>}
    ELSE LET above == {ls \in Contexts(DataUp(p)) : Belongs(p, Last(ls), FALSE)}
             there(ls) == Instances(Last(ls), p) # {}
         IN  UNION {IF there(ls) THEN {Append(ls, s) : s \in ToSet(InstanceAt(Last(ls), p).sets)}
                    ELSE IF Node(p).kind = "container" /\ ~Node(p).presence /\ Active(p, ls)
                    THEN {Append(ls, <<>>)} ELSE {} : ls \in above}

(* The value an entry has for a unique leaf once the defaults are filled in*)
(* on the way down to it.                                                  *)
RECURSIVE FilledValue(_, _, _)
FilledValue(chain, levels, owner) ==
    LET c == Head(chain)
        data == AppendDefaults(Node(owner).kids, levels)
        next == IF Instances(Last(levels), c) # {} THEN InstanceAt(Last(levels), c).sets[1] ELSE <<>>
    IN  IF Node(c).kind \in {"choice", "case"} THEN FilledValue(Tail(chain), levels, owner)
        ELSE IF Len(chain) = 1
        THEN IF Instances(data, c) = {} THEN NoValue ELSE <<LeafValueKey(c, InstanceAt(data, c).vals[1])>>
        ELSE IF next # <<>> \/ (Belongs(c, Last(levels), TRUE) /\ Active(c, levels) /\ ~Node(c).presence)
        THEN FilledValue(Tail(chain), Append(levels, next), c) ELSE NoValue

(* Each rule of the schema at a level its node belongs to.                 *)
BrokenBy(id, levels) ==
    LET sn == Node(id)
        level == Last(levels)
        here == Instances(level, id) # {}
        n == InstanceAt(level, id)
        whole == {i \in DOMAIN n.sets : \A k \in ToSet(sn.keys) : Instances(n.sets[i], k) # {}}
        keyOf(i) == {<<k, InstanceAt(n.sets[i], k).vals[1]>> : k \in ToSet(sn.keys)}
        uniqueOf(i, u) == [k \in DOMAIN u |-> FilledValue(u[k], Append(levels, n.sets[i]), id)]
        count == IF ~here THEN 0 ELSE Len(n.sets) + Len(n.vals)
        full == {c \in ToSet(sn.kids) : \E i \in DOMAIN level : IsIn(level[i].sn, c) /\ Instantiated(level[i])}
        breaks(what) ==
          CASE what = "mandatory" -> /\ sn.mand /\ Active(id, levels)
                                     /\ IF sn.kind = "choice" THEN ~Filled(id, level) ELSE ~here
            [] what = "min-elements" -> count < sn.min /\ (here \/ Active(id, levels))
            [] what = "max-elements" -> sn.max >= 0 /\ count > sn.max
            [] what = "key missing" -> here /\ sn.kind = "list" /\ whole # DOMAIN n.sets
            [] what = "key twice" -> /\ here /\ sn.kind = "list" /\ sn.keys # <<>>
                                     /\ Cardinality({keyOf(i) : i \in whole}) # Cardinality(whole)
            [] what = "unique" ->
                 here /\ \E u \in ToSet(sn.uniq), i, j \in DOMAIN n.sets :
                    i # j /\ uniqueOf(i, u) = uniqueOf(j, u) /\ NoValue \notin ToSet(uniqueOf(i, u))
            [] what = "value twice" -> /\ here /\ sn.kind = "leaf-list" /\ sn.cfg
                                       /\ Cardinality(ToSet(n.vals)) # Len(n.vals)
            [] what = "type" -> here /\ \E v \in ToSet(n.vals) : ~ValidateLeafValue(sn.type, v, sn.mod)
            [] what = "leafref" -> here /\ \E v \in ToSet(n.vals) : CheckLeafRefInstance(id, v, levels) # {}
            [] what = "two cases" -> sn.kind = "choice" /\ Cardinality(full) > 1
    IN  UNION {When(breaks(w), w, id) : w \in {"mandatory", "min-elements", "max-elements", "key missing",
                   "key twice", "unique", "value twice", "type", "leafref", "two cases"}}

(* And the conditions of every instance, wherever it is.                   *)
FalseAt(id, levels) ==
    IF \E i \in Instances(Last(levels), id) : Instantiated(Last(levels)[i])
    THEN When(Condition(Node(id).when, levels) = "false", "when", id)
         \cup When(Condition(Node(id).must, levels) = "false", "must", id)
    ELSE {}

Broken ==
    UNION {UNION {BrokenBy(id, ls) : ls \in {x \in Contexts(DataUp(id)) : Belongs(id, Last(x), FALSE)}}
             : id \in SchemaIds \ {x \in SchemaIds : Node(x).kind = "case"}}
    \cup UNION {UNION {FalseAt(id, LevelsOn(tree.nodes, w)) : id \in {x \in DataNodes : DataUp(x) = OwnerOf(w)}}
                  : w \in Ways(tree.nodes)}

(* Validation reports exactly what breaks a rule of the schema, each rule  *)
(* asked of every level in which its node belongs: below an absent         *)
(* non-presence container but not below a presence one, in the case that   *)
(* has data and in no other, with the defaults in use counted as values of *)
(* unique leaves (Validate, missing, choice, checkUnique).                 *)
ValidateExact == Asked("tree") /\ tree.ok => Validate(tree.nodes) = Broken
=============================================================================
