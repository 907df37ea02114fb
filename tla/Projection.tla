----------------------------- MODULE Projection -----------------------------
(***************************************************************************)
(* Ordered projections of a schema (go/cambium/schema_projection.go): the  *)
(* selected paths are merged one after the other into one tree of the nodes*)
(* a payload needs, filtered by relative paths, and the tree is then put   *)
(* into schema order.                                                      *)
(*                                                                         *)
(* The tree under construction maps the place of a node, the identifiers   *)
(* from its root, to its roles and to its children in order of entry; the  *)
(* place <<>> holds the roots.                                             *)
(***************************************************************************)
EXTENDS SchemaViews

CONSTANT Selections  \* the schema, module, paths and options asked about

VARIABLES building,  \* the tree under construction
          selecting,      \* the paths not yet selected
          projected  \* the outcome, and the roots of the projection
jvars == <<building, selecting, projected>>

Sel == probe.question
PS == Views[Sel.schema]
Opts == Sel.opts
PNode(id) == PS.nodes[id]
ChildrenShown(id) == DataChildrenOf(PS, id, Opts.flat)

NoProjection == <<>> :> [role |-> {}, order |-> <<>>]
Running == [outcome |-> "running", roots |-> <<>>]
ProjectionIdle == building = NoProjection /\ selecting = <<>> /\ projected = Running

EnsureChild(b, at, id, role) ==
    LET here == Append(at, id) IN
    IF here \in DOMAIN b THEN [b EXCEPT ![here].role = @ \cup role]
    ELSE [b EXCEPT ![at].order = Append(@, id)] @@ (here :> [role |-> role, order |-> <<>>])

AddListKeys(b, at) ==
    LET n == PNode(Last(at)) IN
    IF ~Opts.keys \/ n.kind # "list" THEN b
    ELSE FoldLeft(LAMBDA x, k : EnsureChild(x, at, k, {"key"}), b, n.keys)

Ensure(b, at, id, role) == AddListKeys(EnsureChild(b, at, id, role), Append(at, id))

------------------------------------------------------------------------------
(* Filters: the nodes the relative paths of a target lead to.              *)
ChildByQName(m, id, step) ==
    LET want == SourceQNameModule(PS, m, step[1])
        Is(k) == \/ step[1] = ""
                 \/ IF want # "none" THEN k.mod = want
                    ELSE step[1] \in {k.mod, PS.mods[k.mod].prefix}
        here == SelectSeq(ChildrenShown(id), LAMBDA k : PNode(k).name = step[2] /\ Is(PNode(k)))
    IN  IF Len(here) = 1 THEN here[1] ELSE "none"

RelativePath(target, path) ==
    FoldLeft(LAMBDA at, step : IF at = "none" THEN at ELSE ChildByQName(PNode(target).mod, at, step),
             target, path)

FilterNodes(target, paths) ==
    {RelativePath(target, paths[i]) : i \in DOMAIN paths}
FiltersFor(target) ==
    LET all(paths) == FilterNodes(target, paths)
    IN  [ok |-> Opts.lenient \/ "none" \notin all(Opts.allow) \cup all(Opts.ignore),
         allow |-> all(Opts.allow) \ {"none"}, ignore |-> all(Opts.ignore) \ {"none"}]

AncestorOrSelf(a, id) == a \in ToSet(Way(PS, id))
Ignored(f, id) == \E r \in f.ignore : AncestorOrSelf(r, id)
Allowed(f, id) ==
    f.allow = {} \/ \E r \in f.allow : AncestorOrSelf(id, r) \/ AncestorOrSelf(r, id)

------------------------------------------------------------------------------
(* Which nodes below a target are wanted, and as what.                     *)
MandatoryHere(id) ==
    PNode(id).mand \/ (PNode(id).kind \in {"list", "leaf-list"} /\ PNode(id).min > 0)
DefaultHere(id) == PNode(id).dflts # <<>>

SupplementalRole(id, protected) ==
    (IF (Opts.mandatory \/ protected) /\ MandatoryHere(id) THEN {"mandatory"} ELSE {})
    \cup (IF Opts.defaults /\ DefaultHere(id) THEN {"default"} ELSE {})

ProtectsMandatory(f, id) ==
    /\ Opts.protect /\ (Opts.mandatory \/ Opts.descendants)
    /\ MandatoryHere(id) /\ (Ignored(f, id) \/ ~Allowed(f, id))

(* The roles of a child, {} when it is not wanted for itself.              *)
ChildInclusion(f, id) ==
    LET protected == ProtectsMandatory(f, id)
        passes == Allowed(f, id) \/ protected
    IN  IF (Opts.configOnly /\ ~PNode(id).cfg) \/ (Ignored(f, id) /\ ~protected) THEN {}
        ELSE IF Opts.descendants /\ passes
        THEN {"descendant"} \cup SupplementalRole(id, protected)
        ELSE IF Opts.mandatory /\ MandatoryHere(id) /\ passes THEN SupplementalRole(id, protected)
        ELSE IF Opts.defaults /\ DefaultHere(id) /\ Allowed(f, id) THEN SupplementalRole(id, FALSE)
        ELSE {}

(* As HasIncludedDescendant, but for the children only.                    *)
HasIncludedChild(f, id) ==
    ~(Opts.configOnly /\ ~PNode(id).cfg) /\ \E k \in ToSet(ChildrenShown(id)) : ChildInclusion(f, k) # {}

RECURSIVE HasIncludedDescendant(_, _)
HasIncludedDescendant(f, id) ==
    /\ ~(Opts.configOnly /\ ~PNode(id).cfg)
    /\ \E k \in ToSet(ChildrenShown(id)) : ChildInclusion(f, k) # {} \/ HasIncludedDescendant(f, k)

RECURSIVE IncludeDescendants(_, _, _)
IncludeDescendants(b, at, f) ==
    FoldLeft(LAMBDA x, k :
        LET own == ChildInclusion(f, k)
            role == IF own = {} /\ HasIncludedDescendant(f, k) THEN {"descendant"} ELSE own
        IN  IF role = {} THEN x
            ELSE IncludeDescendants(Ensure(x, at, k, role), Append(at, k), f),
        b, ChildrenShown(Last(at)))

SelectedRole(id) == {"selected"} \cup SupplementalRole(id, FALSE)

(* The ancestors of a target, then the target and what is wanted below it. *)
AddSelection(b, target) ==
    LET f == FiltersFor(target)
        up == IF Opts.flat THEN DataAncestorsOf(PS, target) ELSE AncestorsOf(PS, target)
        spine == FoldLeft(LAMBDA x, i : Ensure(x, SubSeq(up, 1, i - 1), up[i], {"ancestor"}),
                          b, [i \in DOMAIN up |-> i])
    IN  IncludeDescendants(Ensure(spine, up, target, SelectedRole(target)), Append(up, target), f)

------------------------------------------------------------------------------
(* The projection, in schema order: the keys of a list first, then the     *)
(* children as the schema has them, then what neither names.               *)
Listed(ids, b, at) == SelectSeq(ids, LAMBDA k : Append(at, k) \in DOMAIN b)
Unlisted(ids, seen) == SelectSeq(ids, LAMBDA k : k \notin ToSet(seen))

OrderedByEntry(b, at) == b[at].order

OrderedChildren(b, at) ==
    LET keys == IF at # <<>> /\ Opts.keysFirst /\ PNode(Last(at)).kind = "list"
                THEN PNode(Last(at)).keys ELSE <<>>
        natural == IF at = <<>> THEN TopLevel(PS, Sel.module) ELSE ChildrenShown(Last(at))
        first == Listed(keys, b, at) \o Unlisted(Listed(natural, b, at), keys)
    IN  first \o Unlisted(b[at].order, first)

RECURSIVE Project(_, _)
Project(b, at) ==
    FoldLeft(LAMBDA out, k :
                LET here == Append(at, k)
                IN  Append(out, [way |-> here, role |-> b[here].role, kids |-> Project(b, here)]),
             <<>>, OrderedChildren(b, at))

------------------------------------------------------------------------------
(* A path has to lead to a data node at which the filters resolve.         *)
Selectable(t) == t # "none" /\ IsDataNode(PNode(t)) /\ FiltersFor(t).ok

(* ProjectSchemaPaths starts with no selection; ProjectSubtree with one    *)
(* node, selected, that config-only does not exclude.                      *)
SubtreeOf(target) ==
    IF ~Selectable(target)
    THEN [outcome |-> "error", roots |-> <<>>]
    ELSE [outcome |-> "done", roots |->
            Project(IncludeDescendants(Ensure(NoProjection, <<>>, target, SelectedRole(target)),
                                       <<target>>, FiltersFor(target)), <<>>)]

StartProjection ==
    /\ Unasked
    /\ \E q \in Selections : Ask("project", q) /\ selecting' = q.paths
    /\ UNCHANGED <<building, projected>>

ProjectSubtree ==
    /\ Asked("project") /\ projected = Running /\ Sel.subtree # "none"
    /\ projected' = ComputeView("SubtreeOf", <<Sel.subtree>>)
    /\ UNCHANGED <<probe, building, selecting>>

SelectPath ==
    /\ Asked("project") /\ projected = Running /\ selecting # <<>>
    /\ LET target == ComputeView("FindByPath", <<PS, Sel.module, Head(selecting)>>)
       IN  IF ~ComputeView("Selectable", <<target>>)
           THEN projected' = [outcome |-> "error", roots |-> <<>>] /\ UNCHANGED building
           ELSE /\ UNCHANGED projected
                /\ building' = IF Opts.configOnly /\ ~PNode(target).cfg THEN building
                               ELSE ComputeView("AddSelection", <<building, target>>)
    /\ selecting' = Tail(selecting)
    /\ UNCHANGED probe

EndProjection ==
    /\ Asked("project") /\ projected = Running /\ selecting = <<>> /\ Sel.subtree = "none"
    /\ projected' = [outcome |-> "done", roots |-> ComputeView("Project", <<building, <<>>>>)]
    /\ UNCHANGED <<probe, building, selecting>>

ProjectionNext == StartProjection \/ ProjectSubtree \/ SelectPath \/ EndProjection

------------------------------------------------------------------------------
(* What a projection has to be, whatever the order the paths are given in. *)
(* A node is wanted below a target when the filters keep it and an option  *)
(* asks for it, or when it is a protected mandatory node the filters drop. *)
Rooted == Sel.subtree # "none"
TargetsOf ==
    IF Rooted THEN <<Sel.subtree>>
    ELSE [i \in DOMAIN Sel.paths |-> FindByPath(PS, Sel.module, Sel.paths[i])]
Chosen == {t \in ToSet(TargetsOf) : Rooted \/ ~(Opts.configOnly /\ ~PNode(t).cfg)}

Shown(id) == IsDataNode(PNode(id)) \/ ~Opts.flat
ShownWay(id) ==
    LET way == Way(PS, id)
        from == IF Rooted THEN SelectInSeq(way, LAMBDA k : k = Sel.subtree) ELSE 1
    IN  SelectSeq(SubSeq(way, from, Len(way)), Shown)

StrictlyBelow(t) ==
    {id \in DOMAIN PS.nodes :
        /\ id # t /\ AncestorOrSelf(t, id) /\ Shown(id)
        /\ ~\E a \in ToSet(Way(PS, id)) :
             AncestorOrSelf(t, a) /\ PNode(a).kind \in {"rpc", "action", "notification"}}

KeptBy(f, id) == Allowed(f, id) /\ ~Ignored(f, id)
SavedFrom(f, id) ==
    Opts.protect /\ (Opts.mandatory \/ Opts.descendants) /\ MandatoryHere(id) /\ ~KeptBy(f, id)
WantedBelow(t) ==
    LET f == FiltersFor(t) IN
    {id \in StrictlyBelow(t) :
        /\ PNode(id).cfg \/ ~Opts.configOnly
        /\ \/ SavedFrom(f, id)
           \/ /\ KeptBy(f, id)
              /\ \/ Opts.descendants \/ (Opts.mandatory /\ MandatoryHere(id))
                 \/ (Opts.defaults /\ DefaultHere(id))}

(* The roles of a node below a target, of which "wanted" are wanted.       *)
RolesBelow(t, wanted, id) ==
    IF id \in wanted
    THEN (IF Opts.descendants THEN {"descendant"} ELSE {})
         \cup SupplementalRole(id, SavedFrom(FiltersFor(t), id))
    ELSE IF \E w \in wanted : AncestorOrSelf(id, w) THEN {"descendant"} ELSE {}

RolesBut(wants, id) ==
    (IF id \in Chosen THEN SelectedRole(id) ELSE {})
    \cup (IF ~Rooted /\ \E t \in Chosen : id # t /\ AncestorOrSelf(id, t) THEN {"ancestor"} ELSE {})
    \cup UNION {RolesBelow(w.of, w.wanted, id) : w \in {x \in wants : id \in x.below}}

RolesOf(wants, id) ==
    LET owner == PNode(id).up IN
    RolesBut(wants, id) \cup
    IF Opts.keys /\ PNode(owner).kind = "list" /\ id \in ToSet(PNode(owner).keys)
       /\ RolesBut(wants, owner) # {}
    THEN {"key"} ELSE {}

RECURSIVE Emitted(_)
Emitted(roots) ==
    Concat([i \in DOMAIN roots |->
        <<[way |-> roots[i].way, role |-> roots[i].role]>> \o Emitted(roots[i].kids)])

(* The order of siblings, of roots too: keys first where that is asked for,*)
(* then that of the schema, never that of the paths.                       *)
WalkOrder == FoldLeft(LAMBDA t, k : AddRecord(PS, t, k), <<>>, TopNodes(PS))
IndexIn(ids, id) == SelectInSeq(ids, LAMBDA k : k = id)
SiblingRank(walk, way) ==
    LET id == Last(way)
        owner == PNode(id).up
        key == IF Opts.keysFirst /\ PNode(owner).kind = "list" THEN IndexIn(PNode(owner).keys, id) ELSE 0
    IN  IF key > 0 THEN key - Len(walk) ELSE IndexIn(walk, id)

(* Paths or filters that do not resolve are an error.  Otherwise the tree  *)
(* the calls built has exactly the nodes and roles the options describe,   *)
(* each once, below the nearest node shown, siblings in schema order.      *)
ProjectedExactly ==
    LET out == Emitted(projected.roots)
        walk == WalkOrder
        wants == {[of |-> t, below |-> StrictlyBelow(t), wanted |-> WantedBelow(t)] : t \in Chosen}
        all == {[id |-> id, role |-> RolesOf(wants, id)] :
                  id \in {k \in DOMAIN PS.nodes : Shown(k) /\ PNode(k).kind # "module"}}
    IN  IF \E t \in ToSet(TargetsOf) : ~Selectable(t) THEN projected.outcome = "error" ELSE
        /\ projected.outcome = "done" /\ IsInjective(out)
        /\ ToSet(out) = {[way |-> ShownWay(x.id), role |-> x.role] : x \in {y \in all : y.role # {}}}
        /\ \A i, j \in DOMAIN out :
             i < j /\ Front(out[i].way) = Front(out[j].way) =>
               SiblingRank(walk, out[i].way) < SiblingRank(walk, out[j].way)
=============================================================================
