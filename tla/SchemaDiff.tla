----------------------------- MODULE SchemaDiff -----------------------------
(***************************************************************************)
(* Comparing two built schemas (go/cambium/schema_diff.go).  The nodes of  *)
(* both are matched by local path, or by namespace-qualified path where a  *)
(* local path occurs twice; matched nodes are compared fact by fact.       *)
(***************************************************************************)
EXTENDS SchemaViews

CONSTANT Comparisons  \* the pairs of schemas, and of their modules, compared

(* What is compared of a node.  A type keeps what restricts its values and *)
(* loses its texts; a leafref's target is named by its qualified path.     *)
RECURSIVE TypeFingerprint(_, _)
TypeFingerprint(s, t) ==
    CASE t.base = "none" -> <<>>
      [] t.base = "leafref" ->
            <<t.base, t.typedefs, t.path, t.require,
              IF t.target = "none" THEN <<>> ELSE QualifiedPath(s, t.target)>>
      [] t.base = "union" ->
            <<t.base, t.typedefs, [i \in DOMAIN t.members |-> TypeFingerprint(s, t.members[i])]>>
      [] OTHER -> <<t.base, t.typedefs, t.limits>>

LocalPaths(s, ids) == [i \in DOMAIN ids |-> LocalPath(s, ids[i])]
ConstraintFingerprint(s, n) ==
    <<n.mand, n.presence, n.user, n.feats, n.min, n.max, n.musts,
      [i \in DOMAIN n.whens |-> <<n.whens[i].test, n.whens[i].mod, n.whens[i].depth,
                                  LocalPaths(s, n.whens[i].except)>>],
      [i \in DOMAIN n.uniq |-> LocalPaths(s, n.uniq[i])]>>

AugmentFingerprint(n) == IF n.group = "" /\ n.mod # n.inst THEN n.mod ELSE ""

Aspects == <<"node_kind_changed", "type_changed", "key_changed", "default_changed",
             "config_changed", "constraint_changed", "augment_changed", "deviation_changed">>
Fingerprint(s, id, aspect) ==
    LET n == s.nodes[id] IN
    CASE aspect = "node_kind_changed" -> n.kind
      [] aspect = "type_changed" -> TypeFingerprint(s, n.type)
      [] aspect = "key_changed" -> [i \in DOMAIN n.keys |-> s.nodes[n.keys[i]].name]
      [] aspect = "default_changed" -> n.dflts
      [] aspect = "config_changed" -> n.cfg
      [] aspect = "constraint_changed" -> ConstraintFingerprint(s, n)
      [] aspect = "augment_changed" -> AugmentFingerprint(n)
      [] aspect = "deviation_changed" -> n.devs

Same(a, x, b, y, aspect) == Fingerprint(a, x, aspect) = Fingerprint(b, y, aspect)

Change(kind, x, y) == [kind |-> kind, old |-> x, new |-> y]
CompareNode(a, x, b, y) ==
    LET differs == SelectSeq(Aspects, LAMBDA aspect : ~Same(a, x, b, y, aspect))
    IN  [i \in DOMAIN differs |-> Change(differs[i], x, y)]

------------------------------------------------------------------------------
RECURSIVE CollectRefs(_, _)
CollectRefs(s, ids) ==
    Concat([i \in DOMAIN ids |-> <<ids[i]>> \o CollectRefs(s, s.nodes[ids[i]].kids)])

(* The local paths met a second time in a walk.                            *)
TwiceIn(s, refs) ==
    FoldLeft(LAMBDA met, id :
                LET path == LocalPath(s, id)
                IN  IF path \in met.once THEN [met EXCEPT !.twice = @ \cup {path}]
                    ELSE [met EXCEPT !.once = @ \cup {path}],
             [once |-> {}, twice |-> {}], refs).twice
OldDuplicateLocals(a, xs, b, ys) == TwiceIn(a, xs)
DuplicateLocals(a, xs, b, ys) == TwiceIn(a, xs) \cup TwiceIn(b, ys)

(* A local path as the namespace-qualified one without its namespaces.     *)
EntryKey(s, id, twice) ==
    LET local == LocalPath(s, id)
    IN  IF local \in twice THEN NamespacePath(s, id) ELSE [i \in DOMAIN local |-> <<"", local[i]>>]

(* The entries with their keys, and the last one with each key.            *)
DiffEntries(s, refs, twice) ==
    FoldLeft(LAMBDA es, id : Append(es, [key |-> EntryKey(s, id, twice), ref |-> id]), <<>>, refs)
ByKey(entries) == FoldLeft(LAMBDA f, e : (e.key :> e.ref) @@ f, <<>>, entries)

(* Old nodes with their match, if there is one, then new ones without one, *)
(* then old ones without.                                                  *)
DiffModules(a, m, b, n) ==
    LET xs == CollectRefs(a, a.nodes[m].kids)
        ys == CollectRefs(b, b.nodes[n].kids)
        twice == DuplicateLocals(a, xs, b, ys)
        olds == DiffEntries(a, xs, twice)
        news == DiffEntries(b, ys, twice)
        there == ByKey(news)
        known == DOMAIN ByKey(olds)
        added == SelectSeq(news, LAMBDA e : e.key \notin known)
        removed == SelectSeq(olds, LAMBDA e : e.key \notin DOMAIN there)
    IN  FoldLeft(LAMBDA cs, e : IF e.key \in DOMAIN there
                                THEN cs \o CompareNode(a, e.ref, b, there[e.key]) ELSE cs,
                 <<>>, olds)
        \o [i \in DOMAIN added |-> Change("node_added", "none", added[i].ref)]
        \o [i \in DOMAIN removed |-> Change("node_removed", removed[i].ref, "none")]

ModuleKey(s, m) == <<m, s.mods[m].rev>>
DiffContexts(a, b) ==
    LET gone(s, m, t) == \A k \in DOMAIN t.order : ModuleKey(t, t.order[k]) # ModuleKey(s, m)
        new == SelectSeq(b.order, LAMBDA m : gone(b, m, a))
    IN  Concat([i \in DOMAIN a.order |->
            IF gone(a, a.order[i], b) THEN <<Change("node_removed", a.order[i], "none")>>
            ELSE DiffModules(a, a.order[i], b, a.order[i])])
        \o [i \in DOMAIN new |-> Change("node_added", "none", new[i])]

(* A comparison names two schemas, and a module of each or none.           *)
CompareSchemas == Unasked /\ \E q \in Comparisons : Ask("diff", q)

Diff(q, a, b) ==
    IF q.modules = <<>> THEN DiffContexts(a, b)
    ELSE DiffModules(a, q.modules[1], b, q.modules[2])

------------------------------------------------------------------------------
(* What a comparison has to say, without an order: which nodes correspond, *)
(* and in what they differ.                                                *)
ModuleNodes(s, m) == ToSet(CollectRefs(s, s.nodes[m].kids))

(* Each node with the path it is known by when it is the only one with its *)
(* local path in both modules, and with the path it has in any case.       *)
Located(s, ids) == {[id |-> k, local |-> LocalPath(s, k), full |-> NamespacePath(s, k)] : k \in ids}
Ambiguous(nodes) == {p.local : p \in {x \in nodes : \E y \in nodes : x.id # y.id /\ x.local = y.local}}

ChangesBetween(a, m, b, n) ==
    LET xs == Located(a, ModuleNodes(a, m))
        ys == Located(b, ModuleNodes(b, n))
        clash == Ambiguous(xs) \cup Ambiguous(ys)
        Met(x, y) == x.local = y.local /\ (x.local \notin clash \/ x.full = y.full)
    IN  {Change("node_added", "none", y.id) : y \in {k \in ys : \A x \in xs : ~Met(x, k)}}
        \cup {Change("node_removed", x.id, "none") : x \in {k \in xs : \A y \in ys : ~Met(k, y)}}
        \cup UNION {{Change(f, p[1].id, p[2].id) : f \in {g \in ToSet(Aspects) : ~Same(a, p[1].id, b, p[2].id, g)}} :
                       p \in {q \in xs \X ys : Met(q[1], q[2])}}

(* A schema as the set of its nodes and what is compared of them.          *)
FactsOf(s, m) ==
    {<<NamespacePath(s, k), [f \in ToSet(Aspects) |-> Fingerprint(s, k, f)]>> : k \in ModuleNodes(s, m)}

Mirrored(c) ==
    Change(CASE c.kind = "node_added" -> "node_removed" [] c.kind = "node_removed" -> "node_added"
             [] OTHER -> c.kind, c.new, c.old)

(* The diff of two modules lists each difference once; the other way round *)
(* it is its mirror image, and it is empty exactly when the two have the   *)
(* same nodes with the same facts.                                         *)
DiffedExactly(a, m, b, n) ==
    LET there == DiffModules(a, m, b, n)
        back  == DiffModules(b, n, a, m)
    IN  /\ IsInjective(there) /\ ToSet(there) = ChangesBetween(a, m, b, n)
        /\ ToSet(back) = {Mirrored(c) : c \in ToSet(there)}
        /\ a.mods[m].ns = b.mods[n].ns => (there = <<>> <=> FactsOf(a, m) = FactsOf(b, n))

(* Contexts differ in the modules only one of them has, and in the others  *)
(* module by module.                                                       *)
ContextsDiffExactly(a, b) ==
    LET keys(s) == {ModuleKey(s, m) : m \in ToSet(s.order)}
        both == keys(a) \cap keys(b)
    IN  ToSet(DiffContexts(a, b)) =
          {Change("node_removed", k[1], "none") : k \in keys(a) \ both}
          \cup {Change("node_added", "none", k[1]) : k \in keys(b) \ both}
          \cup UNION {ChangesBetween(a, k[1], b, k[1]) : k \in both}

DiffExact ==
    Asked("diff") =>
      LET q == probe.question
          a == Views[q.old]
          b == Views[q.new]
      IN  IF q.modules = <<>> THEN ComputeView("ContextsDiffExactly", <<a, b>>)
          ELSE ComputeView("DiffedExactly", <<a, q.modules[1], b, q.modules[2]>>)
=============================================================================
