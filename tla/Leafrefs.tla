------------------------------ MODULE Leafrefs ------------------------------
(***************************************************************************)
(* Leafrefs of the schema IR (go/cambium, schema_types.go, resolution.go,  *)
(* schema_leafref_cycles.go, schema_leafref_realtypes.go): targets found   *)
(* node by node, deref() resolving other leafrefs ahead of their turn, the *)
(* search for cycles, and the copies of the target's types.                *)
(*                                                                         *)
(* A program has modules in load order, each with a root node of its name, *)
(* and nodes [name, mod, kind, up, kids, cfg, keys, type].  A type is a    *)
(* leafref with its path and the module that wrote it, a union, or a name. *)
(* A walk is the set of the nodes it has reached, which is one or none.    *)
(***************************************************************************)
EXTENDS Probe, SequencesExt

CONSTANT LeafrefPrograms

VARIABLES lphase,    \* "resolve", "cycles", "realtypes", or how it ended
          waiting,   \* the nodes left of the phase
          ltypes,    \* node -> type, leafrefs with target and realtype
          lerrors,   \* the nodes with a schema error
          search,    \* the walk for cycles
          complete   \* the nodes whose real types are copied
lvars == <<lphase, waiting, ltypes, lerrors, search, complete>>

Untyped == [base |-> "none"]
IsData(p, n) == p.nodes[n].kind \notin {"choice", "case"}
Prefixed(step) == step.prefix # ""
StepModule(p, src, step) ==
    IF step.prefix = src THEN {src} ELSE {p.imports[src][x] : x \in {step.prefix} \cap DOMAIN p.imports[src]}

FirstKid(kids, Ok(_)) == IF \E i \in DOMAIN kids : Ok(kids[i]) THEN {SelectSeq(kids, Ok)[1]} ELSE {}
StepNames(p, n, step, mods) ==
    p.nodes[n].name = step.name /\ (Prefixed(step) => p.nodes[n].mod \in mods)

RECURSIVE DataParentNode(_, _), DataKids(_, _)
DataParentNode(p, n) ==
    LET up == p.nodes[n].up IN
    IF up = {} \/ \A u \in up : IsData(p, u) THEN up ELSE UNION {DataParentNode(p, u) : u \in up}
DataKids(p, n) ==  \* looking through choices and cases
    Concat([i \in DOMAIN p.nodes[n].kids |->
        LET k == p.nodes[n].kids[i] IN IF IsData(p, k) THEN <<k>> ELSE DataKids(p, k)])
DataChildNode(p, n, step, mods) == LET ok(k) == StepNames(p, k, step, mods) IN FirstKid(DataKids(p, n), ok)
SchemaChild(p, n, step, mods) == LET ok(k) == StepNames(p, k, step, mods) IN FirstKid(p.nodes[n].kids, ok)

ContainsLeafref(type) ==
    LET RECURSIVE has(_)
        has(t) == t.base = "leafref" \/ (t.base = "union" /\ \E m \in ToSet(t.members) : has(m))
    IN  has(type)

------------------------------------------------------------------------------
(* Targets.  r: the types so far and the leafrefs on the way (seen).       *)
WalkPath(p, start, steps, src, Up(_), Down(_, _, _)) ==
    FoldLeft(LAMBDA cur, step :
               CASE step.op = "self" -> cur
                 [] step.op = "up" -> UNION {Up(n) : n \in cur}
                 [] step.op = "deref" -> {}
                 [] OTHER -> UNION {Down(n, step, StepModule(p, src, step)) : n \in cur},
             start, steps)
RootOf(p, src, root, path) == IF Prefixed(path.steps[1]) THEN StepModule(p, src, path.steps[1]) ELSE {root}
FindLeafrefDataPath(p, start, src, root, path) ==
    LET up(n) == DataParentNode(p, n)
        down(n, step, mods) == DataChildNode(p, n, step, mods)
    IN  WalkPath(p, IF path.abs THEN RootOf(p, src, root, path) ELSE {start}, path.steps, src, up, down)
FindSourceSchemaPath(p, src, path) ==
    LET up(n) == {}
        down(n, step, mods) == SchemaChild(p, n, step, mods)
    IN  WalkPath(p, RootOf(p, src, src, path), path.steps, src, up, down)

RECURSIVE FindRelativeSchemaPath(_, _, _, _, _), LeafRefTargetNode(_, _, _), ResolveLeafRef(_, _, _, _, _)
FindRelativeSchemaPath(p, r, start, src, steps) ==
    LET take(w, step) ==
          LET n == CHOOSE x \in w.at : TRUE
              ref == FindRelativeSchemaPath(p, w.r, n, src, step.arg.steps)
          IN  IF w.at = {} THEN w
              ELSE CASE step.op = "self" -> w
                     [] step.op = "up" -> [w EXCEPT !.at = p.nodes[n].up]
                     [] step.op = "deref" -> LeafRefTargetNode(p, ref.r, ref.at)
                     [] OTHER -> [w EXCEPT !.at = SchemaChild(p, n, step, StepModule(p, src, step))]
    IN  FoldLeft(take, [r |-> r, at |-> {start}], steps)

(* The target of a leafref that a path derefs, resolved now if it is not.  *)
LeafRefTargetNode(p, r, at) ==
    LET n == CHOOSE x \in at : TRUE
        lr == r.types[n]
        out == ResolveLeafRef(p, [r EXCEPT !.seen = @ \cup {n}], n, p.nodes[n].mod, lr)
    IN  IF at = {} \/ r.types[n].base # "leafref" THEN [r |-> r, at |-> {}]
        ELSE IF lr.target # {} THEN [r |-> r, at |-> lr.target]
        ELSE IF n \in r.seen THEN [r |-> r, at |-> {}]
        ELSE [r |-> [out.r EXCEPT !.types[n] = out.lr], at |-> out.lr.target]

ResolveLeafRef(p, r, n, src, lr) ==
    LET mine == p.nodes[n].mod
        rel == FindRelativeSchemaPath(p, r, n, src, lr.path.steps)
        foreign == IF mine # src /\ ~Prefixed(lr.path.steps[1]) THEN FindLeafrefDataPath(p, n, src, mine, lr.path) ELSE {}
        schema == IF ~lr.path.abs THEN rel.at ELSE IF foreign # {} THEN foreign ELSE FindSourceSchemaPath(p, src, lr.path)
        at == IF schema # {} THEN schema ELSE FindLeafrefDataPath(p, n, src, src, lr.path)
    IN  [r |-> IF lr.path.abs THEN r ELSE rel.r,
         lr |-> [lr EXCEPT !.target = IF at # {} /\ \A t \in at : p.nodes[t].type # Untyped THEN at ELSE @]]

------------------------------------------------------------------------------
(* Predicates: [key, steps], steps <<>> when it is not a current()/.. path.*)
LeafrefDataChild(p, src, at, step) ==
    LET mods == StepModule(p, src, step)
        from == IF Prefixed(step) /\ (at = {} \/ \E n \in at : p.nodes[n].kind = "module") THEN mods
                ELSE IF at = {} THEN {src} ELSE at
    IN  IF Prefixed(step) /\ mods = {} THEN {} ELSE UNION {DataChildNode(p, n, step, mods) : n \in from}

PredicatePath(p, src, n, steps) ==
    FoldLeft(LAMBDA w, step :
               IF w.lost THEN w
               ELSE LET to == IF step.op = "up" THEN UNION {DataParentNode(p, x) : x \in w.at}
                              ELSE LeafrefDataChild(p, src, w.at, step)
                    IN  [at |-> to, lost |-> to = {}],
             [at |-> {n}, lost |-> FALSE], steps).at
KeyNamed(p, src, list, q) ==
    LET mods == StepModule(p, src, q)
        ok(k) == p.nodes[k].name = q.name /\ (Prefixed(q) /\ mods # {} => p.nodes[k].mod \in mods)
    IN  FirstKid(p.nodes[list].keys, ok)
PredicatesFault(p, src, n, list, preds) ==
    \/ preds # <<>> /\ (p.nodes[list].kind # "list" \/ p.nodes[list].keys = <<>>)
    \/ \E i \in DOMAIN preds :
         LET key == KeyNamed(p, src, list, preds[i].key)
             right == PredicatePath(p, src, n, preds[i].steps)
         IN  \/ key = {} \/ \E j \in 1 .. i - 1 : key = KeyNamed(p, src, list, preds[j].key)
             \/ preds[i].steps = <<>> \/ right = {} \/ \E t \in right : p.nodes[t].kind # "leaf"

(* Step by step from the node, or from the root; stops where it is lost.   *)
PathFault(p, src, n, path) ==
    FoldLeft(LAMBDA w, step :
               LET up == UNION {DataParentNode(p, x) : x \in w.at}
                   down == LeafrefDataChild(p, src, w.at, step)
                   to == IF step.op = "up" THEN up ELSE IF step.op = "to" THEN down ELSE {}
               IN  IF w.lost \/ step.op = "self" THEN w
                   ELSE [at |-> to, lost |-> to = {},
                         fault |-> w.fault \/ \E l \in to : PredicatesFault(p, src, n, l, step.preds)],
             [at |-> IF path.abs THEN {} ELSE {n}, lost |-> FALSE, fault |-> FALSE], path.steps).fault

LeafrefFault(p, n, lr) ==
    LET impl == p.nodes[n].mod \in p.impl IN
    \/ impl /\ lr.target = {}
    \/ p.nodes[n].cfg /\ lr.require /\ \E t \in lr.target : ~p.nodes[t].cfg
    \/ impl /\ lr.target # {} /\ PathFault(p, lr.src, n, lr.path)

(* Every leafref of the node's type, also as a member of a union.          *)
RECURSIVE ResolveInType(_, _, _)
ResolveInType(p, w, n) ==
    LET one == ResolveLeafRef(p, [w.r EXCEPT !.seen = {}], n, w.t.src, w.t)
        member(acc, m) ==
          LET x == ResolveInType(p, [r |-> acc.r, t |-> m, fault |-> acc.fault], n)
          IN  [r |-> x.r, ms |-> Append(acc.ms, x.t), fault |-> x.fault]
        all == FoldLeft(member, [r |-> w.r, ms |-> <<>>, fault |-> w.fault], w.t.members)
    IN  CASE w.t.base = "leafref" -> [r |-> one.r, t |-> one.lr, fault |-> w.fault \/ LeafrefFault(p, n, one.lr)]
          [] w.t.base = "union" -> [r |-> all.r, t |-> [w.t EXCEPT !.members = all.ms], fault |-> all.fault]
          [] OTHER -> w

------------------------------------------------------------------------------
(* Cycles.  s: the nodes on the stack, those finished, the back edges, and *)
(* whether a cycle has ended the walk.                                     *)
DirectTargets(type) == IF type.base = "leafref" THEN SetToSeq(type.target) ELSE <<>>
RECURSIVE TargetsIn(_)
TargetsIn(type) ==
    IF type.base = "union" THEN Concat([i \in DOMAIN type.members |-> TargetsIn(type.members[i])])
    ELSE DirectTargets(type)
LeafrefTargets(type) == TargetsIn(type)

RECURSIVE VisitCycles(_, _, _, _)
VisitCycles(types, vendor, s, n) ==
    LET follow(w, t) ==
          IF w.found \/ ~ContainsLeafref(types[t]) \/ t \in w.done THEN w
          ELSE IF t \in ToSet(w.stack) THEN [w EXCEPT !.back = @ \cup {<<n, t>>}, !.found = ~vendor]
          ELSE VisitCycles(types, vendor, w, t)
        out == FoldLeft(follow, [s EXCEPT !.stack = Append(@, n)], LeafrefTargets(types[n]))
    IN  IF out.found THEN out ELSE [out EXCEPT !.stack = Front(@), !.done = @ \cup {n}]

(* Real types: copied when the target is complete, not when it is on the   *)
(* way, so that the copies end.                                            *)
RECURSIVE VisitReal(_, _), RealInType(_, _)
VisitReal(s, n) ==
    LET out == RealInType([s EXCEPT !.active = @ \cup {n}], s.types[n])
    IN  IF ~ContainsLeafref(s.types[n]) \/ n \in s.active \cup s.complete THEN s
        ELSE [out.s EXCEPT !.types[n] = out.t, !.active = @ \ {n}, !.complete = @ \cup {n}]
RealInType(s, type) ==
    LET t == CHOOSE x \in type.target : TRUE
        at == IF type.target = {} THEN s ELSE VisitReal(s, t)
        known == type.target # {} /\ t \notin at.active
        member(acc, m) == LET x == RealInType(acc.s, m) IN [s |-> x.s, ms |-> Append(acc.ms, x.t)]
        all == FoldLeft(member, [s |-> s, ms |-> <<>>], type.members)
    IN  CASE type.base = "leafref" -> [s |-> at, t |-> [type EXCEPT !.real = IF known THEN <<at.types[t]>> ELSE <<>>]]
          [] type.base = "union" -> [s |-> all.s, t |-> [type EXCEPT !.members = all.ms]]
          [] OTHER -> [s |-> s, t |-> type]

(* ResolveLeafrefChain: the node it ends at and its type, or why not.      *)
RECURSIVE ResolveChain(_, _, _, _)
ResolveChain(types, n, seen, real) ==
    IF n \in seen THEN [end |-> "cycle"]
    ELSE IF types[n].base # "leafref" THEN IF seen = {} THEN [end |-> "not a leafref"] ELSE [end |-> n, real |-> real]
    ELSE IF types[n].target = {} THEN [end |-> "unresolved"]
    ELSE ResolveChain(types, CHOOSE t \in types[n].target : TRUE, seen \cup {n},
                      IF types[n].real = <<>> THEN real ELSE types[n].real)

------------------------------------------------------------------------------
RECURSIVE NodesBelow(_, _)
NodesBelow(p, n) ==
    Concat([i \in DOMAIN p.nodes[n].kids |-> <<p.nodes[n].kids[i]>> \o NodesBelow(p, p.nodes[n].kids[i])])
TypedNodes(p, mods) ==
    Concat([i \in DOMAIN p.order |->
        IF p.order[i] \in mods THEN SelectSeq(NodesBelow(p, p.order[i]), LAMBDA n : p.nodes[n].type # Untyped) ELSE <<>>])

NoSearch == [stack |-> <<>>, done |-> {}, back |-> {}, found |-> FALSE]
LeafrefsIdle ==
    lphase = "idle" /\ waiting = <<>> /\ ltypes = <<>> /\ lerrors = {} /\ search = NoSearch /\ complete = {}

AskLeafrefs ==
    /\ Unasked
    /\ \E p \in LeafrefPrograms :
        /\ Ask("leafrefs", p)
        /\ waiting' = TypedNodes(p, ToSet(p.order))
        /\ ltypes' = [n \in DOMAIN p.nodes |-> p.nodes[n].type]
    /\ lphase' = "resolve"
    /\ UNCHANGED <<lerrors, search, complete>>

ResolveLeafRefs ==
    /\ lphase = "resolve" /\ waiting # <<>>
    /\ LET n == Head(waiting)
           out == Compute("ResolveInType", <<probe.question, [r |-> [types |-> ltypes, seen |-> {}], t |-> ltypes[n], fault |-> FALSE], n>>)
       IN  /\ ltypes' = [out.r.types EXCEPT ![n] = out.t]
           /\ lerrors' = IF out.fault THEN lerrors \cup {n} ELSE lerrors
    /\ waiting' = Tail(waiting)
    /\ UNCHANGED <<probe, lphase, search, complete>>

ValidateLeafrefCycles ==
    /\ lphase = "cycles" /\ waiting # <<>>
    /\ LET n == Head(waiting) IN
       search' = IF ~ContainsLeafref(ltypes[n]) \/ n \in search.done THEN search
                 ELSE VisitCycles(ltypes, probe.question.vendor, search, n)
    /\ lphase' = IF search'.found THEN "cycle" ELSE "cycles"
    /\ waiting' = Tail(waiting)
    /\ UNCHANGED <<probe, ltypes, lerrors, complete>>

ResolveLeafrefRealtypes ==
    /\ lphase = "realtypes" /\ waiting # <<>>
    /\ LET out == VisitReal([types |-> ltypes, active |-> {}, complete |-> complete], Head(waiting)) IN
       ltypes' = out.types /\ complete' = out.complete
    /\ waiting' = Tail(waiting)
    /\ UNCHANGED <<probe, lphase, lerrors, search>>

NextLeafrefPhase ==
    /\ waiting = <<>> /\ lphase \in {"resolve", "cycles", "realtypes"}
    /\ lphase' = CASE lphase = "resolve" -> "cycles" [] lphase = "cycles" -> "realtypes"
                   [] OTHER -> IF lerrors # {} THEN "refused" ELSE "done"
    /\ LET mods == IF lphase' = "cycles" THEN probe.question.impl ELSE ToSet(probe.question.order) IN
       waiting' = IF lphase' \in {"cycles", "realtypes"} THEN TypedNodes(probe.question, mods) ELSE <<>>
    /\ UNCHANGED <<probe, ltypes, lerrors, search, complete>>

LeafrefsNext == AskLeafrefs \/ ResolveLeafRefs \/ ValidateLeafrefCycles \/ ResolveLeafrefRealtypes \/ NextLeafrefPhase

------------------------------------------------------------------------------
(* What a path means in the data tree, and where following leafrefs leads. *)
RECURSIVE PathReaches(_, _, _, _, _), Meant(_, _, _, _)
PathReaches(p, depth, at, src, steps) ==
    LET step == Head(steps)
        to == CASE step.op = "self" -> at
                [] step.op = "up" -> UNION {DataParentNode(p, n) : n \in at}
                [] step.op = "to" -> {k \in DOMAIN p.nodes : /\ IsData(p, k) /\ DataParentNode(p, k) \in {{n} : n \in at}
                                                             /\ StepNames(p, k, step, StepModule(p, src, step))}
                [] step.op = "deref" -> UNION {Meant(p, depth, n, p.nodes[n].type) :
                                                 n \in UNION {PathReaches(p, depth, {a}, src, step.arg.steps) : a \in at}}
    IN  IF steps = <<>> THEN at ELSE PathReaches(p, depth, to, src, Tail(steps))
Meant(p, depth, n, lr) ==
    LET from(m) == PathReaches(p, depth - 1, IF lr.path.abs THEN RootOf(p, lr.src, m, lr.path) ELSE {n}, lr.src, lr.path.steps)
        mine == from(p.nodes[n].mod)
    IN  IF depth = 0 \/ lr.base # "leafref" THEN {}
        ELSE {t \in (IF lr.path.abs /\ mine = {} THEN from(lr.src) ELSE mine) : p.nodes[t].type # Untyped}

RECURSIVE LeafrefsIn(_)
LeafrefsIn(t) == IF t.base = "leafref" THEN {t} ELSE IF t.base = "union" THEN UNION {LeafrefsIn(m) : m \in ToSet(t.members)} ELSE {}
Follows(n) == UNION {lr.target : lr \in LeafrefsIn(ltypes[n])}
RECURSIVE Beyond(_)
Beyond(ns) == LET more == ns \cup UNION {Follows(n) : n \in ns} IN IF more = ns THEN ns ELSE Beyond(more)
Cyclic(n) == n \in Beyond(Follows(n))
NeverEnds(n) == \E t \in Beyond({n}) : Cyclic(t)

RECURSIVE Full(_, _)
Full(p, t) ==
    CASE t.base = "leafref" -> [t EXCEPT !.real = [i \in 1 .. Cardinality(t.target) |->
                                                     Full(p, ltypes[CHOOSE x \in t.target : TRUE])]]
      [] t.base = "union" -> [t EXCEPT !.members = [i \in DOMAIN @ |-> Full(p, @[i])]]
      [] OTHER -> t

(* A leafref targets the node its path reaches in the data tree, whichever *)
(* module wrote the path and in whatever order the leafrefs are resolved,  *)
(* deref() first or not; the only errors are paths that reach nothing,     *)
(* configuration that requires state, and predicates that are wrong.  In   *)
(* strict mode no leafref of an implemented module leads to a cycle, in    *)
(* vendor mode the reported edges break all the cycles; real types are     *)
(* complete where following ends, and a chain ends where following does    *)
(* (resolveLeafRefWithSeen, validateLeafrefCycles,                         *)
(* resolveLeafrefRealtypes, ResolveLeafrefChain).                          *)
LeafrefsExact ==
    LET p == probe.question
        typed == {n \in DOMAIN ltypes : ltypes[n] # Untyped}
        used == {n \in typed : p.nodes[n].mod \in p.impl}
        chain(n) == ResolveChain(ltypes, n, {}, <<>>)
    IN  /\ lphase \in {"cycle", "refused", "done"} =>
            \A n \in typed : \A lr \in LeafrefsIn(ltypes[n]) : lr.target = Meant(p, Cardinality(typed) + 1, n, lr)
        /\ lphase = "cycle" => ~p.vendor /\ \E n \in used : NeverEnds(n)
        /\ lphase = "refused" => \E n \in typed : \E lr \in LeafrefsIn(ltypes[n]) : LeafrefFault(p, n, lr)
        /\ lphase = "done" =>
            /\ ~p.vendor => \A n \in used : ~NeverEnds(n)
            /\ \A n \in used : \A lr \in LeafrefsIn(ltypes[n]) : ~LeafrefFault(p, n, lr)
            /\ \A n \in used : Cyclic(n) => \E e \in search.back : {e[1], e[2]} \subseteq Beyond({n}) /\ n \in Beyond({e[2]})
            /\ \A n \in typed : ~NeverEnds(n) => ltypes[n] = Full(p, ltypes[n])
            /\ \A n \in typed :
                 ltypes[n].base = "leafref" =>
                    CASE chain(n).end = "cycle" -> NeverEnds(n)
                      [] chain(n).end = "unresolved" -> \E t \in Beyond({n}) : ltypes[t].base = "leafref" /\ ltypes[t].target = {}
                      [] OTHER -> /\ chain(n).end \in Beyond({n}) /\ ltypes[chain(n).end].base # "leafref"
                                  /\ ~NeverEnds(n) => chain(n).real = <<ltypes[chain(n).end]>>
=============================================================================
