---------------------------- MODULE SchemaBuild ----------------------------
(***************************************************************************)
(* One rebuild of the schema of a context (go/cambium Context.rebuild):    *)
(* the tree of every module is built in load order, the top-level augments *)
(* of the implemented modules are applied in passes, the deviations are    *)
(* applied, the result is validated, and the body of every grouping is     *)
(* built and validated on its own.  The first error ends the rebuild at    *)
(* the next place where the code looks for one.                            *)
(***************************************************************************)
EXTENDS SchemaNodes, Probe

CONSTANT Programs  \* the module sets to build

VARIABLES order,    \* the modules in load order
          meter,    \* the node budget and the errors recorded
          forest,   \* the tree of each module built so far
          pending,  \* the augments this pass has yet to look at
          kept,     \* the augments it has left pending
          moved,    \* this pass has resolved an augment
          fallback, \* this pass uses local-name resolution
          applied,  \* the ranks of the augments applied
          stage     \* where the rebuild is

bvars == <<order, meter, forest, pending, kept, moved, fallback, applied, stage>>

program == probe.question.program

(* Of p: the statements of each module, groups the groupings by module and *)
(* name, defs their order in the sources, features, the budget limit, v11  *)
(* the modules in YANG 1.1, vendor the lenient validation mode, and orders *)
(* the load orders.                                                        *)
BuildIdle ==
    /\ order = <<>> /\ meter = NoMeter(0) /\ forest = <<>> /\ stage = "idle"
    /\ pending = <<>> /\ kept = <<>> /\ moved = FALSE /\ fallback = FALSE
    /\ applied = {}

StartRebuild ==
    /\ Unasked /\ stage = "idle"
    /\ \E p \in Programs, o \in UNION {q.orders : q \in Programs} :
        /\ o \in p.orders
        /\ Ask("build", [program |-> p])
        /\ order' = o
        /\ meter' = NoMeter(p.limit)
    /\ stage' = "trees"
    /\ UNCHANGED <<forest, pending, kept, moved, fallback, applied>>

(* The next module's tree.                                                 *)
BuildModule ==
    /\ stage = "trees" /\ Cardinality(DOMAIN forest) < Len(order)
    /\ LET m == order[Cardinality(DOMAIN forest) + 1]
           r == Compute("BuildIR", <<program, m, meter>>)
       IN  /\ meter' = r.b
           /\ forest' = [x \in DOMAIN forest \cup {m} |->
                            IF x = m THEN r.node ELSE forest[x]]
    /\ UNCHANGED <<probe, order, pending, kept, moved, fallback, applied, stage>>

(* The augments of the loaded modules, ranked in load order and then in    *)
(* the order of their statements.                                          *)
AugmentJobs ==
    LET Of(m) == [s \in DOMAIN program.stmts[m] |-> [mod |-> m, stmt |-> program.stmts[m][s]]]
        all == SelectSeq(Concat([i \in DOMAIN order |-> Of(order[i])]),
                         LAMBDA j : j.stmt.kw = "augment")
    IN  [i \in DOMAIN all |-> [mod |-> all[i].mod, stmt |-> all[i].stmt, rank |-> i,
                               disabled |-> ~Included(program, all[i].stmt)]]

TreesBuilt ==
    /\ stage = "trees" /\ Cardinality(DOMAIN forest) = Len(order)
    /\ IF meter.errs # {} THEN stage' = "failed" /\ UNCHANGED pending
       ELSE stage' = "augments" /\ pending' = AugmentJobs
    /\ UNCHANGED <<probe, order, meter, forest, kept, moved, fallback, applied>>

------------------------------------------------------------------------------
(* Resolving the target of an augment or deviation: its module, and the    *)
(* place in that module's tree, empty when there is none.                  *)
NoTarget == [mod |-> "", at |-> <<>>]

FindNodeBySchemaPath(m, path) ==
    LET first == IF path[1][1] = "" THEN m ELSE path[1][1]
        at == FindRelative(forest[first].kids, path)
    IN  IF first \notin DOMAIN forest \/ at = <<>> THEN NoTarget
        ELSE [mod |-> first, at |-> at]

RECURSIVE UniqueLocalPath(_, _)
UniqueLocalPath(kids, path) ==
    LET is == {k \in DOMAIN kids : kids[k].name = Head(path)[2]}
        i  == CHOOSE k \in is : TRUE
        below == UniqueLocalPath(kids[i].kids, Tail(path))
    IN  IF Cardinality(is) # 1 THEN <<>>
        ELSE IF Len(path) = 1 THEN <<i>>
        ELSE IF below = <<>> THEN <<>> ELSE <<i>> \o below

(* The lenient mode's last resort: names alone, where they are unique.     *)
FindNodeByLocalNames(m, path) ==
    LET here  == {x \in DOMAIN forest : UniqueLocalPath(forest[x].kids, path) # <<>>}
        first == IF path[1][1] = "" THEN m ELSE path[1][1]
        x == IF (\A i \in DOMAIN path : path[i][1] = "") /\ Cardinality(here) = 1
             THEN CHOOSE y \in here : TRUE ELSE first
    IN  IF x \notin DOMAIN forest \/ UniqueLocalPath(forest[x].kids, path) = <<>>
        THEN NoTarget
        ELSE [mod |-> x, at |-> UniqueLocalPath(forest[x].kids, path)]

TargetOf(job) ==
    IF fallback THEN FindNodeByLocalNames(job.mod, job.stmt.path)
    ELSE FindNodeBySchemaPath(job.mod, job.stmt.path)

(* An augment that adds mandatory configuration to another module needs    *)
(* YANG 1.1 and a when condition; the lenient mode lets it pass.           *)
MandatoryRefused(job, target, kids) ==
    /\ target.mod # job.mod
    /\ \E k \in DOMAIN kids : MandatoryConfigNode(kids[k])
    /\ job.mod \notin program.v11 \/ ~job.stmt.when
    /\ ~program.vendor

(* The children go behind those of every augment of lower rank.            *)
InsertAugmentChildren(n, kids, rank) ==
    LET ranked == [k \in DOMAIN kids |-> [kids[k] EXCEPT !.rank = rank]]
        at == CHOOSE i \in 0 .. Len(n.kids) :
                 /\ \A k \in i + 1 .. Len(n.kids) : n.kids[k].rank > rank
                 /\ i > 0 => n.kids[i].rank <= rank
    IN  [n EXCEPT !.kids = SubSeq(@, 1, at) \o ranked \o SubSeq(@, at + 1, Len(@))]

ApplyAugment(job, target) ==
    LET root  == forest[target.mod]
        c     == ContextAt(RootContext(program, job.mod), root, target.at)
        r     == Compute("BuildAugmentChildren", <<job.stmt, c, meter>>)
        kids  == AddWhens(r.out, AllKinds, WhenOf(job.stmt))
        noted == [NodeAt(root, target.at) EXCEPT !.excl = @ \cup r.excl]
        grown == InsertAugmentChildren(noted, kids, job.rank)
        Settle(n) == forest' = [forest EXCEPT ![target.mod] = PutAt(root, target.at, n)]
    IN  IF MandatoryRefused(job, target, r.out)
        THEN /\ Settle(noted) /\ meter' = Fault(r.b, {"mandatory"})
             /\ UNCHANGED applied
        ELSE /\ Settle(ResolveListKeys(grown)) /\ meter' = Fault(r.b, KeyErrors(grown))
             /\ applied' = applied \cup {job.rank}

(* A disabled augment leaves only the names of what it would have added.   *)
RecordExcludedAugment(job, target) ==
    /\ forest' = [forest EXCEPT ![target.mod] =
         PutAt(@, target.at, [NodeAt(@, target.at) EXCEPT
             !.excl = @ \cup ExcludedBy(program, job.stmt.subs, job.mod)])]
    /\ UNCHANGED <<meter, applied>>

------------------------------------------------------------------------------
(* The passes.                                                             *)
ResolveAugment ==
    /\ stage = "augments" /\ pending # <<>> /\ ~(fallback /\ moved)
    /\ LET job == Head(pending)
           target == TargetOf(job)
       IN  /\ target # NoTarget
           /\ IF job.disabled THEN RecordExcludedAugment(job, target)
              ELSE ApplyAugment(job, target)
    /\ pending' = Tail(pending) /\ moved' = TRUE
    /\ UNCHANGED <<probe, order, kept, fallback, stage>>

KeepAugment ==
    /\ stage = "augments" /\ pending # <<>> /\ ~(fallback /\ moved)
    /\ TargetOf(Head(pending)) = NoTarget
    /\ kept' = Append(kept, Head(pending)) /\ pending' = Tail(pending)
    /\ UNCHANGED <<probe, order, meter, forest, moved, fallback, applied, stage>>

(* A pass that moved is followed by an exact one; one that did not, by the *)
(* lenient mode's fallback or by the report of what is left.               *)
OnePass == program.vendor /\ ~fallback
UntilApplied == TRUE
AnotherPass == moved \/ (program.vendor /\ ~fallback)

EndAugmentPass ==
    /\ stage = "augments"
    /\ pending = <<>> \/ (fallback /\ moved)
    /\ LET left == kept \o pending IN
       IF left # <<>> /\ AnotherPass
       THEN /\ pending' = left /\ kept' = <<>> /\ moved' = FALSE
            /\ fallback' = ~moved
            /\ UNCHANGED <<meter, stage>>
       ELSE /\ pending' = left /\ kept' = <<>>
            /\ stage' = "deviations" /\ UNCHANGED <<moved, fallback>>
            /\ meter' = Fault(meter, {x \in {"augment target", "excluded target"} :
                 \E i \in DOMAIN left :
                    LET job == left[i]
                        first == IF job.stmt.path[1][1] = "" THEN job.mod ELSE job.stmt.path[1][1]
                        excluded == /\ first \in DOMAIN forest
                                    /\ ExcludedPath(forest[first].excl, forest[first].kids, job.stmt.path)
                    IN  /\ ~job.disabled
                        /\ IF excluded THEN x = "excluded target" /\ ~program.vendor
                           ELSE x = "augment target"})
    /\ UNCHANGED <<probe, order, forest, applied>>

------------------------------------------------------------------------------
(* Deviations.  One property of one deviate statement on its target; gone  *)
(* when the target is not supported.                                       *)
Bound(n, kw) == IF kw = "min-elements" THEN n.min ELSE n.max
SetBound(n, kw, v) ==
    IF kw = "min-elements" THEN [n EXCEPT !.min = v] ELSE [n EXCEPT !.max = v]
Defaults(n) == {n.dflts[i] : i \in DOMAIN n.dflts}

(* add needs the property absent, replace and delete need it there; for    *)
(* config and mandatory only an explicit statement counts, and replace     *)
(* takes either.                                                           *)
DeviateRefused(n, how, prop) ==
    CASE prop.kw = "default" ->
            IF how = "replace" THEN n.dflts = <<>>
            ELSE (how = "add") = (prop.arg \in Defaults(n))
      [] prop.kw = "config" -> how = "add" /\ n.cprop # ""
      [] prop.kw = "mandatory" -> how = "add" /\ n.mprop
      [] OTHER ->
            IF how = "delete" THEN Bound(n, prop.kw) # Bound(prop, prop.kw)
            ELSE (how = "add") = (Bound(n, prop.kw) >= 0)

DeviateErrors(n, how, prop, parentConf) ==
    IF DeviateRefused(n, how, prop) THEN {"deviate"}
    ELSE IF how = "delete" THEN {}
    ELSE CASE prop.kw = "config" -> ConfigErrors(n, prop.arg, parentConf)
           [] prop.kw = "mandatory" -> PropertyErrors([prop EXCEPT !.mand = prop.arg], n.kind)
           [] prop.kw = "default" -> {}
           [] OTHER -> PropertyErrors(prop, n.kind)
                       \cup CardinalityErrors(SetBound(n, prop.kw, Bound(prop, prop.kw)))

DeviateNode(n, how, prop, parentConf) ==
    IF DeviateRefused(n, how, prop) THEN n
    ELSE CASE prop.kw = "default" ->
                [n EXCEPT !.dflts = IF how = "add" THEN Append(@, prop.arg)
                                    ELSE IF how = "replace" THEN <<prop.arg>>
                                    ELSE SelectSeq(@, LAMBDA d : d # prop.arg)]
           [] prop.kw = "config" ->
                IF how = "delete" THEN n ELSE ApplyConfig(n, prop.arg, parentConf)
           [] prop.kw = "mandatory" ->
                IF how = "delete" THEN n ELSE ApplyMandatory(n, prop.arg)
           [] OTHER ->
                IF n.kind \notin {"list", "leaf-list"} THEN n
                ELSE SetBound(n, prop.kw, IF how = "delete" THEN -1 ELSE Bound(prop, prop.kw))

Detach(root, at) ==
    LET up == SubSeq(at, 1, Len(at) - 1) IN
    PutAt(root, up, [NodeAt(root, up) EXCEPT !.kids = RemoveAt(@, at[Len(at)])])

(* One deviation statement on the forest and the meter.                    *)
Deviate(st, m, dev) ==
    LET first == IF dev.path[1][1] = "" THEN m ELSE dev.path[1][1]
        root == st.forest[first]
        at == FindRelative(root.kids, dev.path)
        up == NodeAt(root, SubSeq(at, 1, Len(at) - 1)).conf
        Step(r, d) ==
            IF d.arg = "not-supported" THEN [r EXCEPT !.gone = TRUE]
            ELSE FoldLeft(LAMBDA x, prop :
                     [x EXCEPT !.n = DeviateNode(x.n, d.arg, prop, up),
                               !.errs = @ \cup DeviateErrors(x.n, d.arg, prop, up)], r, d.subs)
        r == FoldLeft(Step, [n |-> NodeAt(root, at), errs |-> {}, gone |-> FALSE], dev.subs)
    IN  IF at = <<>>
        THEN [st EXCEPT !.meter = Fault(@,
                IF program.vendor /\ ExcludedPath(root.excl, root.kids, dev.path) THEN {}
                ELSE {"deviation target"})]
        ELSE [forest |-> [st.forest EXCEPT ![first] =
                             IF r.gone THEN Detach(root, at) ELSE PutAt(root, at, r.n)],
              meter |-> Fault(st.meter, r.errs)]

CollectDeviations ==
    /\ stage = "deviations"
    /\ LET devs(m) == SelectSeq(program.stmts[m], LAMBDA s :
                          s.kw = "deviation" /\ Included(program, s))
           after == FoldLeft(LAMBDA st, m :
                        FoldLeft(LAMBDA x, d : Deviate(x, m, d), st, devs(m)),
                        [forest |-> forest, meter |-> meter], order)
       IN  forest' = after.forest /\ meter' = after.meter
    /\ stage' = "validate"
    /\ UNCHANGED <<probe, order, pending, kept, moved, fallback, applied>>

------------------------------------------------------------------------------
(* The final checks.                                                       *)
SiblingsOnly(kids) == SelectSeq(kids, LAMBDA k : k.kind # "case")

RECURSIVE IdentifierNamespace(_)
IdentifierNamespace(kids) ==
    Concat([k \in DOMAIN kids |->
        (IF kids[k].kind = "case" THEN <<>> ELSE <<kids[k]>>)
        \o (IF kids[k].kind \in {"choice", "case"} THEN IdentifierNamespace(kids[k].kids)
            ELSE <<>>)])

SiblingErrors(n) ==
    LET scope == IF n.kind = "choice" THEN n.kids
                 ELSE IF n.kind = "case" THEN <<>> ELSE IdentifierNamespace(n.kids)
        names == [k \in DOMAIN scope |-> <<scope[k].mod, scope[k].name>>]
    IN  IF IsInjective(names) THEN {} ELSE {"duplicate"}

ListErrors(n, op) ==
    (IF n.kind = "list" /\ n.conf = "true" /\ ~op /\ n.keys = <<>> THEN {"no key"} ELSE {})
    \cup KeyErrors(n)
    \cup (IF n.kind = "list" /\ \E i \in DOMAIN n.keys :
                LET k == DirectChild(n, n.keys[i])
                IN  k # 0 /\ n.kids[k].conf # n.conf
          THEN {"key config"} ELSE {})

(* No mandatory node in a default case: a rule of the effective tree only. *)
DefaultErrors(n, effective) ==
    LET mand == n.mand /\ ~n.isKey
        v11 == n.mod \in program.v11
        dc == DirectChild(n, n.dflts[1])
        inside == IF n.kids[dc].kind = "case" THEN n.kids[dc].kids ELSE <<n.kids[dc]>>
    IN  IF \/ n.dflts # <<>> /\ n.kind \notin {"leaf", "leaf-list", "choice"}
           \/ n.kind \in {"leaf", "choice"} /\ Len(n.dflts) > 1
           \/ n.kind = "leaf" /\ mand /\ n.dflts # <<>>
                /\ ~(program.vendor /\ n.conf = "false")
           \/ n.kind = "leaf-list" /\ n.dflts # <<>>
                /\ (n.min > 0 \/ ~IsInjective(n.dflts) \/ ~v11)
           \/ /\ n.kind = "choice" /\ Len(n.dflts) = 1
              /\ \/ n.mand \/ dc = 0
                 \/ effective /\ \E k \in DOMAIN inside : IsMandatoryNode(inside[k])
        THEN {"default"} ELSE {}

RECURSIVE TreeErrors(_, _)
TreeErrors(n, op) ==
    LET inOp == op \/ n.kind \in Operations IN
    SiblingErrors(n) \cup ListErrors(n, op) \cup DefaultErrors(n, TRUE)
    \cup UNION {TreeErrors(n.kids[k], inOp) : k \in DOMAIN n.kids}

(* A key leaf's mandatory statement has no effect.                         *)
RECURSIVE ClearKeyMandatory(_)
ClearKeyMandatory(n) ==
    [n EXCEPT !.mand = @ /\ ~n.isKey,
              !.kids = [k \in DOMAIN n.kids |-> ClearKeyMandatory(n.kids[k])]]

ValidateSchema ==
    /\ stage = "validate"
    /\ LET errs == meter.errs \cup UNION {TreeErrors(forest[m], FALSE) : m \in DOMAIN forest}
       IN  /\ meter' = Fault(meter, errs)
           /\ stage' = IF errs = {} THEN "groupings" ELSE "failed"
    /\ forest' = [m \in DOMAIN forest |-> ClearKeyMandatory(forest[m])]
    /\ UNCHANGED <<probe, order, pending, kept, moved, fallback, applied>>

(* The body of a grouping, used or not, is built once more as the children *)
(* of a container of its module, and its names and defaults are checked.   *)
RECURSIVE BodyErrors(_)
BodyErrors(n) ==
    SiblingErrors(n) \cup DefaultErrors(n, FALSE)
    \cup UNION {BodyErrors(n.kids[k]) : k \in DOMAIN n.kids}

GroupingBody(p, g, b) ==
    LET scratch == Synthetic("container", g[2], g[1], "true", <<>>)
        r == Compute("BuildChildren", <<p.groups[g], Within(RootContext(p, g[1]), scratch), b>>)
    IN  [b |-> r.b, node |-> [scratch EXCEPT !.kids = r.out]]

GroupingDefinitionsInOrder(m) == SelectSeq(program.defs, LAMBDA g : g[1] = m)

(* The first body with an error is the last that is built.                 *)
ValidateGroupingBodyTypes ==
    /\ stage = "groupings"
    /\ LET Check(b, g) ==
               LET body == GroupingBody(program, g, b)
               IN  IF b.errs # {} THEN b
                   ELSE IF body.b.errs # {} THEN body.b
                   ELSE Fault(body.b, BodyErrors(body.node))
           after == FoldLeft(Check, meter, Concat([i \in DOMAIN order |->
                                                      GroupingDefinitionsInOrder(order[i])]))
       IN  /\ meter' = after
           /\ stage' = IF after.errs = {} THEN "built" ELSE "failed"
    /\ UNCHANGED <<probe, order, forest, pending, kept, moved, fallback, applied>>

BuildStep ==
    \/ BuildModule \/ TreesBuilt \/ ResolveAugment \/ KeepAugment \/ EndAugmentPass
    \/ CollectDeviations \/ ValidateSchema \/ ValidateGroupingBodyTypes
BuildNext == StartRebuild \/ BuildStep

(* Weak fairness of a step of the rebuild: rebuild is a loop without a     *)
(* wait.  A step is enabled exactly while the rebuild runs, so the formula *)
(* says that instead of ENABLED.                                           *)
Rebuilding == stage \notin {"idle", "built", "failed"}
BuildFairness == []<>~Rebuilding \/ []<><<BuildStep>>_<<probe, bvars>>

------------------------------------------------------------------------------
(* What the rebuild has to produce, without an order of anything.  A       *)
(* schema as the set of its nodes: the way to each from the top, by module *)
(* and name, and its kind.                                                 *)
Unlimited == NoMeter(10000)

RECURSIVE Spots(_, _)
Spots(kids, way) ==
    UNION {LET here == Append(way, <<kids[k].mod, kids[k].name>>)
           IN  {[way |-> here, kind |-> kids[k].kind]} \cup Spots(kids[k].kids, here)
              : k \in DOMAIN kids}

Declared(p, m) == Spots(Compute("BuildIR", <<p, m, Unlimited>>).node.kids, <<m>>)

(* What an augment adds below a node of a kind.                            *)
Contribution(p, job, spot) ==
    Spots(BuildAugmentChildren(job.stmt,
            [RootContext(p, job.mod) EXCEPT !.pk = spot.kind], Unlimited).out, spot.way)

Aims(job, spot) ==
    LET path == job.stmt.path IN
    /\ Len(spot.way) = Len(path) + 1 /\ spot.way[1] = path[1][1]
    /\ \A i \in DOMAIN path : spot.way[i + 1] = path[i]

RECURSIVE Augmented(_, _, _)
Augmented(p, jobs, spots) ==
    LET aimed == spots \cup UNION {UNION {Contribution(p, j, x) :
                    x \in {y \in spots : Aims(j, y)}} : j \in {k \in jobs : ~k.disabled}}
    IN  IF aimed = spots THEN spots ELSE Augmented(p, jobs, aimed)

Jobs == ToSet(AugmentJobs)
Effective == Compute("Augmented", <<program, Jobs, UNION {Declared(program, m) : m \in ToSet(order)}>>)
Present == UNION {Spots(forest[m].kids, <<m>>) : m \in DOMAIN forest}

(* An augment applies exactly when its target exists once every augment    *)
(* that applies has been applied, whatever the load order and whatever the *)
(* pass that finds it (applyAugments); the lenient fallback never takes    *)
(* the place of an exact target that another augment has yet to create.    *)
AugmentsReachFixpoint ==
    Asked("build") /\ stage = "deviations"
      /\ meter.errs \subseteq {"augment target", "excluded target"} =>
        /\ IF program.vendor THEN Effective \subseteq Present ELSE Effective = Present
        /\ ~program.vendor =>
             ((meter.errs # {}) <=>
                \E j \in Jobs : ~j.disabled /\ ~\E x \in Effective : Aims(j, x))

(* Under every node the declared children come first and those of augments *)
(* follow by rank, though a pass may apply a higher rank before a lower    *)
(* one (insertAugmentChildren).                                            *)
RECURSIVE InRankOrder(_)
InRankOrder(n) ==
    \A k \in DOMAIN n.kids :
        /\ k > 1 => n.kids[k - 1].rank <= n.kids[k].rank
        /\ InRankOrder(n.kids[k])
SiblingsKeepRank ==
    Asked("build") => \A m \in DOMAIN forest : InRankOrder(forest[m])

(* Augments land where and in the order they should, whatever the passes   *)
(* that place them (applyAugments, insertAugmentChildren).                 *)
AugmentsPlaced == AugmentsReachFixpoint /\ SiblingsKeepRank

(* The nodes a schema counts, from its statements: each once for every     *)
(* instantiation, by a uses, by an augment and in the check of a grouping's*)
(* body (SetMaxSchemaNodes), and the nodes no statement declares, an       *)
(* augment's implicit cases and missing inputs and outputs, once each.     *)
(* With again, the statements in a choice below the top level twice.       *)
RECURSIVE NodeCost(_, _, _), ChildCost(_, _, _)
Total(f(_), stmts) == FoldLeft(LAMBDA n, s : n + f(s), 0, stmts)

NodeCost(p, s, again) ==
    LET io(kw) == IF s.kw \in {"rpc", "action"} /\ ~\E i \in DOMAIN s.subs : s.subs[i].kw = kw
                  THEN 1 ELSE 0
    IN  1 + io("input") + io("output") + Total(LAMBDA k : ChildCost(p, k, again), s.subs)

ChildCost(p, s, again) ==
    IF ~Included(p, s) \/ s.kw \notin ChildKinds \cup {"uses", "input", "output"} THEN 0
    ELSE IF s.kw = "uses"
    THEN Total(LAMBDA k : ChildCost(p, k, again), p.groups[s.path[1]])
         + Total(LAMBDA a : IF a.kw = "augment" /\ Included(p, a)
                            THEN Total(LAMBDA k : ChildCost(p, k, again), a.subs) ELSE 0, s.subs)
    ELSE NodeCost(p, s, again)
         + IF again /\ s.kw = "choice"
           THEN Total(LAMBDA k : IF Included(p, k) /\ k.kw \in ChildKinds
                                 THEN NodeCost(p, k, again) ELSE 0, s.subs)
           ELSE 0

TopCost(p, s, again) ==
    IF ~Included(p, s) \/ s.kw \notin ChildKinds \cup {"uses", "rpc"} THEN 0
    ELSE IF s.kw = "uses" THEN ChildCost(p, s, again) ELSE NodeCost(p, s, again)

AugmentCost(p, job, spots, again) ==
    LET cases == SelectSeq(job.stmt.subs, LAMBDA k : Included(p, k) /\ k.kw # "case")
    IN  IF job.disabled \/ ~\E x \in spots : Aims(job, x) THEN 0
        ELSE Total(LAMBDA k : ChildCost(p, k, again), job.stmt.subs)
             + IF \E x \in spots : Aims(job, x) /\ x.kind = "choice" THEN Len(cases) ELSE 0

CostOf(again) ==
    Total(LAMBDA m : Total(LAMBDA s : TopCost(program, s, again), program.stmts[m]), order)
    + Total(LAMBDA j : AugmentCost(program, j, Effective, again), AugmentJobs)
    + Total(LAMBDA g : Total(LAMBDA s : ChildCost(program, s, again), program.groups[g]),
            program.defs)

Demand == CostOf(FALSE)
Repeated == CostOf(TRUE) - Demand

(* The budget stops a build exactly when the schema counts more nodes than *)
(* it allows, as SetMaxSchemaNodes counts them, and no node is built       *)
(* beyond it (admitSchemaNode), though every phase of a rebuild admits     *)
(* nodes, from nested expansions, down to the check of grouping bodies.    *)
(* Only a choice below the top level departs from the documented count:    *)
(* what is in it the code builds, and may count, once more.                *)
BudgetExact ==
    Asked("build") =>
      /\ meter.used <= meter.limit
      /\ meter.over => meter.used = meter.limit /\ stage # "built"
      /\ ~program.vendor =>
           /\ meter.over => Demand + Repeated > meter.limit
           /\ stage = "built" => meter.used \in Demand .. Demand + Repeated

(* A schema the rebuild accepts keeps the rules of RFC 7950, however the   *)
(* passes, refines and deviations that made it followed each other: names  *)
(* are unique among the nodes that share a closest data ancestor, keys are *)
(* plain leaves with their list's config, config false is inherited, no    *)
(* feature-excluded node is left, and no default case holds a mandatory    *)
(* node (validateSiblingNames, validateListConstraints,                    *)
(* validateDefaultRules, refreshConfigFromParent, pruneRefinedOut); and no *)
(* grouping, used or not, has names that clash (validateGroupingBodyTypes).*)
RECURSIVE Places(_)
Places(n) ==
    {<<>>} \cup UNION {{<<k>> \o at : at \in Places(n.kids[k])} : k \in DOMAIN n.kids}

Up(at) == SubSeq(at, 1, Len(at) - 1)
Anchor(root, at) ==
    CHOOSE b \in Prefixes(Up(at)) :
        /\ NodeAt(root, b).kind \notin {"choice", "case"}
        /\ \A c \in Prefixes(Up(at)) :
             Len(c) > Len(b) => NodeAt(root, c).kind \in {"choice", "case"}

NamesUnique(root, places) ==
    \A a, b \in places \ {<<>>} :
        LET x == NodeAt(root, a) y == NodeAt(root, b) IN
        a # b /\ x.mod = y.mod /\ x.name = y.name =>
            IF x.kind = "case" \/ y.kind = "case" THEN x.kind # y.kind \/ Up(a) # Up(b)
            ELSE Anchor(root, a) # Anchor(root, b)

KeysSound(n) ==
    /\ IsInjective(n.keys)
    /\ \A i \in DOMAIN n.keys : \E k \in DOMAIN n.kids :
        LET x == n.kids[k] IN
        /\ x.name = n.keys[i] /\ x.kind = "leaf" /\ x.isKey /\ ~x.mand
        /\ x.conf = n.conf /\ x.whens = 0 /\ x.ownFeat = {}

DefaultCaseFree(root, at, places) ==
    LET n == NodeAt(root, at) IN
    n.kind = "choice" =>
      \A b \in places :
        LET x == NodeAt(root, b)
            between == {c \in Prefixes(Up(b)) : Len(c) > Len(at) + 1}
        IN  ~ /\ Len(b) > Len(at) + 1 /\ at \in Prefixes(b)
              /\ NodeAt(root, SubSeq(b, 1, Len(at) + 1)).kind = "case"
              /\ NodeAt(root, SubSeq(b, 1, Len(at) + 1)).name \in Defaults(n)
              /\ \A c \in between : NodeAt(root, c).kind = "container" /\ ~NodeAt(root, c).presence
              /\ x.mand \/ (x.kind \in {"list", "leaf-list"} /\ x.min > 0)

AcceptedSchemaSound ==
    Asked("build") /\ stage = "built" =>
      /\ \A m \in DOMAIN forest :
        LET root == forest[m]
            places == Places(root)
        IN  /\ NamesUnique(root, places)
            /\ \A at \in places :
                LET n == NodeAt(root, at) IN
                /\ n.ownFeat \subseteq program.features
                /\ n.max <= 0 \/ n.min <= n.max
                /\ n.kind = "list" => KeysSound(n)
                /\ n.conf = "false" => \A k \in DOMAIN n.kids : n.kids[k].conf = "false"
                /\ DefaultCaseFree(root, at, places)
      /\ \A g \in DOMAIN program.groups :
           LET body == GroupingBody(program, g, Unlimited).node IN NamesUnique(body, Places(body))

(* Every rebuild ends: passes that move apply an augment each, and a pass  *)
(* that does not is the last of its kind.                                  *)
RebuildEnds == (Asked("build") /\ stage = "trees") ~> (stage \in {"built", "failed"})
=============================================================================
