---------------------------- MODULE SchemaNodes ----------------------------
(***************************************************************************)
(* How go/cambium turns a YANG statement into a tree of schema nodes: the  *)
(* node budget, the properties a node takes from its statement, uses and   *)
(* refine, shorthand cases, feature exclusion, keys, and the changes an    *)
(* augment or a deviation makes to a node that is already built.           *)
(*                                                                         *)
(* A statement and a node are records; a tree is a node with its children  *)
(* in kids, and a place in it the sequence of child positions that leads   *)
(* there.  A name is a string; the prefix of a name is the module it is    *)
(* bound to, "" when there is none.  An error is its kind.  Descriptions,  *)
(* references, status, types, extension instances, inherited if-feature    *)
(* lists and the texts of when expressions are not modelled.               *)
(***************************************************************************)
EXTENDS Integers, SequencesExt, FiniteSetsExt

(* A statement: path is the schema node identifier of a refine, augment or *)
(* deviation and the grouping name of a uses, feat the features its        *)
(* if-feature needs, min and max -1 when absent, max 0 when unbounded.     *)
Stmt(kw, arg, mod) ==
    [kw |-> kw, arg |-> arg, mod |-> mod, subs |-> <<>>, path |-> <<>>,
     feat |-> {}, when |-> FALSE, conf |-> "", mand |-> "", presence |-> FALSE,
     min |-> -1, max |-> -1, dflts |-> <<>>, keys |-> <<>>, uniq |-> <<>>]

With(kw, arg, mod, subs) == [Stmt(kw, arg, mod) EXCEPT !.subs = subs]

DataKinds == {"container", "leaf", "leaf-list", "list", "choice", "anydata"}
ContextKinds == DataKinds \ {"choice"}
ChildKinds == DataKinds \cup {"case", "action", "notification"}
Operations == {"rpc", "action", "notification"}

Included(p, s) == s.feat \subseteq p.features

------------------------------------------------------------------------------
(* The budget of one build: nodes admitted so far, and whether one was     *)
(* refused.                                                                *)
NoMeter(limit) == [used |-> 0, limit |-> limit, over |-> FALSE, errs |-> {}]
Fault(b, errs) == [b EXCEPT !.errs = @ \cup errs]
MeterAdmitsOneMore(b) == ~b.over /\ b.used <= b.limit
MeterAdmits(b) == ~b.over /\ b.used < b.limit
AdmitSchemaNode(b) ==
    IF MeterAdmits(b) THEN [b EXCEPT !.used = @ + 1]
    ELSE [b EXCEPT !.over = TRUE, !.errs = @ \cup {"limit"}]

------------------------------------------------------------------------------
(* Looking nodes up.                                                       *)
DirectChild(n, name) == SelectInSeq(n.kids, LAMBDA k : k.name = name)

Matches(step, n) == n.name = step[2] /\ step[1] \in {"", n.mod}

RECURSIVE FindRelative(_, _)
FindRelative(kids, path) ==
    LET i == SelectInSeq(kids, LAMBDA k : Matches(Head(path), k))
        below == FindRelative(kids[i].kids, Tail(path))
    IN  IF path = <<>> \/ i = 0 THEN <<>>
        ELSE IF Len(path) = 1 THEN <<i>>
        ELSE IF below = <<>> THEN <<>> ELSE <<i>> \o below

RECURSIVE NodeAt(_, _)
NodeAt(n, at) == IF at = <<>> THEN n ELSE NodeAt(n.kids[Head(at)], Tail(at))

RECURSIVE PutAt(_, _, _)
PutAt(n, at, new) ==
    IF at = <<>> THEN new
    ELSE [n EXCEPT !.kids[Head(at)] = PutAt(@, Tail(at), new)]

------------------------------------------------------------------------------
(* Keys and unique constraints.                                            *)
KeyFault(n, i) ==
    LET c == DirectChild(n, n.keys[i]) IN
    \/ \E j \in 1 .. i - 1 : n.keys[j] = n.keys[i]
    \/ c = 0
    \/ /\ c # 0
       /\ \/ n.kids[c].kind # "leaf"
          \/ n.kids[c].ownFeat # {}
          \/ n.kids[c].whens > 0

(* The keys before the first faulty one are marked.                        *)
ResolveListKeys(n) ==
    LET bad  == {i \in DOMAIN n.keys : KeyFault(n, i)}
        good == {i \in DOMAIN n.keys : \A j \in bad : i < j}
    IN  IF n.kind # "list" THEN n
        ELSE [n EXCEPT !.kids = [k \in DOMAIN n.kids |->
                 IF \E i \in good : DirectChild(n, n.keys[i]) = k
                 THEN [n.kids[k] EXCEPT !.isKey = TRUE] ELSE n.kids[k]]]

(* A unique path leads to a leaf and passes no further list.               *)
RECURSIVE UniqueLeaf(_, _)
UniqueLeaf(n, path) ==
    LET i == DirectChild(n, Head(path)) IN
    /\ i # 0
    /\ IF Len(path) = 1 THEN n.kids[i].kind = "leaf"
       ELSE n.kids[i].kind # "list" /\ UniqueLeaf(n.kids[i], Tail(path))

UniqueErrors(n) ==
    IF n.kind = "list"
       /\ \/ ~IsInjective(n.uniq)
          \/ \E u \in DOMAIN n.uniq : ~UniqueLeaf(n, n.uniq[u])
    THEN {"unique"} ELSE {}

KeyErrors(n) ==
    (IF n.kind = "list" /\ \E i \in DOMAIN n.keys : KeyFault(n, i)
     THEN {"key"} ELSE {}) \cup UniqueErrors(n)

------------------------------------------------------------------------------
(* Config: a node without a config statement has its parent's.             *)
RECURSIVE RefreshConfig(_, _)
RefreshConfig(n, parentConf) ==
    LET conf == IF parentConf = "false" \/ n.cprop = "" THEN parentConf ELSE n.cprop
        kids == [k \in DOMAIN n.kids |-> RefreshConfig(n.kids[k], conf)]
    IN  ResolveListKeys([n EXCEPT !.conf = conf, !.kids = kids])

RECURSIVE RefreshErrors(_, _)
RefreshErrors(n, parentConf) ==
    LET new == RefreshConfig(n, parentConf) IN
    (IF n.cprop = "true" /\ parentConf = "false" THEN {"config"} ELSE {})
    \cup UNION {RefreshErrors(n.kids[k], new.conf) : k \in DOMAIN n.kids}
    \cup KeyErrors(new)

ApplyConfig(n, value, parentConf) ==
    IF value = "" \/ n.kind \notin DataKinds THEN n
    ELSE RefreshConfig([n EXCEPT !.cprop = value], parentConf)
ConfigErrors(n, value, parentConf) ==
    IF value = "" THEN {}
    ELSE IF n.kind \notin DataKinds THEN {"property"}
    ELSE RefreshErrors([n EXCEPT !.cprop = value], parentConf)

ApplyMandatory(n, value) ==
    IF value = "" \/ n.kind \notin {"leaf", "choice", "anydata"} THEN n
    ELSE [n EXCEPT !.mand = (value = "true"), !.mprop = TRUE]

CardinalityErrors(n) ==
    IF n.max > 0 /\ n.min > n.max THEN {"cardinality"} ELSE {}

(* A property on a kind of node that cannot have it.                       *)
PropertyErrors(s, kind) ==
    IF \/ s.mand # "" /\ kind \notin {"leaf", "choice", "anydata"}
       \/ s.presence /\ kind # "container"
       \/ (s.min >= 0 \/ s.max >= 0) /\ kind \notin {"list", "leaf-list"}
       \/ s.keys # <<>> /\ kind # "list"
       \/ s.uniq # <<>> /\ kind # "list"
       \/ s.when /\ kind \notin DataKinds \cup {"case"}
    THEN {"property"} ELSE {}

------------------------------------------------------------------------------
(* Inherited when conditions, counted: one on a uses, a choice or a case   *)
(* reaches the data nodes below, one on an augment every node below; a key *)
(* leaf takes none.                                                        *)
RECURSIVE AddWhens(_, _, _)
AddWhens(kids, kinds, k) ==
    [i \in DOMAIN kids |->
        [kids[i] EXCEPT
            !.whens = IF kids[i].isKey \/ kids[i].kind \notin kinds THEN @ ELSE @ + k,
            !.kids = AddWhens(@, kinds, k)]]

PropagateChoiceCaseWhens(n) ==
    LET own == AddWhens(n.kids, ContextKinds, n.whens) IN
    [n EXCEPT !.kids = [i \in DOMAIN own |->
        IF own[i].kind = "case"
        THEN [own[i] EXCEPT !.kids = AddWhens(@, ContextKinds, own[i].whens)]
        ELSE own[i]]]

------------------------------------------------------------------------------
(* Mandatory nodes, and those among them that are configuration (RFC 7950  *)
(* section 3): a container without presence is one when a child is.        *)
RECURSIVE IsMandatoryNode(_)
IsMandatoryNode(n) ==
    \/ n.kind \in {"leaf", "choice", "anydata"} /\ n.mand
    \/ n.kind \in {"leaf-list", "list"} /\ n.min > 0
    \/ /\ n.kind = "container" /\ ~n.presence
       /\ \E k \in DOMAIN n.kids : IsMandatoryNode(n.kids[k])

RECURSIVE MandatoryConfigNode(_)
MandatoryConfigNode(n) ==
    /\ n.conf = "true"
    /\ \/ n.kind \in {"leaf", "choice", "anydata"} /\ n.mand
       \/ n.kind \in {"leaf-list", "list"} /\ n.min > 0
       \/ /\ n.kind = "container" /\ ~n.presence
          /\ \E k \in DOMAIN n.kids : MandatoryConfigNode(n.kids[k])

------------------------------------------------------------------------------
(* What a statement that if-feature excludes would have contributed: a     *)
(* uses stands for its grouping's nodes.                                   *)
RECURSIVE ExcludedNames(_, _, _, _)
ExcludedNames(p, s, owner, seen) ==
    IF s.kw = "uses"
    THEN LET g == s.path[1] IN
         IF g \notin DOMAIN p.groups \/ g \in seen THEN {}
         ELSE UNION {ExcludedNames(p, p.groups[g][i], owner, seen \cup {g}) :
                        i \in DOMAIN p.groups[g]}
    ELSE IF s.kw \in ChildKinds \cup {"rpc", "input", "output"} THEN {<<owner, s.arg>>}
    ELSE {}

ExcludedBy(p, stmts, owner) ==
    UNION {ExcludedNames(p, stmts[i], owner, {}) : i \in DOMAIN stmts}

(* The first step of a relative path that fails names an excluded node.    *)
RECURSIVE ExcludedPath(_, _, _)
ExcludedPath(excl, kids, path) ==
    LET i == SelectInSeq(kids, LAMBDA k : Matches(Head(path), k)) IN
    /\ path # <<>>
    /\ IF i = 0 THEN \E x \in excl : x[2] = Head(path)[2] /\ Head(path)[1] \in {"", x[1]}
       ELSE ExcludedPath(kids[i].excl, kids[i].kids, Tail(path))

------------------------------------------------------------------------------
(* A refine changes its target; one whose if-feature fails marks it.       *)
ApplyRefine(n, r, p, parentConf) ==
    LET a == IF Len(r.dflts) # 1 THEN n ELSE [n EXCEPT !.dflts = r.dflts]
        b == ApplyMandatory([a EXCEPT !.ownFeat = @ \cup r.feat], r.mand)
        c == ApplyConfig(b, r.conf, parentConf)
    IN  [c EXCEPT !.presence = @ \/ (r.presence /\ n.kind = "container"),
                  !.min = IF r.min >= 0 THEN r.min ELSE @,
                  !.max = IF r.max >= 0 THEN r.max ELSE @,
                  !.pruned = @ \/ ~Included(p, r)]

RefineErrors(n, r, parentConf) ==
    IF Len(r.dflts) > 1 THEN {"default"}
    ELSE PropertyErrors(r, n.kind) \cup ConfigErrors(n, r.conf, parentConf)
         \cup CardinalityErrors([n EXCEPT !.min = IF r.min >= 0 THEN r.min ELSE @,
                                          !.max = IF r.max >= 0 THEN r.max ELSE @])

(* The nodes refined out leave their parents, which remember their names.  *)
PrunedNames(kids) == {<<kids[i].mod, kids[i].name>> : i \in {j \in DOMAIN kids : kids[j].pruned}}
RECURSIVE PruneRefinedOut(_)
PruneRefinedOut(kids) ==
    LET kept == SelectSeq(kids, LAMBDA k : ~k.pruned) IN
    [i \in DOMAIN kept |->
        [kept[i] EXCEPT !.excl = @ \cup PrunedNames(kept[i].kids),
                        !.kids = PruneRefinedOut(@)]]

------------------------------------------------------------------------------
(* Building.  The context c of a node under construction: the program, the *)
(* module that owns the nodes, the parent's config and kind, whether an    *)
(* operation or a keyless list encloses it, and the groupings being        *)
(* expanded.  A result carries the meter, the nodes, and the names         *)
(* excluded from the parent.                                               *)
RootContext(p, owner) ==
    [p |-> p, owner |-> owner, conf |-> "true", pk |-> "module", op |-> FALSE,
     keyless |-> FALSE, stack |-> {}]

Within(c, n) ==
    [c EXCEPT !.conf = n.conf, !.pk = n.kind, !.op = @ \/ n.kind \in Operations,
              !.keyless = @ \/ (n.kind = "list" /\ n.keys = <<>>)]

(* The context of the children of the node at a place below a root.        *)
ContextAt(c, root, at) ==
    FoldLeft(LAMBDA x, k : Within(x, NodeAt(root, SubSeq(at, 1, k))), c,
             [k \in DOMAIN at |-> k])

NewNode(s, c) ==
    [name |-> IF s.arg = "" THEN s.kw ELSE s.arg, kind |-> s.kw, mod |-> c.owner,
     rank |-> 0, kids |-> <<>>, excl |-> {}, pruned |-> FALSE, isKey |-> FALSE,
     conf |-> IF c.conf = "false" \/ s.conf = "" \/ s.kw \notin DataKinds
              THEN c.conf ELSE s.conf,
     cprop |-> IF s.kw \in DataKinds THEN s.conf ELSE "",
     mand |-> s.mand = "true" /\ s.kw \in {"leaf", "choice", "anydata"},
     mprop |-> s.mand # "", presence |-> s.presence /\ s.kw = "container",
     min |-> s.min, max |-> s.max, dflts |-> s.dflts,
     keys |-> IF s.kw = "list" THEN s.keys ELSE <<>>,
     uniq |-> IF s.kw = "list" THEN s.uniq ELSE <<>>,
     whens |-> IF s.when THEN 1 ELSE 0, ownFeat |-> s.feat]

(* An implicit case around a shorthand child, and a missing input or       *)
(* output: nodes no statement declares.                                    *)
Synthetic(kind, name, owner, conf, kids) ==
    [NewNode(Stmt(kind, name, owner), [owner |-> owner, conf |-> conf])
        EXCEPT !.kids = kids]

ParentErrors(s, c) ==
    IF \/ s.kw = "action" /\ (c.pk \notin {"container", "list"} \/ c.op \/ c.keyless)
       \/ s.kw = "notification"
            /\ (c.pk \notin {"module", "container", "list"} \/ c.op \/ c.keyless)
       \/ s.kw = "case" /\ c.pk # "choice"
       \/ s.kw \in {"input", "output"} /\ c.pk \notin {"rpc", "action"}
       \/ s.kw \in DataKinds /\ c.pk \in {"leaf", "leaf-list", "rpc", "action", "anydata"}
    THEN {"parent"} ELSE {}

Result(b, out, excl) == [b |-> b, out |-> out, excl |-> excl]

AddImplicitOperationIO(n, b) ==
    IF n.kind \notin {"rpc", "action"} THEN [b |-> b, node |-> n]
    ELSE LET Ensure(r, name) ==
                 IF DirectChild(r.node, name) # 0 THEN r
                 ELSE IF ~MeterAdmits(r.b) THEN [r EXCEPT !.b = AdmitSchemaNode(r.b)]
                 ELSE LET io == Synthetic(name, name, n.mod, n.conf, <<>>) IN
                      [b |-> AdmitSchemaNode(r.b),
                       node |-> [r.node EXCEPT !.kids =
                                    IF name = "input" THEN <<io>> \o @ ELSE Append(@, io)]]
         IN  Ensure(Ensure([b |-> b, node |-> n], "input"), "output")

RECURSIVE BuildNode(_, _, _), BuildChildren(_, _, _), BuildChoice(_, _, _),
          ExpandUses(_, _, _)

BuildNode(s, c, b) ==
    LET n    == NewNode(s, c)
        errs == PropertyErrors(s, s.kw) \cup ParentErrors(s, c) \cup CardinalityErrors(n)
                \cup (IF s.conf = "true" /\ c.conf = "false" THEN {"config"} ELSE {})
        r    == BuildChildren(s.subs, Within(c, n), Fault(AdmitSchemaNode(b), errs))
        io   == AddImplicitOperationIO([n EXCEPT !.kids = r.out, !.excl = r.excl], r.b)
        done == ResolveListKeys(io.node)
    IN  IF ~MeterAdmits(b)
        THEN [b |-> AdmitSchemaNode(b),
              node |-> Synthetic(s.kw, n.name, c.owner, "true", <<>>)]
        ELSE [b |-> Fault(io.b, KeyErrors(io.node)), node |-> done]

BuildChildren(stmts, c, b) ==
    LET Step(r, s) ==
        IF ~Included(c.p, s)
        THEN [r EXCEPT !.excl = @ \cup ExcludedNames(c.p, s, c.owner, {})]
        ELSE IF s.kw = "uses"
        THEN IF c.pk \in {"module", "container", "list", "case", "input", "output", "notification"}
             THEN LET u == ExpandUses(s, c, r.b)
                  IN  Result(u.b, r.out \o u.out, r.excl \cup u.excl)
             ELSE [r EXCEPT !.b = Fault(@, {"uses"})]
        ELSE IF s.kw \in ChildKinds \cup {"input", "output"}
        THEN LET n == IF s.kw = "choice" THEN BuildChoice(s, c, r.b) ELSE BuildNode(s, c, r.b)
             IN  Result(n.b, Append(r.out, n.node), r.excl)
        ELSE IF s.kw = "rpc" THEN [r EXCEPT !.b = Fault(@, {"parent"})]
        ELSE r
    IN  FoldLeft(Step, Result(b, <<>>, {}), stmts)

(* A choice below the top level is built as any node and its children then *)
(* once more, each shorthand child in a case of its own.                   *)
BuildChoice(s, c, b) ==
    LET first == BuildNode(s, c, b)
        inner == Within(c, first.node)
        Step(r, k) ==
            IF ~Included(c.p, k) \/ k.kw \notin ChildKinds THEN r
            ELSE IF k.kw = "case"
            THEN LET n == BuildNode(k, inner, r.b) IN Result(n.b, Append(r.out, n.node), {})
            ELSE LET n == BuildNode(k, [inner EXCEPT !.pk = "case"], r.b)
                     case == [Synthetic("case", k.arg, c.owner, inner.conf, <<n.node>>)
                                 EXCEPT !.ownFeat = k.feat]
                 IN  Result(n.b, Append(r.out, case), {})
        r == FoldLeft(Step, Result(first.b, <<>>, {}), s.subs)
    IN  [b |-> r.b,
         node |-> PropagateChoiceCaseWhens([first.node EXCEPT !.kids = r.out])]

(* The children of an augment; under a choice each shorthand child is      *)
(* wrapped in a case, which is charged to the budget.                      *)
BuildAugmentChildren(a, c, b) ==
    LET r == BuildChildren(a.subs, c, b)
        Step(w, k) ==
            IF k.kind = "case" \/ ~MeterAdmits(w.b)
            THEN [w EXCEPT !.out = Append(@, k),
                           !.b = IF k.kind = "case" THEN @ ELSE AdmitSchemaNode(@)]
            ELSE Result(AdmitSchemaNode(w.b),
                        Append(w.out, [Synthetic("case", k.name, k.mod, c.conf, <<k>>)
                                          EXCEPT !.ownFeat = k.ownFeat]), w.excl)
    IN  IF c.pk # "choice" THEN r
        ELSE FoldLeft(Step, Result(r.b, <<>>, r.excl), r.out)

WhenOf(a) == IF a.when THEN 1 ELSE 0
AllKinds == ChildKinds \cup {"input", "output"}

(* A uses: the grouping's children built under the parent, then refined,   *)
(* augmented, pruned and given the uses' when.                             *)
ExpandUses(u, c, b) ==
    LET g     == u.path[1]
        built == BuildChildren(c.p.groups[g], [c EXCEPT !.stack = @ \cup {g}], b)
        Top(out) == [Synthetic("module", "", c.owner, c.conf, out) EXCEPT !.excl = built.excl]
        Step(r, s) ==
            LET root == Top(r.out)
                at   == FindRelative(r.out, s.path)
                n    == NodeAt(root, at)
                up   == NodeAt(root, SubSeq(at, 1, Len(at) - 1)).conf
                kids == BuildAugmentChildren(s,
                          ContextAt([c EXCEPT !.stack = @ \cup {g}], root, at), r.b)
            IN  IF s.kw = "refine"
                THEN IF at = <<>>
                     THEN IF ExcludedPath(r.excl, r.out, s.path) THEN r
                          ELSE [r EXCEPT !.b = Fault(@, {"refine"})]
                     ELSE Result(Fault(r.b, RefineErrors(n, s, up)),
                                 PutAt(root, at, ApplyRefine(n, s, c.p, up)).kids, r.excl)
                ELSE IF ~Included(c.p, s)
                THEN IF at = <<>> THEN r
                     ELSE [r EXCEPT !.out = PutAt(root, at, [n EXCEPT !.excl =
                                               @ \cup ExcludedBy(c.p, s.subs, c.owner)]).kids]
                ELSE IF at = <<>> THEN [r EXCEPT !.b = Fault(@, {"uses augment"})]
                ELSE Result(kids.b,
                            PutAt(root, at,
                                [n EXCEPT !.kids = @ \o AddWhens(kids.out, AllKinds, WhenOf(s)),
                                          !.excl = @ \cup kids.excl]).kids, r.excl)
        Kind(kw) == SelectSeq(u.subs, LAMBDA s : s.kw = kw)
        r == FoldLeft(Step, built, Kind("refine") \o Kind("augment"))
    IN  IF g \notin DOMAIN c.p.groups THEN Result(Fault(b, {"grouping"}), <<>>, {})
        ELSE IF g \in c.stack THEN Result(Fault(b, {"grouping cycle"}), <<>>, {})
        ELSE Result(r.b, AddWhens(PruneRefinedOut(r.out), ContextKinds, WhenOf(u)),
                    r.excl \cup PrunedNames(r.out))

(* The tree of one module, from its top statements in their order.         *)
BuildIR(p, m, b) ==
    LET c    == RootContext(p, m)
        root == Synthetic("module", "", m, "true", <<>>)
        Step(r, s) ==
            IF ~Included(p, s)
            THEN [r EXCEPT !.excl = @ \cup ExcludedNames(p, s, m, {})]
            ELSE IF s.kw = "uses"
            THEN LET u == ExpandUses(s, c, r.b)
                 IN  Result(u.b, r.out \o u.out, r.excl \cup u.excl)
            ELSE IF s.kw \in ChildKinds \cup {"rpc"}
            THEN LET n == BuildNode(s, c, r.b) IN Result(n.b, Append(r.out, n.node), r.excl)
            ELSE r
        r == FoldLeft(Step, Result(b, <<>>, {}), p.stmts[m])
    IN  [b |-> r.b, node |-> [root EXCEPT !.kids = r.out, !.excl = r.excl]]
=============================================================================
