------------------------------ MODULE MCForest ------------------------------
(* Compiled schemas for the forest, and what links libyang makes in them.  *)
EXTENDS Forest

LOCAL T(name, kind, kids) ==
    [name |-> name, kind |-> kind, mod |-> <<"m", "1">>, kids |-> kids, acts |-> <<>>, notifs |-> <<>>,
     config |-> "rw", status |-> "current", mandatory |-> "", presence |-> FALSE, order |-> "system",
     min |-> 0, max |-> NoMax, key |-> FALSE, uniq |-> FALSE, dflts |-> <<>>,
     uniques |-> <<>>, type |-> [base |-> "string", name |-> "string", parts |-> <<>>]]
LOCAL Of(base, parts) == [base |-> base, name |-> base, parts |-> parts]
LOCAL Leaf(name) == T(name, "leaf", <<>>)
LOCAL TypedLeaf(name, type) == [Leaf(name) EXCEPT !.type = type]
LOCAL Ref(target, real) == [base |-> "leafref", name |-> "leafref", require |-> FALSE, target |-> target, real |-> real]
LOCAL String == Of("string", <<>>)
LOCAL Dec == [base |-> "decimal64", name |-> "ratio", fd |-> 2, parts |-> <<<<-WordMax - 1, -150>>, <<-5, 30>>, <<WordMax, WordMax>>>>]
LOCAL Q(prefix, name) == [prefix |-> prefix, name |-> name]

(* The children of the cases of a choice are one list.                     *)
LOCAL Link(nodes, tops) ==
    LET lists == {nodes[a].kids : a \in DOMAIN nodes} \cup {nodes[a].acts : a \in DOMAIN nodes}
                 \cup {nodes[a].notifs : a \in DOMAIN nodes} \cup tops
        owner(a) == {b \in DOMAIN nodes : a \in ToSet(nodes[b].kids \o nodes[b].acts \o nodes[b].notifs)}
        parent(a) == IF owner(a) = {} THEN Null ELSE CHOOSE b \in owner(a) : TRUE
        within(a) == CHOOSE l \in lists : a \in ToSet(l)
        first(l) == IF l = <<>> THEN Null ELSE l[1]
        succ(a) == LET l == within(a)
                       i == CHOOSE k \in DOMAIN l : l[k] = a
                       p == parent(a)
                   IN  IF i < Len(l) THEN l[i + 1]
                       ELSE IF p # Null /\ nodes[p].kind = "case" /\ within(p)[Len(within(p))] # p
                       THEN first(nodes[within(p)[1 + CHOOSE k \in DOMAIN within(p) : within(p)[k] = p]].kids)
                       ELSE Null
    IN  [a \in DOMAIN nodes |->
            [name |-> nodes[a].name, mod |-> nodes[a].mod, uniques |-> nodes[a].uniques,
             parent |-> parent(a), next |-> succ(a), child |-> first(nodes[a].kids),
             acts |-> first(nodes[a].acts), notifs |-> first(nodes[a].notifs), said |-> nodes[a]]
            @@ CompileNode(nodes[a])]

(* A recompilation moves every node: the addresses differ from load to load*)
RECURSIVE MovedType(_, _)
MovedType(type, by) ==
    [k \in DOMAIN type |->
        CASE k = "target" -> IF type.target = Null THEN Null ELSE type.target + by
          [] k = "real" -> MovedType(type.real, by)
          [] k = "members" -> [i \in DOMAIN type.members |-> MovedType(type.members[i], by)]
          [] OTHER -> type[k]]
LOCAL Moved(c, by) ==
    LET at(a) == IF a = Null THEN Null ELSE a + by IN
    [mods |-> [i \in DOMAIN c.mods |->
        [c.mods[i] EXCEPT !.data = at(@), !.rpcs = at(@), !.notifs = at(@)]],
     nodes |-> [a \in {at(b) : b \in DOMAIN c.nodes} |->
        [c.nodes[a - by] EXCEPT
            !.parent = at(@), !.next = at(@), !.child = at(@), !.acts = at(@), !.notifs = at(@),
            !.type = MovedType(@, by), !.said.type = MovedType(@, by),
            !.uniques = [u \in DOMAIN @ |-> [i \in DOMAIN @[u] |-> at(@[u][i])]]]]]

LOCAL Op(n) == [n EXCEPT !.config = "none"]
LOCAL State(n) == [n EXCEPT !.config = "ro"]
LOCAL Int8 == [Of("int8", <<<<-128, -1>>, <<1, 127>>>>) EXCEPT !.name = "nonzero"]
LOCAL Enum == [base |-> "enumeration", name |-> "enumeration", values |-> <<<<"a", 5>>, <<"b", -1>>>>]
LOCAL BitsOf == [base |-> "bits", name |-> "flags", values |-> <<<<"a", 0>>, <<"b", 9>>>>]
LOCAL Instance == [base |-> "instance-identifier", name |-> "instance-identifier", require |-> TRUE]
LOCAL IdentityRef(bases) == [base |-> "identityref", name |-> "identityref", bases |-> bases]
LOCAL Union(members) == [base |-> "union", name |-> "union", members |-> members]

LOCAL NodesM(more) == <<
    T("top", "container", <<2, 9>> \o more),
    [T("ch", "choice", <<3, 6>>) EXCEPT !.mandatory = "true"], T("c1", "case", <<4, 5>>), Leaf("a"),
    TypedLeaf("b", Union(<<Int8, Enum>>)),
    T("c2", "case", <<7>>), T("in", "choice", <<8>>), T("c3", "case", <<21>>),
    [T("li", "list", <<10, 11, 12>>) EXCEPT !.acts = <<14>>, !.notifs = <<17>>, !.uniques = <<<<13>>, <<13, 11>>>>,
        !.order = "user", !.min = 1, !.max = 3, !.status = "deprecated"],
    [TypedLeaf("k2", Int8) EXCEPT !.key = TRUE], [TypedLeaf("k1", Ref(10, Int8)) EXCEPT !.key = TRUE, !.uniq = TRUE],
    [T("sub", "container", <<13>>) EXCEPT !.presence = TRUE],
    [TypedLeaf("u", Of("uint64", <<<<0, 7>>, <<WordMax, 2 * WordMax + 1>>>>)) EXCEPT !.uniq = TRUE, !.mandatory = "false"],
    Op(T("act", "action", <<15, 16>>)), Op(T("input", "input", <<>>)), Op(T("output", "output", <<18>>)),
    Op(T("nt", "notification", <<>>)), Op(TypedLeaf("k1", BitsOf)),
    Op(T("op", "rpc", <<>>)), Op(T("ev", "notification", <<22>>)),
    [T("d", "leaf-list", <<>>) EXCEPT !.dflts = <<<<"x">>, <<"y">>>>, !.max = 5, !.type = Of("string", <<<<1, 8>>>>)],
    Op(TypedLeaf("a", Of("binary", <<<<0, 2>>, <<4, WordMax>>>>)))>>
LOCAL InN(n) == [n EXCEPT !.mod = <<"n", "2">>]
LOCAL NodesN == <<
    InN([State(TypedLeaf("a", Instance)) EXCEPT !.status = "obsolete", !.mandatory = "true"]),
    InN([State(T("li", "list", <<>>)) EXCEPT !.notifs = <<26>>]),            \* augmented into top: 23, 24
    InN(T("n", "container", <<27, 28, 29, 30, 31>>)), InN(Op(T("a", "notification", <<>>))),
    InN([TypedLeaf("n", Dec) EXCEPT !.dflts = <<<<"-", "0", ".", "0", "5">>>>]),
    InN([T("o", "leaf-list", <<>>) EXCEPT !.type = Of("int64", <<<<-WordMax - 1, -3>>, <<0, WordMax>>>>), !.order = "user"]),
    InN(TypedLeaf("s", Of("boolean", <<>>))), InN(TypedLeaf("e", Of("empty", <<>>))), InN(T("x", "anydata", <<>>))>>

LOCAL Mod(name, rev, prefix, imports, data) ==
    [name |-> name, rev |-> rev, prefix |-> prefix, impl |-> TRUE, parsed |-> TRUE, imports |-> imports,
     data |-> data, rpcs |-> Null, notifs |-> Null, idents |-> <<>>, devs |-> <<>>]
LOCAL Import(prefix, name, rev) == [prefix |-> prefix, name |-> name, rev |-> rev]
LOCAL Id(file, name, bases, derived) == [file |-> file, name |-> name, bases |-> bases, derived |-> derived]
LOCAL FileM == [name |-> "m", prefix |-> "p", imports |-> <<>>]
LOCAL FileN == [name |-> "n", prefix |-> "p", imports |-> <<Import("q", "m", "")>>]
LOCAL SubmoduleN == [name |-> "n", prefix |-> "r", imports |-> <<Import("s", "m", "")>>]

LOCAL M(idents) ==
    [Mod("m", "1", "p", <<>>, 1) EXCEPT !.rpcs = 19, !.notifs = 20, !.idents = idents]
LOCAL One ==
    [mods |-> <<M(<<Id(FileM, "root", <<>>, <<>>)>>)>>, nodes |-> Link(NodesM(<<>>), {<<1>>, <<19>>, <<20>>})]
(* n comes later, augments and deviates m and derives from its identities, *)
(* partly in a submodule with prefixes of its own; an older n is there too.*)
LOCAL Both ==
    [mods |-> <<M(<<Id(FileM, "root", <<>>, <<<<"n", "left">>, <<"n", "right">>>>), Id(FileM, "one", <<>>, <<>>)>>),
        [Mod("n", "2", "p", FileN.imports, 25) EXCEPT
           !.idents = <<Id(FileN, "left", <<Q("q", "root")>>, <<<<"n", "tip">>>>),
                        Id(SubmoduleN, "right", <<Q("s", "root")>>, <<<<"n", "tip">>>>),
                        Id(SubmoduleN, "tip", <<Q("r", "left"), Q("r", "right")>>, <<>>)>>,
           !.devs = <<[path |-> <<Q("q", "top"), Q("q", "ch"), Q("q", "c1"), Q("q", "a")>>,
                       deviates |-> <<[type |-> "replace", set |-> [type |-> <<"int8">>, default |-> <<"1">>]],
                                      [type |-> "add", set |-> [units |-> <<"s">>, must |-> <<"a", "b">>]]>>],
                      [path |-> <<Q("q", "top"), Q("p", "li")>>,
                       deviates |-> <<[type |-> "add", set |-> ("min-elements" :> <<"1">> @@ "max-elements" :> <<"0">>)]>>],
                      [path |-> <<Q("p", "n"), Q("p", "n")>>,
                       deviates |-> <<[type |-> "delete", set |-> [must |-> <<"c">>]],
                                      [type |-> "not-supported", set |-> <<>>]>>]>>],
        [Mod("n", "1", "p", <<>>, Null) EXCEPT !.impl = FALSE],
        [Mod("x", "", "x", <<>>, Null) EXCEPT !.impl = FALSE, !.parsed = FALSE]>>,
     nodes |-> Link([(NodesM(<<23, 24>>) \o NodesN) EXCEPT ![4].type = Ref(27, Dec),
                  ![5].type = Union(<<Ref(27, Dec), IdentityRef(<<<<"n", "left">>>>)>>)], {<<1>>, <<19>>, <<20>>, <<25>>})]

MCLibraries == {<<[mods |-> <<>>, nodes |-> <<>>], One, Moved(Both, 100)>>}
=============================================================================
