----------------------------- MODULE MCEntries -----------------------------
(***************************************************************************)
(* The modules whose entries are looked at: a program has the statements of*)
(* its modules (native: their compiled nodes), their prefixes and imports, *)
(* the groupings a module can see, the paths to look up, and whether the   *)
(* children of each of its bodies have distinct names, as YANG requires    *)
(* (the uses expanded; what an augment adds a second time, merge refuses). *)
(***************************************************************************)
EXTENDS EntryTree

E_(kw, arg, subs) == [NoStatement EXCEPT !.kw = kw, !.arg = arg, !.subs = subs]
ELeaf(name) == E_("leaf", name, <<>>)
ECont(name, subs) == E_("container", name, subs)
EUses(pre, name) == [E_("uses", name, <<>>) EXCEPT !.pre = pre]
P_(pre, name) == [pre |-> pre, name |-> name]
Abs(parts) == [abs |-> TRUE, parts |-> parts]
Rel(parts) == [abs |-> FALSE, parts |-> parts]
EAug(parts, subs) == [E_("augment", "", subs) EXCEPT !.path = Abs(parts)]
EDev(parts, specs) == [E_("deviation", "", specs) EXCEPT !.path = Abs(parts)]
Un(name) == P_("", name)
NotSupported == E_("deviate", "not-supported", <<>>)
Spec_(how) == E_("deviate", how, <<>>)

ETop == P_("a", "top")
Solo(subs, paths) ==
  [native |-> FALSE, distinct |-> TRUE, modules |-> "a" :> E_("module", "a", subs), prefixes |-> "a" :> "a",
    imports |-> "a" :> {},
   groups |-> <<>>, excluded |-> {}, paths |-> paths]

(* Groupings, a choice with a shorthand case, augments of which one misses *)
(* and one clashes, a deviation that removes.                              *)
EChoices ==
  Solo(<<ECont("top", <<ELeaf("before"), EUses("", "g"),
            E_("choice", "pick", <<ELeaf("direct"), E_("case", "k", <<ELeaf("in")>>)>>), ELeaf("gone")>>),
         E_("grouping", "g", <<ELeaf("x"), EUses("", "h"), EUses("z", "none")>>),
         E_("grouping", "h", <<ECont("y", <<ELeaf("z")>>), EUses("", "g")>>),
         EAug(<<ETop, Un("n")>>, <<ELeaf("deep")>>),
         EAug(<<ETop>>, <<ELeaf("before"), ECont("n", <<ELeaf("child")>>)>>),
         EAug(<<ETop, Un("pick")>>, <<ELeaf("late")>>),
         EAug(<<ETop, Un("missing")>>, <<ELeaf("lost")>>),
         EDev(<<ETop, Un("gone")>>, <<NotSupported, NotSupported>>)>>,
       {Abs(<<ETop, Un("pick"), Un("direct")>>), Rel(<<Un("top"), Un("n"), Un(".."), Un("pick"), Un("late"), Un("late")>>)})

(* Operations: without, with one and with both of input and output.        *)
EIn(subs) == E_("input", "", subs)
EOut(subs) == E_("output", "", subs)
EOperations ==
  Solo(<<E_("rpc", "go", <<>>), E_("rpc", "io", <<EIn(<<ELeaf("i")>>), EOut(<<ELeaf("o")>>)>>),
         ECont("top", <<E_("action", "act", <<EIn(<<E_("choice", "c", <<ELeaf("l")>>)>>)>>), E_("action", "no", <<>>)>>),
         EAug(<<P_("a", "go"), Un("input")>>, <<ELeaf("arg")>>),
         EAug(<<ETop>>, <<E_("action", "new", <<EIn(<<ELeaf("j")>>), EOut(<<ELeaf("q")>>)>>)>>),
         EDev(<<P_("a", "io"), Un("input")>>, <<NotSupported>>)>>,
       {Abs(<<P_("a", "go"), Un("output")>>), Abs(<<ETop, Un("no"), Un("input")>>), Abs(<<ETop, Un("new"), Un("input")>>)})

(* Siblings of one name, in a container and in a choice.                   *)
ETwins ==
 [Solo(<<ECont("a", <<EUses("", "g"), ELeaf("x"), E_("choice", "c", <<ELeaf("d"), ECont("d", <<ELeaf("e")>>)>>)>>),
         E_("grouping", "g", <<ECont("x", <<ELeaf("y")>>)>>),
         EAug(<<P_("a", "a"), P_("a", "a")>>, <<ELeaf("x"), E_("choice", "o", <<ELeaf("f"), ELeaf("f")>>)>>),
         EDev(<<P_("a", "a"), P_("a", "a"), Un("x")>>, <<NotSupported>>),
         EDev(<<P_("a", "a"), P_("a", "a"), Un("c"), Un("d")>>, <<NotSupported>>)>>,
       {Abs(<<P_("a", "a")>>), Rel(<<Un("..")>>), Rel(<<Un("a"), Un("a"), Un("x"), Un("y")>>)})
  EXCEPT !.distinct = FALSE]

(* Deviations that change: bounds of an augmented list, defaults, config.  *)
EList(name, subs) == [E_("list", name, subs) EXCEPT !.min = 1]
EDeviations ==
  Solo(<<ECont("top", <<[ELeaf("d") EXCEPT !.dflts = <<"1">>, !.conf = "true"], E_("leaf-list", "ll", <<>>)>>),
         EAug(<<ETop>>, <<EList("li", <<ELeaf("k")>>)>>),
         EDev(<<ETop, Un("li")>>, <<[Spec_("delete") EXCEPT !.min = 2], [Spec_("add") EXCEPT !.max = 7], Spec_("odd")>>),
         EDev(<<ETop, Un("d")>>, <<[Spec_("add") EXCEPT !.dflts = <<"2">>, !.conf = "false", !.min = 3],
                                   [Spec_("replace") EXCEPT !.dflts = <<"3">>, !.type = "t", !.mand = "true"],
                                   [Spec_("delete") EXCEPT !.dflts = <<"4">>, !.mand = "true"]>>),
         EDev(<<ETop, Un("ll")>>, <<[Spec_("add") EXCEPT !.dflts = <<"5", "6">>], [Spec_("delete") EXCEPT !.dflts = <<"5">>]>>)>>,
       {Abs(<<ETop, Un("li"), Un("k")>>)})

(* Two modules, one of which augments and deviates the other.              *)
EImports ==
  [Solo(<<ECont("top", <<E_("choice", "pick", <<>>)>>), EUses("p", "g"), E_("grouping", "own", <<ELeaf("own")>>)>>,
        {Abs(<<P_("b", "own")>>), Abs(<<P_("p", "top"), Un("pick"), Un("s")>>)}) EXCEPT
     !.modules = @ @@ ("b" :> E_("module", "b",
        <<EUses("p", "g"), EAug(<<P_("p", "top"), Un("pick")>>, <<ECont("s", <<ELeaf("t")>>)>>),
          EAug(<<P_("q", "top")>>, <<ELeaf("u")>>),
          EDev(<<P_("p", "top"), Un("pick"), Un("s")>>, <<NotSupported>>)>>)),
     !.prefixes = @ @@ ("b" :> "bb"),
     !.imports = @ @@ ("b" :> {[prefix |-> "p", name |-> "a"], [prefix |-> "q", name |-> "c"]}),
     !.groups = (<<"b", "p", "g">> :> [st |-> E_("grouping", "g", <<EUses("", "own")>>), mod |-> "a"])
                @@ (<<"a", "", "own">> :> [st |-> E_("grouping", "own", <<ELeaf("own")>>), mod |-> "a"])]

(* Compiled nodes.                                                         *)
EN(kw, arg, conf, subs) == [E_(kw, arg, subs) EXCEPT !.conf = conf, !.mod = "a"]
ENative ==
  [Solo(<<>>, {Abs(<<P_("a", "do"), Un("output"), Un("r")>>), Abs(<<P_("i", "top")>>), Abs(<<P_("do", "do"), Un("input")>>)})
   EXCEPT !.native = TRUE, !.excluded = {"x"},
     !.modules["a"] = [EN("module", "a", "true",
        <<EN("container", "top", "true", <<EN("choice", "c", "true", <<EN("leaf", "l", "true", <<>>)>>),
             EN("action", "act", "true", <<>>), [EN("leaf", "hid", "true", <<>>) EXCEPT !.mod = "x"]>>),
          EN("rpc", "do", "true", <<EN("input", "input", "true", <<EN("leaf", "p", "true", <<>>)>>),
             EN("output", "output", "true", <<EN("choice", "oc", "true", <<EN("leaf", "r", "true", <<>>)>>)>>)>>),
          EN("container", "st", "false", <<EN("leaf", "s", "false", <<>>)>>)>>) EXCEPT !.mod = "a"],
     !.imports = "a" :> {[prefix |-> "i", name |-> "a"]}]

MCEntryPrograms == {EChoices, EOperations, ETwins, EDeviations, EImports, ENative}
=============================================================================
