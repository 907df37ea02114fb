----------------------------- MODULE MCToolkit -----------------------------
(***************************************************************************)
(* The inputs the parts of the toolkit are asked about, and the            *)
(* specification that asks one of them.                                    *)
(***************************************************************************)
EXTENDS SchemaBuild, PureTree, MCForest, MCTypes, MCPatterns, MCCompat, MCXPath, MCViews, MCXml, MCEntries

(* The deeply recursive operators, by name.  The definition is a LET, which*)
(* TLC's profiler does not look into.                                      *)
MCCompute(f, x) ==
    LET result ==
         CASE f = "BuildIR" -> BuildIR(x[1], x[2], x[3])
           [] f = "BuildForest" -> BuildForest(x[1])
           [] f = "SchemaKept" -> SchemaKept(x[1], x[2])
           [] f = "BuildChildren" -> BuildChildren(x[1], x[2], x[3])
           [] f = "BuildAugmentChildren" -> BuildAugmentChildren(x[1], x[2], x[3])
           [] f = "Augmented" -> Augmented(x[1], x[2], x[3])
           [] f = "CanonicalToken" -> CanonicalToken(x[1], x[2], x[3])
           [] f = "ValueKey" -> ValueKey(x[1], x[2], x[3])
           [] f = "SameValue" -> SameValue(x[1], x[2], x[3], x[4], x[5])
           [] f = "ValueOrderKey" -> ValueOrderKey(x[1], x[2], x[3])
           [] f = "ValueBefore" -> ValueBefore(x[1], x[2], x[3])
           [] f = "SortStable" -> SortStable(x[1], x[2])
           [] f = "ParseTypeSeen" -> ParseTypeSeen(x[1], x[2], x[3], x[4], x[5], x[6])
           [] f = "Meaning" -> Meaning(x[1], x[2], x[3], x[4], x[5])
           [] f = "IfFeatures" -> IfFeatures(x[1], x[2], x[3], x[4])
           [] f = "ResolveInType" -> ResolveInType(x[1], x[2], x[3])
           [] f = "CompilePattern" -> CompilePattern(x[1], x[2])
           [] f = "Derive" -> Derive(x[1], x[2], x[3], x[4])
           [] f = "BuildContext" -> BuildContext(x[1], x[2])
           [] f = "ParseText" -> ParseText(x[1], x[2], x[3])
           [] f = "Read" -> Read(x[1], x[2], x[3])
           [] f = "ReadPath" -> ReadPath(x[1], x[2])
           [] f = "Process" -> Process(x[1], x[2])
           [] f = "GetModule" -> GetModule(x[1], x[2], x[3])
           [] f = "FindModule" -> FindModule(x[1], x[2], x[3], x[4])
           [] f = "FindModuleByNamespace" -> FindModuleByNamespace(x[1], x[2])
           [] f = "LookUpIn" -> LookUpIn(x[1], x[2], x[3])
           [] f = "TreeSound" -> TreeSound(x[1])
           [] f = "CloneSound" -> CloneSound(x[1], x[2])
           [] f = "NodesExact" -> NodesExact(x[1], x[2], x[3], x[4])
           [] f = "GroupingsExact" -> GroupingsExact(x[1], x[2], x[3])
           [] f = "ExtensionsExact" -> ExtensionsExact(x[1], x[2], x[3])
           [] f = "PrefixesExact" -> PrefixesExact(x[1], x[2], x[3])
           [] f = "parseXPath" -> parseXPath(x[1])
           [] f = "Eval" -> Eval(x[1], x[2], x[3])
           [] f = "checkMustWhen" -> checkMustWhen(x[1])
           [] f = "ParsedExactly" -> ParsedExactly(x[1])
           [] f = "EvaluatedExactly" -> EvaluatedExactly(x[1], x[2])
           [] f = "ConditionsExact" -> ConditionsExact(x[1], x[2])
    IN  result

------------------------------------------------------------------------------
(* Statements.                                                             *)
St(kw, name, subs) == [Stmt(kw, name, "") EXCEPT !.subs = subs]
Leaf(name) == St("leaf", name, <<>>)
Cont(name, subs) == St("container", name, subs)
UsesOf(g, subs) == [St("uses", "", subs) EXCEPT !.path = <<g>>]
At(kw, path, subs) == [St(kw, "", subs) EXCEPT !.path = path]
Aug(path, subs) == At("augment", path, subs)
Dev(path, how, props) == At("deviation", path, <<St("deviate", how, props)>>)
Prop(kw, value) == [St(kw, value, <<>>) EXCEPT !.mand = IF kw = "mandatory" THEN value ELSE ""]
Bounded(kw, v) == [St(kw, "", <<>>) EXCEPT !.min = IF kw = "min-elements" THEN v ELSE -1,
                                           !.max = IF kw = "max-elements" THEN v ELSE -1]

top == <<"a", "top">>
abc == {<<"a", "b", "c">>, <<"c", "b", "a">>, <<"b", "c", "a">>, <<"c", "a", "b">>}

(* Augments that wait for each other across modules, to a container and to *)
(* a choice, one of them disabled, one without a target.                   *)
ChainedOn(cases) ==
  [stmts |->
     [a |-> <<Cont("top", <<Leaf("x"), St("choice", "ch", cases)>>),
              Aug(<<top>>, <<Leaf("own")>>)>>,
      b |-> <<Aug(<<top, <<"c", "cc">>>>, <<Leaf("deep")>>),
              Aug(<<top>>, <<Cont("bc", <<Leaf("y")>>)>>),
              Aug(<<top, <<"a", "ch">>>>, <<Leaf("late"), St("case", "bk", <<Leaf("z")>>)>>),
              Aug(<<top, <<"b", "bc">>>>, <<Leaf("tail")>>)>>,
      c |-> <<Aug(<<top, <<"b", "bc">>>>, <<Leaf("w")>>),
              [Aug(<<top>>, <<Cont("cc", <<>>)>>) EXCEPT !.feat = {"f"}],
              Aug(<<top, <<"b", "bc">>>>, <<Leaf("v"), Leaf("u")>>)>>],
   groups |-> <<>>, defs |-> <<>>, features |-> {"f"}, limit |-> 100,
   v11 |-> {"a", "b", "c"}, vendor |-> FALSE, orders |-> abc]
Chained == ChainedOn(<<St("case", "k", <<Leaf("l")>>), Leaf("s")>>)

(* Groupings: refined, augmented, pruned by a feature, nested, with a when.*)
Grouped ==
  [Chained EXCEPT !.orders = {<<"a", "b">>, <<"b", "a">>}, !.defs = <<<<"a", "g">>, <<"a", "h">>>>,
     !.groups = (<<"a", "g">> :> <<Leaf("p"), Cont("q", <<[Leaf("r") EXCEPT !.mand = "true"]>>),
                                   UsesOf(<<"a", "h">>, <<>>)>>)
             @@ (<<"a", "h">> :> <<[Leaf("t") EXCEPT !.feat = {"f"}],
                                   [St("list", "li", <<Leaf("id"), Leaf("val")>>)
                                       EXCEPT !.keys = <<"id">>]>>),
     !.stmts =
       [a |-> <<Cont("top", <<[UsesOf(<<"a", "g">>,
                    <<[At("refine", <<<<"", "p">>>>, <<>>) EXCEPT !.feat = {"f"}],
                      [At("refine", <<<<"", "q">>>>, <<>>) EXCEPT !.conf = "false"],
                      [At("refine", <<<<"", "t">>>>, <<>>) EXCEPT !.mand = "true"],
                      Aug(<<<<"", "q">>>>, <<Leaf("extra")>>)>>) EXCEPT !.when = TRUE],
                    St("action", "act", <<St("input", "", <<Leaf("arg")>>)>>)>>),
                St("rpc", "go", <<>>)>>,
        b |-> <<UsesOf(<<"a", "h">>, <<>>),
                [Aug(<<top, <<"a", "q">>>>, <<[Leaf("must") EXCEPT !.mand = "true"]>>)
                    EXCEPT !.when = TRUE],
                Aug(<<top, <<"a", "li">>>>, <<[Leaf("need") EXCEPT !.mand = "true"]>>)>>]]

(* Bodies of groupings: a default case that is free of mandatory nodes only*)
(* where it is refined, and a grouping nothing uses.                       *)
Bodies(name) ==
  [Chained EXCEPT !.orders = {<<"a", "b">>, <<"b", "a">>}, !.defs = <<<<"b", "un">>, <<"a", "g">>>>,
     !.groups = (<<"a", "g">> :> <<[St("choice", "ch",
                     <<St("case", "k", <<[Leaf("l") EXCEPT !.mand = "true"]>>), Leaf("s")>>)
                         EXCEPT !.dflts = <<"k">>]>>)
             @@ (<<"b", "un">> :> <<Cont("c", <<UsesOf(<<"a", "g">>, <<>>), Leaf(name)>>)>>),
     !.stmts =
       [a |-> <<Cont("top", <<UsesOf(<<"a", "g">>,
                   <<[At("refine", <<<<"", "ch">>, <<"", "k">>, <<"", "l">>>>, <<>>)
                        EXCEPT !.mand = "false"]>>)>>)>>,
        b |-> <<>>]]

(* Deviations after augments, on keys, defaults, bounds, config and a      *)
(* choice's default case.                                                  *)
Deviated(devs) ==
  [Chained EXCEPT !.orders = {<<"a", "b">>, <<"b", "a">>},
     !.stmts =
       [a |-> <<Cont("top", <<[St("list", "li", <<Leaf("id"), Leaf("val")>>)
                                  EXCEPT !.keys = <<"id">>, !.min = 1, !.max = 3],
                    [St("choice", "ch", <<St("case", "k", <<Leaf("l")>>), Leaf("s")>>)
                        EXCEPT !.dflts = <<"k">>]>>)>>,
        b |-> <<Aug(<<top>>, <<Leaf("id")>>)>> \o devs]]

Li == <<top, <<"a", "li">>>>
Deviations ==
  {<<Dev(<<top>>, "add", <<Prop("config", "false")>>)>>,
   <<Dev(Li \o <<<<"a", "id">>>>, "not-supported", <<>>)>>,
   <<Dev(Li \o <<<<"a", "id">>>>, "add", <<Prop("config", "false")>>)>>,
   <<Dev(Li \o <<<<"a", "val">>>>, "add", <<Prop("default", "d"), Prop("mandatory", "true")>>)>>,
   <<Dev(Li, "replace", <<Bounded("max-elements", 0), Bounded("min-elements", 5)>>)>>,
   <<Dev(Li, "delete", <<Bounded("min-elements", 1)>>),
     Dev(Li, "add", <<Bounded("min-elements", 4)>>)>>,
   <<Dev(<<top, <<"a", "ch">>, <<"a", "k">>, <<"a", "l">>>>, "add", <<Prop("mandatory", "true")>>)>>,
   <<Dev(<<top, <<"a", "ch">>>>, "replace", <<Prop("default", "s")>>)>>,
   <<Dev(<<top, <<"a", "ch">>>>, "delete", <<Prop("default", "k")>>)>>,
   <<Dev(<<top, <<"a", "gone">>>>, "not-supported", <<>>)>>,
   <<Dev(<<top, <<"a", "ch">>>>, "not-supported", <<>>)>>}

(* Names that clash across the cases of a choice or with an augment's.     *)
Clashing(name) ==
  [Chained EXCEPT !.orders = {<<"a">>},
     !.stmts = [a |-> <<Cont("top", <<Leaf("x"), St("choice", "ch",
                          <<St("case", "k", <<Leaf(name)>>), St("case", "j", <<Leaf("y")>>),
                            St("choice", "in", <<Leaf("w")>>)>>)>>),
                        Aug(<<top>>, <<Leaf("z")>>)>>]]

(* The lenient mode: a local name that an augment has yet to create.       *)
Lenient ==
  [Chained EXCEPT !.vendor = TRUE,
     !.stmts =
       [a |-> <<Cont("top", <<Cont("m", <<>>)>>)>>,
        b |-> <<Aug(<<top, <<"c", "m">>>>, <<Leaf("exact")>>),
                Aug(<<<<"", "top">>, <<"", "n">>>>, <<Leaf("loose")>>),
                Aug(<<top, <<"a", "missing">>>>, <<Leaf("lost")>>)>>,
        c |-> <<[Aug(<<top, <<"a", "m">>>>, <<Cont("n", <<>>)>>) EXCEPT !.when = TRUE],
                Aug(<<top, <<"b", "m">>, <<"c", "n">>>>, <<Leaf("deep")>>),
                Aug(<<top>>, <<Cont("m", <<>>)>>)>>]]

MCPrograms ==
    {[Chained EXCEPT !.features = f, !.limit = l] : f \in {{}, {"f"}}, l \in {4, 12, 20, 22, 100}}
    \cup {[ChainedOn(<<>>) EXCEPT !.limit = l] : l \in {15, 16, 17}}
    \cup {[Grouped EXCEPT !.features = f, !.limit = l, !.v11 = v, !.vendor = w] :
            f \in {{}, {"f"}}, l \in {9, 22, 100}, v \in {{"a"}, {"a", "b"}}, w \in BOOLEAN}
    \cup {[Grouped EXCEPT !.features = f, !.limit = l, !.stmts["b"] = SubSeq(@, 1, 2)] :
            f \in {{}, {"f"}}, l \in {20, 24, 27, 28, 31, 32}}
    \cup {[Bodies(n) EXCEPT !.limit = l] : n \in {"y", "l", "ch"}, l \in {8, 16, 100}}
    \cup {Deviated(d) : d \in Deviations}
    \cup {Clashing(n) : n \in {"x", "y", "v", "z", "w", "in", "ch"}}
    \cup {Lenient, [Lenient EXCEPT !.stmts["b"] = SubSeq(@, 1, 2)]}

------------------------------------------------------------------------------
(* Values: types and the tokens tried for each.                            *)
Ints(kind, ranges) == [base |-> "int", kind |-> kind, ranges |-> ranges]
Dec == [base |-> "decimal64", fd |-> 2, ranges |-> {}]
Identity == [base |-> "identityref",
             bases |-> {{<<"m", ":", "one">>, <<"n", ":", "one">>, <<"m", ":", "two">>}}]
Bits == [base |-> "bits", values |-> {<<"a", 9>>, <<"b", 0>>, <<"c", 17>>}]
Union(members) == [base |-> "union", members |-> members]

D15 == <<<<"1", ".", "5">>, <<"1", ".", "5", "0">>, <<"+", "1", ".", "5">>, <<"0", "1", ".", "5">>>>
Decimals == D15 \o <<<<"-", "0", ".", "0">>, <<"0">>, <<"9", ".", "9", "9">>, <<"1", "0", ".", "0">>,
                      <<"-", "1", "0", ".", "0">>, <<"1", ".", "5", "0", "0">>, <<".", "5">>,
                      <<"-", "0", ".", "0", "5">>, <<"0", ".", "5">>>>
Integers8 == <<<<"-", "0">>, <<"0">>, <<"7">>, <<"1", "2">>, <<"0", "7">>, <<"3", "0", "0">>,
              <<"-", "1">>>>
Integers64 == <<<<"-", "0">>, <<"0", "0", "7">>, <<"7">>, <<"+", "7">>, <<"9", "9", "9">>,
               <<"1", "0", "0", "0">>, <<"-", "7">>, <<"1", "9", "9", "9">>>>
Names == <<<<"one">>, <<"m", ":", "one">>, <<"n", ":", "one">>, <<"two">>, <<"m", ":", "two">>,
          <<"n", ":", "two">>>>
BitTexts == <<<<"a", " ", "b">>, <<"b", " ", " ", "a">>, <<"b">>, <<"c">>, <<"a", " ", "a">>,
          <<"c", " ", "b">>, <<>>, <<"a">>>>
Blobs == <<<<"a">>, <<"b">>, <<"a", "a">>, <<>>>>

Sample(type, strings, numbers) ==
  [type |-> type, toks |-> [i \in DOMAIN strings |-> Str(strings[i])] \o [i \in DOMAIN numbers |-> Num(numbers[i])]]

MCValueSamples ==
  {Sample(Ints("i8", {}), <<<<"7">>>>, Integers8), Sample(Ints("u8", {1 .. 7, 12 .. 20}), <<>>, Integers8),
   Sample(Ints("i64", {}), Integers64, <<<<"7">>>>), Sample(Ints("u64", {}), Integers64, <<>>),
   Sample(Dec, Decimals, <<<<"0">>>>), Sample(Bits, BitTexts, <<<<"7">>>>),
   Sample([base |-> "enumeration", values |-> {<<"a", 5>>, <<"b", -1>>, <<"c", 3>>}], Blobs \o <<<<"c">>>>, <<>>),
   Sample(Identity, Names, <<>>), Sample([base |-> "leafref", real |-> Identity], Names, <<>>),
   Sample([base |-> "binary", ranges |-> {1 .. 2}], Blobs, <<>>),
   Sample([base |-> "string", ranges |-> {0 .. 1}], Blobs, <<>>),
   Sample(Union(<<Ints("i8", {1 .. 7}), Union(<<Dec, Identity>>), Bits, [base |-> "string", ranges |-> {}]>>),
          D15 \o <<<<"one">>, <<"m", ":", "one">>, <<"b">>, <<"a", " ", "b">>, <<"b", " ", "a">>>>,
          <<<<"7">>, <<"1", "2">>>>)}

------------------------------------------------------------------------------
(* Trees: schemas, and documents put together from options for each member.*)
N(name, mod, kind, up, kids) ==
  [name |-> name, mod |-> mod, kind |-> kind, up |-> up, kids |-> kids, type |-> [base |-> "none"],
   dflts |-> <<>>, mand |-> FALSE, min |-> 0, max |-> -1, presence |-> FALSE, sys |-> TRUE, cfg |-> TRUE,
   keys |-> <<>>, uniq |-> <<>>, when |-> NoCondition, must |-> NoCondition, dcase |-> "none"]
I8 == Ints("i8", {})
L(name, up) == [N(name, "m", "leaf", up, <<>>) EXCEPT !.type = I8]
Dflt(n, v) == [n EXCEPT !.dflts = v]
V(d) == Num(<<d>>)
If(up, id, v) == [up |-> up, id |-> id, val |-> {V(v)}]

Mb(name, vals, sets) == [mod |-> "", name |-> name, vals |-> vals, sets |-> sets]
Q(mod, m) == [m EXCEPT !.mod = mod]
Lf(name, v) == <<Mb(name, <<V(v)>>, <<>>)>>
Object(options) == FoldLeft(LAMBDA docs, o : {d \o x : d \in docs, x \in o}, {<<>>}, options)
Top(objects) == {<<Q("m", Mb("top", <<>>, <<o>>))>> : o \in objects}

Schema(mods, tops, nodes) == [mods |-> mods, tops |-> tops, nodes |-> nodes]
Root == "/" :> N("/", "", "container", "/", <<>>)
TopOf(kids) == "top" :> N("top", "m", "container", "/", kids)

(* Choices: a default case, an empty container in a case, a nested choice, *)
(* a shorthand case, and a condition on a leaf outside.                    *)
ChoiceSchema(mand) ==
  Schema(<<"m">>, ("m" :> <<"top">>),
    Root @@ TopOf(<<"ch", "g">>)
    @@ ("ch" :> [N("ch", "m", "choice", "top", <<"k1", "k2", "w">>) EXCEPT
                   !.dcase = IF mand THEN "none" ELSE "k2", !.mand = mand])
    @@ ("k1" :> N("k1", "m", "case", "ch", <<"x", "e">>)) @@ ("x" :> L("x", "k1"))
    @@ ("e" :> N("e", "m", "container", "k1", <<"y">>)) @@ ("y" :> Dflt(L("y", "e"), <<V("1")>>))
    @@ ("k2" :> N("k2", "m", "case", "ch", <<"in", "z">>)) @@ ("z" :> Dflt(L("z", "k2"), <<V("2")>>))
    @@ ("in" :> [N("in", "m", "choice", "k2", <<"p", "r">>) EXCEPT !.dcase = "r"])
    @@ ("p" :> N("p", "m", "case", "in", <<"q", "t">>)) @@ ("q" :> [L("q", "p") EXCEPT !.when = If(0, "g", "1")])
    @@ ("r" :> N("r", "m", "case", "in", <<"s">>)) @@ ("s" :> Dflt(L("s", "r"), <<V("3")>>))
    @@ ("t" :> [L("t", "p") EXCEPT !.mand = TRUE])
    @@ ("w" :> [Dflt(L("w", "ch"), <<V("4")>>) EXCEPT !.when = If(0, "g", "1")])
    @@ ("g" :> L("g", "top")))
ChoiceDocs ==
  Top(Object(<<{<<>>, Lf("g", "1"), Lf("g", "0")}, {<<>>, Lf("x", "5")},
               {<<>>, <<Mb("e", <<>>, <<<<>>>>)>>, <<Mb("e", <<>>, <<Lf("y", "5")>>)>>},
               {<<>>, Lf("q", "6")}, {<<>>, Lf("s", "7")}, {<<>>, Lf("t", "7")}, {<<>>, Lf("z", "2")},
               {<<>>, Lf("w", "8")}>>))

(* Lists: keys, an augmented leaf with a key's name, a leaf-list with a    *)
(* default and bounds, unique leaves with defaults below containers and in *)
(* a case, a leafref to the keys.                                          *)
Lists(sys) ==
  Schema(<<"n", "m">>, ("n" :> <<"ref", "must">>) @@ ("m" :> <<"top">>),
    Root @@ TopOf(<<"li">>)
    @@ ("li" :> [N("li", "m", "list", "top", <<"v", "c", "k", "nk", "ll">>) EXCEPT
                   !.keys = <<"k">>, !.uniq = <<<<<<"v">>, <<"c", "ch", "ca", "u">>>>>>, !.max = 2, !.sys = sys])
    @@ ("k" :> L("k", "li")) @@ ("v" :> Dflt(L("v", "li"), <<V("1")>>))
    @@ ("c" :> N("c", "m", "container", "li", <<"ch">>))
    @@ ("ch" :> [N("ch", "m", "choice", "c", <<"ca", "o">>) EXCEPT !.dcase = "ca"])
    @@ ("ca" :> N("ca", "m", "case", "ch", <<"u">>)) @@ ("u" :> Dflt(L("u", "ca"), <<V("2")>>))
    @@ ("o" :> L("o", "ch"))
    @@ ("nk" :> [L("k", "li") EXCEPT !.mod = "n"])
    @@ ("ll" :> [Dflt(N("ll", "m", "leaf-list", "li", <<>>), <<V("3"), V("1")>>) EXCEPT
                   !.type = I8, !.max = 2, !.sys = sys])
    @@ ("ref" :> [N("ref", "n", "leaf", "/", <<>>) EXCEPT
                    !.type = [base |-> "leafref", real |-> I8, ref |-> [up |-> 0, steps |-> <<"top", "li", "k">>]]])
    @@ ("must" :> [N("must", "n", "leaf", "/", <<>>) EXCEPT !.type = I8, !.must = If(0, "ref", "1")]))
EntryDocs(k) ==
  Object(<<{<<>>, Lf("v", "1"), Lf("v", "0")}, {<<>>, <<Mb("c", <<>>, <<<<>>>>)>>, <<Mb("c", <<>>, <<Lf("u", "2")>>)>>,
             <<Mb("c", <<>>, <<Lf("o", "2")>>)>>}, {Lf("k", k)}>>)
Extras == {<<>>, <<Q("n", Lf("k", "9")[1])>>, <<Mb("ll", <<V("5"), V("2")>>, <<>>)>>, <<Mb("ll", <<V("2"), V("2"), V("3")>>, <<>>)>>,
           <<Mb("ll", <<V("x")>>, <<>>), Mb("x", <<>>, <<>>)>>, <<Mb("ll", <<>>, <<>>)>>}
ListDocs ==
  {<<Q("m", Mb("top", <<>>, <<<<Mb("li", <<>>, <<a, b>>)>>>>))>> : a \in EntryDocs("3"), b \in EntryDocs("1")}
  \cup {<<Q("m", Mb("top", <<>>, <<<<Mb("li", <<>>, <<Lf("k", "3") \o x, Lf("v", "0") \o Lf("k", k), Lf("v", "5") \o y>>)>>>>))>>
          : x \in Extras, k \in {"1", "3"}, y \in {<<>>, Lf("k", "0")}}
  \cup {r \o <<Q("m", Mb("top", <<>>, <<<<Mb("li", <<>>, es)>>>>))>> :
          r \in {<<Q("n", Lf("ref", v)[1])>> : v \in {"1", "4"}} \cup {<<Q("n", Lf("must", "1")[1]), Q("n", Lf("ref", "1")[1])>>},
          es \in {<<>>, <<Lf("k", "1")>>, <<Lf("k", "1") \o Lf("v", "z")>>}}

(* What an absent container still asks for, and what a when turns off.     *)
Absent ==
  Schema(<<"m">>, ("m" :> <<"top", "ps">>),
    Root @@ TopOf(<<"g", "np", "lv">>)
    @@ ("g" :> L("g", "top"))
    @@ ("np" :> [N("np", "m", "container", "top", <<"mm", "pc", "nn">>) EXCEPT !.when = If(0, "g", "1")])
    @@ ("mm" :> [L("mm", "np") EXCEPT !.mand = TRUE, !.when = If(1, "lv", "2")])
    @@ ("pc" :> [N("pc", "m", "container", "np", <<"md">>) EXCEPT !.presence = TRUE])
    @@ ("md" :> [L("md", "pc") EXCEPT !.mand = TRUE, !.must = If(2, "g", "1")])
    @@ ("nn" :> N("nn", "m", "container", "np", <<"ml">>))
    @@ ("ml" :> [N("ml", "m", "leaf-list", "nn", <<>>) EXCEPT !.type = I8, !.min = 2, !.cfg = FALSE])
    @@ ("lv" :> [L("lv", "top") EXCEPT !.must = [NoCondition EXCEPT !.id = "?"]])
    @@ ("ps" :> [L("ps", "/") EXCEPT !.mand = TRUE, !.when = [NoCondition EXCEPT !.id = "?"]]))
Inner(kids) == {<<>>} \cup {<<Mb("np", <<>>, <<k>>)>> : k \in kids}
AbsentDocs ==
  {<<>>, <<Q("m", Lf("ps", "1")[1])>>, <<Mb("top", <<>>, <<<<>>>>)>>, <<Q("m", Lf("ps", "1")[1]), Q("m", Lf("ps", "2")[1])>>}
  \cup Top(Object(<<{<<>>, Lf("g", "1"), Lf("g", "0")},
        Inner(Object(<<{<<>>, <<Mb("pc", <<>>, <<<<>>>>)>>, <<Mb("pc", <<>>, <<Lf("md", "1")>>)>>}, {<<>>, Lf("mm", "1")},
                       {<<>>, <<Mb("nn", <<>>, <<<<Mb("ml", <<V("4"), V("4")>>, <<>>)>>>>)>>,
                        <<Mb("nn", <<>>, <<<<Mb("ml", <<V("1")>>, <<>>)>>>>)>>}>>)),
        {<<>>, Lf("lv", "2"), Lf("lv", "3")}>>))

MCDocuments ==
  {[schema |-> ChoiceSchema(FALSE), docs |-> ChoiceDocs], [schema |-> ChoiceSchema(TRUE), docs |-> ChoiceDocs],
   [schema |-> Lists(TRUE), docs |-> ListDocs], [schema |-> Lists(FALSE), docs |-> ListDocs],
   [schema |-> Absent, docs |-> AbsentDocs]}

------------------------------------------------------------------------------
Init == probe = NoProbe /\ BuildIdle /\ TreeIdle /\ ForestIdle /\ TypesIdle /\ FeaturesIdle /\ LeafrefsIdle /\ PatternsIdle /\ FacadeIdle /\ AstIdle /\ XPathIdle /\ ViewsIdle /\ XmlIdle /\ EntriesIdle
Next ==
    \/ BuildNext /\ UNCHANGED <<tvars, fvars, yvars, gvars, lvars, kvars, facade, ast, xpath, jvars, xml, evars>>
    \/ AskValues /\ UNCHANGED <<bvars, tvars, fvars, yvars, gvars, lvars, kvars, facade, ast, xpath, jvars, xml, evars>>
    \/ TreeNext /\ UNCHANGED <<bvars, fvars, yvars, gvars, lvars, kvars, facade, ast, xpath, jvars, xml, evars>>
    \/ ForestNext /\ UNCHANGED <<bvars, tvars, yvars, gvars, lvars, kvars, facade, ast, xpath, jvars, xml, evars>>
    \/ TypesNext /\ UNCHANGED <<bvars, tvars, fvars, gvars, lvars, kvars, facade, ast, xpath, jvars, xml, evars>>
    \/ FeaturesNext /\ UNCHANGED <<bvars, tvars, fvars, yvars, lvars, kvars, facade, ast, xpath, jvars, xml, evars>>
    \/ LeafrefsNext /\ UNCHANGED <<bvars, tvars, fvars, yvars, gvars, kvars, facade, ast, xpath, jvars, xml, evars>>
    \/ PatternsNext /\ UNCHANGED <<bvars, tvars, fvars, yvars, gvars, lvars, facade, ast, xpath, jvars, xml, evars>>
    \/ FacadeNext /\ UNCHANGED <<bvars, tvars, fvars, yvars, gvars, lvars, kvars, ast, xpath, jvars, xml, evars>>
    \/ AstNext /\ UNCHANGED <<bvars, tvars, fvars, yvars, gvars, lvars, kvars, facade, xpath, jvars, xml, evars>>
    \/ XPathNext /\ UNCHANGED <<bvars, tvars, fvars, yvars, gvars, lvars, kvars, facade, ast, jvars, xml, evars>>
    \/ ViewsNext /\ UNCHANGED <<bvars, tvars, fvars, yvars, gvars, lvars, kvars, facade, ast, xpath, xml, evars>>
    \/ XmlNext /\ UNCHANGED <<bvars, tvars, fvars, yvars, gvars, lvars, kvars, facade, ast, xpath, jvars, evars>>
    \/ EntriesNext /\ UNCHANGED <<bvars, tvars, fvars, yvars, gvars, lvars, kvars, facade, ast, xpath, jvars, xml>>
vars == <<probe, bvars, tvars, fvars, yvars, gvars, lvars, kvars, facade, ast, xpath, jvars, xml, evars>>
Spec == Init /\ [][Next]_vars /\ BuildFairness
=============================================================================
