------------------------------ MODULE MCTypes ------------------------------
(***************************************************************************)
(* The type programs: typedefs of one name in several modules and scopes,  *)
(* restrictions narrowed across modules, and what a default, an enum, a    *)
(* union or an identity may go wrong with.                                 *)
(***************************************************************************)
EXTENDS SchemaTypes, Features, Leafrefs

TyQ(prefix, name) == [prefix |-> prefix, name |-> name]
Ty(prefix, name, subs) == [name |-> TyQ(prefix, name), subs |-> subs]
TyPlain(name) == Ty("", name, <<>>)
TySub(keyword, items) == IF items = <<>> THEN <<>> ELSE keyword :> items
Typedef(mod, scope, name, type, dflts) == [mod |-> mod, scope |-> scope, name |-> name, type |-> type, dflts |-> dflts]
TyNode(id, mod, scope, type, dflts) ==
  [id |-> id, mod |-> mod, typeMod |-> mod, scope |-> scope, kind |-> "leaf", type |-> type, dflts |-> dflts,
   key |-> FALSE, mand |-> FALSE, min |-> 0]
Span(lo, hi) == <<Lit(lo), Lit(hi)>>
LexMin == [Lit(0) EXCEPT !.lex = "min"]
LexMax == [Lit(0) EXCEPT !.lex = "max"]
Tenths(n) == [Lit(n) EXCEPT !.frac = 1]
TyRange(expr) == TySub("range", expr)

TypeProgram(typedefs, nodes) ==
  [order |-> <<"a", "b", "c">>,
   imports |-> [a |-> [b |-> "b"], b |-> [a |-> "a", x |-> "c"], c |-> [b |-> "b", y |-> "a"]],
   v11 |-> {"a", "b", "c"}, impl |-> {"a", "b", "c"}, features |-> {"f"}, typedefs |-> typedefs, nodes |-> nodes,
   ids |-> <<>>, identities |-> <<>>]

(* Three levels of a numeric type in three modules, each with a range and  *)
(* a default of its own, asked for by several leaves.                      *)
Narrowing(r, d) ==
  TypeProgram(<<Typedef("a", <<>>, "n", Ty("", "i8", TyRange(r[1])), d[1]),
                Typedef("b", <<>>, "n", Ty("a", "n", TyRange(r[2])), d[2])>>,
              <<TyNode(1, "c", <<>>, Ty("b", "n", TyRange(r[3])), d[3]), TyNode(2, "a", <<>>, TyPlain("n"), <<>>),
                TyNode(3, "c", <<>>, Ty("y", "n", <<>>), <<>>)>>)
TyRanges ==
  {<<>>} \X {<<>>, <<<<Span(2, 8)>>>>} \X {<<>>, <<<<Span(5, 5)>>>>, <<<<Span(0, 128)>>>>}
  \cup {<<<<<<LexMin, Lit(5)>>, <<Lit(6), LexMax>>>>>>, <<<<Span(0, 3), <<Lit(7), LexMax>>>>>>}
       \X {<<>>, <<<<Span(4, 8)>>>>, <<<<<<LexMin, Lit(2)>>, Span(8, 9)>>>>}
       \X {<<>>, <<<<<<Lit(1), LexMax>>>>>>, <<<<<<LexMin, LexMin>>, <<Lit(2), Lit(2)>>>>>>, <<<<Span(5, 4)>>>>,
           <<<<Span(1, 1)>>, <<Span(2, 2)>>>>}
TyDefaults == {<<>>, <<<<"8">>>>} \X {<<>>, <<<<"0", "x", "2">>>>} \X {<<>>, <<<<"0", "5">>>>, <<<<"-", "1">>>>, <<<<"x">>>>}
MCNarrowing == {Narrowing(r, d) : r \in TyRanges, d \in TyDefaults}

(* One name in two scopes of one module and in another module, and         *)
(* typedefs that lead to themselves.                                       *)
TyScoped(inner) ==
  TypeProgram(<<Typedef("a", <<"top", "x">>, "t", inner, <<<<"1">>>>),
                Typedef("a", <<"top", "y">>, "t", Ty("b", "t", TyRange(<<<<Span(1, 3)>>>>)), <<>>),
                Typedef("b", <<>>, "t", TyPlain("u8"), <<<<"2">>>>), Typedef("b", <<>>, "s", Ty("x", "t", <<>>), <<>>),
                Typedef("c", <<>>, "t", TyPlain("string"), <<>>)>>,
              <<TyNode(1, "a", <<"top", "x", "in">>, TyPlain("t"), <<>>), TyNode(2, "a", <<"top", "y">>, TyPlain("t"), <<>>),
                [TyNode(3, "c", <<>>, Ty("b", "s", <<>>), <<>>) EXCEPT !.kind = "leaf-list"],
                [TyNode(4, "a", <<"top">>, Ty("b", "t", <<>>), <<>>) EXCEPT !.key = TRUE],
                [TyNode(5, "b", <<>>, TyPlain("t"), <<>>) EXCEPT !.mand = TRUE]>>)
MCScoped ==
  {[TyScoped(i) EXCEPT !.order = o] :
     i \in {TyPlain("i8"), TyPlain("t"), Ty("b", "none", <<>>), Ty("b", "t", <<>>), Ty("nowhere", "t", <<>>),
            Ty("", "union", TySub("type", <<TyPlain("i8"), TyPlain("t")>>)), Ty("", "union", <<>>),
            Ty("", "i8", TySub("pattern", <<{<<"a">>}>>))},
     o \in {<<"a", "b", "c">>, <<"c", "b", "a">>}}

(* One leaf, in module a, of a type that restricts a typedef of b.         *)
TyOver(under, subs, dflts) ==
  TypeProgram(<<Typedef("b", <<>>, "u", under, <<>>)>>, <<TyNode(1, "a", <<>>, Ty("b", "u", subs), dflts)>>)
TyStrings ==
  {TyOver(Ty("", base, TySub("length", l) @@ TySub("pattern", IF base = "string" THEN p ELSE <<>>)), TySub("length", k) @@ TySub("pattern", q), d) :
     base \in {"string", "binary"}, l \in {<<>>, <<<<Span(1, 2), <<Lit(4), LexMax>>>>>>},
     p \in {<<{<<"a">>, <<"a", "b">>, <<>>}>>}, k \in {<<>>, <<<<<<LexMin, Lit(1)>>>>>>, <<<<<<Lit(2), Lit(3)>>>>>>},
     q \in {<<>>, <<{<<"a">>, <<"b">>}>>}, d \in {<<>>, <<<<"a">>>>, <<<<"b">>>>, <<<<"a", "b">>>>, <<<<>>>>}}
TyDecimals ==
  {TyOver(Ty("", "decimal64", TySub("fraction-digits", f) @@ TyRange(r)), TyRange(s), d) :
     f \in {<<>>, <<1>>, <<2>>, <<19>>}, r \in {<<>>, <<<<<<LexMin, Tenths(15)>>, <<Lit(2), Lit(3)>>>>>>},
     s \in {<<>>, <<<<<<Tenths(25), LexMax>>>>>>, <<<<<<Tenths(15), Lit(2)>>>>>>},
     d \in {<<>>, <<<<"1", ".", "5">>>>, <<<<"2", ".", "7", "5">>>>, <<<<"3">>>>}}
TyEnum(name, val, feats) == [name |-> name, val |-> val, feats |-> feats]
TyEnums ==
  {TyOver(Ty("", base, TySub(k, <<TyEnum("a", v, {}), TyEnum("b", w, {"f"}), TyEnum("c", <<>>, {})>>)), TySub(k, s), d) :
     base \in {"enumeration"}, k \in {"enum"}, v \in {<<>>, <<-2>>, <<AutoMax>>}, w \in {<<>>, <<1>>, <<AutoMax>>, <<AutoMax + 1>>},
     s \in {<<>>, <<TyEnum("c", <<>>, {"g"}), TyEnum("a", <<>>, {})>>, <<TyEnum("b", <<1>>, {}), TyEnum("a", <<>>, {"f"})>>,
            <<TyEnum("d", <<>>, {})>>},
     d \in {<<>>, <<<<"a">>>>, <<<<"b">>>>, <<<<"c">>>>}}
  \cup {TyOver(Ty("", "bits", TySub("bit", <<TyEnum("a", <<2>>, {}), TyEnum("b", v, {}), TyEnum("c", <<>>, {"g"})>>)), TySub("bit", s), d) :
     v \in {<<>>, <<0>>, <<2>>, <<-1>>}, s \in {<<>>, <<TyEnum("b", <<>>, {"g"}), TyEnum("a", <<2>>, {})>>},
     d \in {<<>>, <<<<"a", " ", "b">>>>, <<<<"a", " ", "a">>>>, <<<<"c">>>>}}
  \cup {[TyOver(Ty("", "enumeration", TySub("enum", <<TyEnum("a", <<>>, {}), TyEnum("b", <<>>, {})>>)),
                TySub("enum", <<TyEnum("b", <<>>, {})>>), <<>>) EXCEPT !.v11 = {"b", "c"}]}
TyUnions ==
  {[TyOver(Ty("", "union", TySub("type", <<Ty("", "i8", TyRange(<<<<Span(0, 9)>>>>)), m>>)), subs, d) EXCEPT !.v11 = v] :
     m \in {TyPlain("empty"), TyPlain("boolean"), Ty("", "leafref", TySub("path", <<"p">>)), TyPlain("u"),
            Ty("", "string", TySub("length", <<<<Span(2, 2)>>>>))},
     subs \in {<<>>, TyRange(<<<<Span(0, 3)>>>>)}, d \in {<<>>, <<<<"9">>>>, <<<<"true">>>>, <<<<"a", "b">>>>}, v \in {{"a"}, {"a", "b"}}}
TyOthers ==
  {TyOver(Ty("", "leafref", TySub("path", p) @@ TySub("require-instance", r)), TySub("require-instance", s), <<>>) :
     p \in {<<>>, <<"p">>}, r \in {<<>>, <<FALSE>>}, s \in {<<>>, <<TRUE>>, <<FALSE>>}}
  \cup {[TyOver(TyPlain("empty"), <<>>, d) EXCEPT !.nodes[1].key = key, !.v11 = v] :
          d \in {<<>>, <<<<"a">>>>}, key \in BOOLEAN, v \in {{}, {"a"}}}
  \cup {[TyOver(TyPlain("i8"), <<>>, <<<<"5">>, d>>) EXCEPT !.nodes[1].kind = "leaf-list"] :
          d \in {<<"0", "5">>, <<"0", "x", "5">>, <<"4">>}}
  \cup {[TyOver(TyPlain("i8"), <<>>, <<>>) EXCEPT !.typedefs[1].dflts = <<<<"5">>>>, !.nodes[1] = n] :
          n \in {[TyNode(1, "a", <<>>, Ty("b", "u", <<>>), <<>>) EXCEPT !.kind = k, !.min = m] :
                   k \in {"leaf", "leaf-list"}, m \in {0, 1}}}

(* Identities of three modules: a diamond, a chain, a base that is not     *)
(* there, a cycle, and leaves that refer to them with a narrower base.     *)
TyIdentities(extra, v, bases, d) ==
  LET ids == ("a" :> [root |-> <<>>, left |-> <<TyQ("", "root")>>])
             @@ ("b" :> [right |-> <<TyQ("a", "root")>>, both |-> <<TyQ("a", "left"), TyQ("", "right")>>])
             @@ ("c" :> [leaf |-> <<TyQ("b", "both")>>, odd |-> extra])
      all == {<<m, n>> : m \in {"a", "b", "c"}, n \in {"root", "left", "right", "both", "leaf", "odd"}}
  IN  [TyOver(Ty("", "identityref", TySub("base", <<TyQ("a", "root")>>)), TySub("base", bases), d) EXCEPT
         !.v11 = v, !.impl = {"a", "b"}, !.order = <<"c", "b", "a">>,
         !.identities = [i \in {x \in all : x[2] \in DOMAIN ids[x[1]]} |-> ids[i[1]][i[2]]],
         !.ids = <<[mod |-> "a", name |-> "left"], [mod |-> "a", name |-> "root"], [mod |-> "b", name |-> "both"],
                   [mod |-> "b", name |-> "right"], [mod |-> "c", name |-> "odd"], [mod |-> "c", name |-> "leaf"]>>]
MCIdentities ==
  {TyIdentities(x, v, bs, d) :
     x \in {<<>>, <<TyQ("b", "both"), TyQ("y", "left")>>, <<TyQ("y", "root"), TyQ("b", "both"), TyQ("c", "leaf")>>,
            <<TyQ("b", "gone")>>, <<TyQ("c", "odd")>>},
     v \in {{"a", "b", "c"}, {"a", "b"}},
     bs \in {<<>>, <<TyQ("b", "right")>>, <<TyQ("b", "right"), TyQ("", "left")>>, <<TyQ("", "gone")>>},
     d \in {<<>>, <<<<"b", ":", "both">>>>, <<<<"root">>>>, <<<<"left">>>>, <<<<"b", ":", "right">>>>}}

MCTypePrograms ==
    MCNarrowing \cup MCScoped \cup TyStrings \cup TyDecimals \cup TyEnums \cup TyUnions \cup TyOthers \cup MCIdentities

------------------------------------------------------------------------------
(* The if-feature programs: two modules, one of them with submodules, with *)
(* features of one name, chains and cycles across them, and expressions    *)
(* that are and are not well formed.                                       *)
Ff(prefix, name) == [word |-> "ref", q |-> [prefix |-> prefix, name |-> name]]
Fw(word) == [word |-> word]
FeX == Ff("", "x")
FeY == Ff("o", "x")
FeZ == Ff("", "z")

FeStmt(id, mod, src, feature, iffs) == [id |-> id, mod |-> mod, src |-> src, feature |-> feature, iffs |-> iffs]
FeSource(mod, prefix, v11, sub, includes, imports) ==
  [mod |-> mod, prefix |-> prefix, v11 |-> v11, sub |-> sub, includes |-> includes, imports |-> imports]
FeSources(v, incs) ==
  [m |-> FeSource("m", "m", v, FALSE, {"s1", "s2", "s3"}, [o |-> "n"]),
   s1 |-> FeSource("m", "m", v, TRUE, {"s2"}, [o |-> "n", p |-> "n"]),
   s2 |-> FeSource("m", "mm", v, TRUE, incs, <<>>), s3 |-> FeSource("m", "m", v, TRUE, {"s1"}, <<>>),
   n |-> FeSource("n", "n", TRUE, FALSE, {}, [q |-> "m"])]

(* x and z in the first module, x in the second, and statements that use   *)
(* them before and after they are defined.                                 *)
FeProgram(v, incs, on, zs, xs, use) ==
  [sources |-> FeSources(v, incs), enabled |-> [m |-> on \cap {"x", "z"}, n |-> IF "n" \in on THEN {"x"} ELSE {}], retain |-> FALSE,
   stmts |-> <<FeStmt(1, "m", "m", "", use), FeStmt(2, "m", "s1", "x", <<>>), FeStmt(3, "m", "s3", "z", zs),
               FeStmt(4, "n", "n", "x", xs), FeStmt(5, "m", "s1", "", <<<<FeX>>>>),
               FeStmt(6, "n", "n", "", <<<<FeX>>, <<Ff("q", "x")>>>>)>>]

FeAnd(a, b) == <<a, Fw("and"), b>>
FeOr(a, b) == <<a, Fw("or"), b>>
FeNot(e) == <<Fw("not")>> \o e
FeParens(e) == <<Fw("(")>> \o e \o <<Fw(")")>>
FeExpressions ==
  {FeAnd(FeX, FeY), FeOr(FeX, FeZ) \o <<Fw("and"), FeY>>, FeNot(<<FeX>>) \o <<Fw("or"), FeY>>,
   FeNot(FeParens(FeOr(FeX, FeY))) \o <<Fw("or"), FeZ>>, FeNot(FeNot(FeParens(FeParens(<<FeY>>)))),
   FeAnd(FeX, FeY) \o <<Fw("or"), FeZ>>, FeParens(FeOr(FeX, FeY)) \o <<Fw("and")>> \o FeNot(<<FeZ>>)}
FeMalformed ==
  {<<>>, <<FeX, FeY>>, FeNot(<<>>), FeParens(<<>>), <<Fw("(")>> \o FeOr(FeX, FeY), FeOr(FeX, FeY) \o <<Fw(")")>>,
   <<FeX, Fw("and"), Fw("or"), FeY>>, FeAnd(FeX, Ff("", "none")), FeOr(FeX, Ff("none", "x"))}
FeOns == SUBSET {"x", "z", "n"}

MCFeaturePrograms ==
    {FeProgram(TRUE, {}, on, zs, <<>>, <<e>>) : on \in FeOns, zs \in {<<>>, <<<<FeX>>, FeNot(<<FeX>>)>>}, e \in FeExpressions}
    \cup {FeProgram(TRUE, {}, {"x", "n"}, <<>>, <<>>, <<<<FeX>>, e>>) : e \in FeMalformed}
    \cup {FeProgram(v, {"s1"}, on, zs, xs, <<<<FeZ>>, <<FeY>>>>) :
            v \in BOOLEAN, on \in {{"x", "n"}, {"x", "z"}, {"x", "z", "n"}},
            zs \in {<<<<FeX>>>>, <<<<FeZ>>>>, <<<<Ff("p", "x")>>>>, <<FeOr(FeX, FeX)>>}, xs \in {<<>>, <<<<Ff("q", "z")>>>>, <<<<Ff("", "x")>>>>}}
    \cup {[FeProgram(TRUE, {}, {"z"}, <<<<FeX>>>>, <<>>, <<<<FeZ>>>>) EXCEPT !.retain = r, !.enabled["n"] = {f}] :
            r \in BOOLEAN, f \in {"x", "none"}}
    \cup {[FeProgram(v, {"s1"}, {"x", "n"}, <<>>, <<>>, <<>>) EXCEPT !.stmts = Append(@, FeStmt(7, "m", src, "", <<<<q>>>>))] :
            v \in BOOLEAN, src \in {"s1", "s2", "s3"}, q \in {FeX, FeZ, FeY, Ff("p", "x"), Ff("m", "x"), Ff("mm", "z")}}

------------------------------------------------------------------------------
(* The leafref programs: two modules, a container with leafs that refer to *)
(* each other in every order, a list with a key, a choice, and state.      *)
(* Not asked: a path that names a choice or a case (the code tries the     *)
(* schema tree first and takes them for steps), a path that leaves a       *)
(* case after deref() (".." is the case there), a relative path from one   *)
(* module's top level into another's (it looks below its own root only),   *)
(* and deref() of a later leafref of another module's typedef.             *)
LrStep(op, prefix, name) == [op |-> op, prefix |-> prefix, name |-> name, preds |-> <<>>, arg |-> <<>>]
LrUp == LrStep("up", "", "")
LrTo(name) == LrStep("to", "", name)
LrIn(prefix, name) == LrStep("to", prefix, name)
LrRel(steps) == [abs |-> FALSE, steps |-> steps]
LrAbs(steps) == [abs |-> TRUE, steps |-> steps]
LrDeref(steps) == [LrStep("deref", "", "") EXCEPT !.arg = LrRel(steps)]
LrPred(key, steps) == [key |-> LrIn(key[1], key[2]), steps |-> steps]

LrBy(src, path) ==
  [base |-> "leafref", path |-> path, src |-> src, require |-> TRUE, target |-> {}, real |-> <<>>]
LrOf(path) == LrBy("m", path)
LrText == [base |-> "string"]
LrUnion(ts) == [base |-> "union", members |-> ts]

LrSchema(a, b, d, p) ==
  LET node(name, mod, kind, up, kids) ==
        [name |-> name, mod |-> mod, kind |-> kind, up |-> up, kids |-> kids, cfg |-> TRUE, keys |-> <<>>, type |-> Untyped]
      leaf(name, mod, up, type) == [node(name, mod, "leaf", {up}, <<>>) EXCEPT !.type = type]
  IN  [m |-> node("m", "m", "module", {}, <<"top">>), o |-> node("o", "o", "module", {}, <<"otop">>),
       top |-> node("top", "m", "container", {"m"}, <<"g", "c2", "li", "ch", "aug">>),
       g |-> leaf("g", "m", "top", LrText),
       c2 |-> node("c2", "m", "container", {"top"}, <<"a", "b", "d">>),
       a |-> leaf("a", "m", "c2", a), b |-> leaf("b", "m", "c2", b), d |-> leaf("d", "m", "c2", d),
       li |-> [node("li", "m", "list", {"top"}, <<"k", "v">>) EXCEPT !.keys = <<"k">>],
       k |-> leaf("k", "m", "li", LrText), v |-> leaf("v", "m", "li", LrOf(LrRel(<<LrUp, LrTo("k")>>))),
       ch |-> node("ch", "m", "choice", {"top"}, <<"ca">>), ca |-> node("ca", "m", "case", {"ch"}, <<"x", "y">>),
       x |-> leaf("x", "m", "ca", LrOf(LrRel(<<LrUp, LrTo("y")>>))), y |-> leaf("y", "m", "ca", LrOf(LrRel(<<LrUp, LrIn("m", "g")>>))),
       aug |-> leaf("g", "o", "top", LrText),
       otop |-> node("otop", "o", "container", {"o"}, <<"ok", "st", "p">>),
       ok |-> leaf("ok", "o", "otop", LrText), st |-> [leaf("st", "o", "otop", LrText) EXCEPT !.cfg = FALSE],
       p |-> leaf("p", "o", "otop", p)]
LrProgram(a, b, d, p) ==
  [nodes |-> LrSchema(a, b, d, p), order |-> <<"m", "o">>, imports |-> [m |-> [o |-> "o"], o |-> [q |-> "m"]],
   impl |-> {"m", "o"}, vendor |-> FALSE]

LrSibling(name) == LrOf(LrRel(<<LrUp, LrTo(name)>>))
LrUpUp(steps) == LrRel(<<LrUp, LrUp>> \o steps)
LrListed(preds) == LrAbs(<<LrTo("top"), [LrTo("li") EXCEPT !.preds = preds], LrTo("v")>>)
LrThrough == {<<LrUp, LrTo("b")>>, <<LrUp, LrUp, LrTo("c2"), LrTo("d")>>}

(* What leaf a may be.                                                     *)
LrPaths ==
  {LrOf(q) : q \in {LrUpUp(<<LrIn("o", "g")>>), LrUpUp(<<LrTo("x")>>), LrUpUp(<<LrIn("none", "g")>>), LrUpUp(<<LrTo("li")>>),
                    LrRel(<<LrStep("self", "", ""), LrUp, LrTo("b")>>), LrUpUp(<<LrTo("gone")>>),
                    LrAbs(<<LrTo("top"), LrTo("x")>>), LrAbs(<<LrIn("m", "top"), LrTo("y")>>),
                    LrAbs(<<LrIn("o", "otop"), LrTo("ok")>>), LrAbs(<<LrIn("o", "otop"), LrIn("o", "st")>>),
                    LrAbs(<<LrIn("none", "otop"), LrTo("ok")>>), LrAbs(<<LrTo("otop"), LrTo("ok")>>)}}
  \cup {LrBy("o", q) : q \in {LrAbs(<<LrTo("top"), LrTo("y")>>), LrAbs(<<LrTo("otop"), LrTo("p")>>), LrAbs(<<LrIn("q", "top"), LrIn("q", "g")>>)}}
  \cup {[LrOf(LrAbs(<<LrIn("o", "otop"), LrIn("o", "st")>>)) EXCEPT !.require = FALSE]}
LrPredicates ==
  {LrOf(LrListed(<<LrPred(q, s)>>)) :
     q \in {<<"", "k">>, <<"m", "k">>, <<"", "v">>, <<"o", "k">>},
     s \in {<<>>, <<LrUp, LrTo("b")>>, <<LrUp, LrUp, LrTo("li")>>, <<LrUp, LrUp, LrUp, LrIn("o", "otop"), LrTo("ok")>>}}
  \cup {LrOf(LrListed([i \in {1, 2} |-> LrPred(<<"", "k">>, <<LrUp, LrTo("b")>>)])),
        LrOf(LrAbs(<<[LrTo("top") EXCEPT !.preds = <<LrPred(<<"", "k">>, <<LrUp, LrTo("b")>>)>>], LrIn("m", "g")>>))}
LrDerefs ==
  {LrOf(LrRel(<<LrDeref(s), LrUp, n>>)) : s \in LrThrough \cup {<<LrUp, LrTo("a")>>, <<LrUp, LrTo("c2")>>}, n \in {LrTo("y"), LrTo("v"), LrTo("d")}}

LrSimple == {LrText, LrSibling("a"), LrUnion(<<LrText, LrUnion(<<LrSibling("a"), LrSibling("d")>>)>>)}
MCLeafrefPrograms ==
    {LrProgram(a, b, LrText, LrText) : a \in LrPaths \cup LrPredicates, b \in {LrText, LrSibling("a")}}
    \cup {LrProgram(a, b, d, LrText) :
            a \in LrDerefs, b \in {LrText, LrOf(LrUpUp(<<LrTo("y")>>)), LrOf(LrUpUp(<<LrTo("li"), LrTo("k")>>)), LrSibling("d")},
            d \in {LrOf(LrRel(<<LrDeref(<<LrUp, LrTo("b")>>), LrUp, LrTo("x")>>)), LrOf(LrRel(<<LrDeref(<<LrUp, LrTo("a")>>), LrUp, LrTo("y")>>))}}
    \cup {[LrProgram(a, b, d, p) EXCEPT !.vendor = w, !.impl = i] :
            a \in {LrSibling("b"), LrUnion(<<LrSibling("d"), LrSibling("b")>>)}, b \in LrSimple \cup {LrSibling("b")},
            d \in LrSimple \cup {LrOf(LrAbs(<<LrIn("o", "otop"), LrIn("o", "p")>>))},
            p \in {LrText, LrBy("o", LrAbs(<<LrIn("q", "top"), LrIn("q", "c2"), LrIn("q", "b")>>))},
            w \in BOOLEAN, i \in {{"m", "o"}, {"o"}}}

(* What the code says of features and of leafrefs is what the references   *)
(* say, whatever was looked up before (Features, Leafrefs).                *)
ReferencesExact == FeaturesExact /\ LeafrefsExact
=============================================================================
