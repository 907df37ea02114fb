------------------------------- MODULE MCXPath -------------------------------
(* Texts, trees, expressions and conditions for the XPath engine.          *)
EXTENDS XPathEval

(* Texts: short ones over the words that are told apart by their place, and*)
(* some longer ones.                                                       *)
LOCAL N(s) == NameWord("", s)
LOCAL Y(s) == Symbol(s)
LOCAL Two == XWord("num", <<"", "2">>)
LOCAL Alphabet == {N("a"), N("and"), N("node"), Y("*"), Y("/"), Y("("), Y(")"), Y("-"), Y("..")}
LOCAL Longer ==
    {<<N("a"), N("or"), N("b"), N("and"), N("c"), N("or"), N("and")>>,
     <<Two, Y("-"), Two, Y("-"), N("div"), N("div"), Y("-"), Two>>,
     <<Y("//"), N("a"), Y("["), Two, Y("]"), Y("//"), NameWord("p", "b"), Y("["), Y("."), Y("="), XWord("lit", <<"", "x">>), Y("]")>>,
     <<N("f"), Y("("), N("a"), Y("|"), Y(".."), Y(","), Two, Y("+"), Two, Y("*"), Two, Y(")"), Y("//"), Y("*")>>,
     <<Y("("), N("a"), Y("<="), N("b"), Y(")"), Y("!="), N("c"), Y("="), N("d")>>,
     <<N("a"), N("and"), Y("("), N("b"), Y(")")>>, <<Y("/"), Y("*"), Two>>, <<Y("/"), Y("="), Y("/")>>,
     <<Y("@"), N("a")>>, <<N("child"), Y("::"), N("a")>>, <<Y("$"), N("v")>>, <<N("a"), Y("=")>>,
     <<Y("("), N("a")>>, <<N("a"), Y("!"), N("b")>>, <<N("a"), Y("[")>>, <<N("text"), Y("("), Y(")")>>,
     <<N("a"), Y("/"), N("node"), Y("("), Y(")"), Y("["), Two, Y("]"), Y("["), Two, Y("]")>>,
     <<N("f"), Y("("), Y(")"), Y("/"), N("a")>>, <<N("f"), Y("("), Y(","), Y(")")>>, <<Y("-"), Y("-"), N("a"), Y("|"), N("b")>>}
MCXPathTexts == [1..2 -> Alphabet] \cup [1..3 -> Alphabet \ {N("node"), Y("..")}] \cup Longer

(* Expressions.                                                            *)
LOCAL L(s) == Literal(s)
LOCAL I(n) == Number(Fin(2 * n))
LOCAL Q(p, l) == XStep("child", <<p, l>>, <<>>)
LOCAL Nm(l) == Q("", l)
LOCAL Self == XStep("self", AnyNode, <<>>)
LOCAL Up == XStep("parent", AnyNode, <<>>)
LOCAL With(s, ps) == [s EXCEPT !.preds = ps]
LOCAL Rel(steps) == Location(FALSE, <<>>, steps)
LOCAL Abs(steps) == Location(TRUE, <<>>, steps)
LOCAL F(name, args) == Call(<<"", name>>, args)
LOCAL E(op, l, r) == Operation(op, l, r)

LOCAL Dot == Rel(<<Self>>)
LOCAL ItemsOf(ps) == Abs(<<Nm("top"), With(Nm("item"), ps), Nm("v")>>)
LOCAL Sets ==
    {Dot, Abs(<<>>), Rel(<<Up>>), Rel(<<Up, Up>>), Rel(<<Up, Nm("v")>>), Abs(<<Nm("top"), Nm("item")>>),
     ItemsOf(<<>>), ItemsOf(<<I(2)>>), ItemsOf(<<E("=", Rel(<<Nm("id")>>), L(<<"a">>))>>),
     ItemsOf(<<E("!=", Rel(<<Nm("id")>>), L(<<"a">>)), I(1)>>), ItemsOf(<<F("last", <<>>)>>),
     ItemsOf(<<E("=", F("position", <<>>), F("last", <<>>))>>),
     Abs(<<Nm("top"), Nm("item"), With(Nm("v"), <<I(1)>>)>>), Abs(<<Deep, Nm("v")>>), Abs(<<Deep, Q("b", "w")>>),
     Abs(<<Nm("top"), XStep("child", Star, <<>>)>>), Abs(<<Deep, With(XStep("child", AnyNode, <<>>), <<Rel(<<Nm("v")>>)>>)>>),
     Abs(<<Nm("none")>>), Abs(<<Nm("top"), Nm("item"), Up>>), Rel(<<Q("z", "v")>>), E("|", Rel(<<Up>>), ItemsOf(<<>>)), E("|", ItemsOf(<<>>), I(1)),
     Location(FALSE, <<F("current", <<>>)>>, <<Up, Deep, Nm("id")>>),
     ItemsOf(<<E(">", Rel(<<Nm("v")>>), Location(FALSE, <<F("current", <<>>)>>, <<Up, Nm("v")>>))>>)}
LOCAL Ops == {"=", "!=", "<", ">=", "+", "mul", "div", "mod", "-"}
LOCAL Scalars == {I(1), I(0), L(<<"1">>), L(<<>>), L(<<"a">>), F("true", <<>>), Negated(Dot), E("div", I(1), I(0))}
LOCAL Calls ==
    {F(f, <<s>>) : f \in {"not", "boolean", "string", "number", "count", "sum", "string-length", "local-name"},
                   s \in {Dot, ItemsOf(<<>>), Abs(<<Deep, Nm("v")>>), Abs(<<Nm("none")>>), L(<<"a">>)}}
    \cup {F(f, <<x>>) : f \in {"floor", "ceiling", "round"}, x \in {Number(Fin(-1)), Number(Fin(3)), L(<<"a">>)}}
    \cup {F(f, <<x, y>>) : f \in {"contains", "starts-with", "bit-is-set", "re-match"},
                           x \in {L(<<"a", " ", "b">>), Dot}, y \in {L(<<"a">>), L(<<"b">>), L(<<>>)}}
    \cup {F("substring", <<L(<<"a", "b", "c">>), x>>) : x \in {Number(Fin(3)), I(2), I(0), E("div", I(0), I(0))}}
    \cup {F("substring", <<L(<<"a", "b", "c">>), x, y>>) : x \in {I(0), Number(Fin(3))}, y \in {I(2), Number(Fin(3))}}
    \cup {F(f, <<s, L(q)>>) : f \in {"derived-from", "derived-from-or-self"},
                              s \in {Abs(<<Nm("top"), Nm("kind")>>), L(<<"a">>)},
                              q \in {<<"base">>, <<"b", ":", "mid">>, <<"b", ":", "leaf">>, <<"z", ":", "x">>, <<"none">>}}
    \cup {F("concat", <<L(<<"a">>), Dot, I(1)>>), F("concat", <<Dot>>), F("deref", <<Dot>>), F("true", <<Dot>>),
          F("string-length", <<>>), F("number", <<>>), F("string", <<>>), F("local-name", <<>>), F("string", <<I(1)>>)}

LOCAL Schema(name, kind, up) == [name |-> name, kind |-> kind, up |-> up, bases |-> <<>>]
LOCAL A(l) == <<"a", l>>
LOCAL Inst(sn, up, value) == [sn |-> sn, up |-> up, value |-> value]

(* A container, a list with two leafs and a container of another module,   *)
(* an identityref; the list comes before the leaf in the schema only.      *)
LOCAL Plain ==
    [schema |-> <<Schema(A("top"), "container", 0), Schema(A("item"), "list", 1), Schema(A("id"), "leaf", 2),
                  Schema(<<"b", "sub">>, "container", 2), Schema(A("v"), "leaf", 2), Schema(A("v"), "leaf", 4),
                  Schema(<<"b", "w">>, "leaf", 4), Schema(A("v"), "leaf", 1),
                  [Schema(A("kind"), "leaf", 1) EXCEPT !.bases = <<A("base")>>]>>,
     inst |-> <<Inst(1, 0, <<>>), Inst(8, 1, <<"1">>), Inst(2, 1, <<>>), Inst(3, 3, <<"a">>), Inst(5, 3, <<"1">>),
                Inst(4, 3, <<>>), Inst(6, 6, <<"7">>), Inst(7, 6, <<"a">>), Inst(2, 1, <<>>), Inst(5, 9, <<"2">>),
                Inst(3, 9, <<"b">>), Inst(9, 1, <<"b", ":", "mid">>)>>,
     prefixes |-> [a |-> ("" :> "a" @@ "a" :> "a" @@ "b" :> "b"), b |-> ("" :> "b" @@ "b" :> "b")],
     derived |-> A("base") :> <<<<"b", "mid">>>> @@ <<"b", "mid">> :> <<<<"b", "leaf">>>> @@ <<"b", "leaf">> :> <<>>,
     patterns |-> <<"a">> :> {<<"a">>, <<"1">>} @@ <<>> :> {<<>>},
     conditions |-> <<>>,
     at |-> {1, 2, 6, 10, 12},
     exprs |-> Sets \cup Scalars \cup Calls
               \cup {E(op, x, y) : op \in Ops \ {"+", "-", "mod"}, x \in {Dot, ItemsOf(<<>>), I(1), E("div", I(1), I(0))},
                                   y \in Scalars \cup {ItemsOf(<<>>)}}
               \cup {E(op, Number(Fin(x)), I(y)) : op \in {"+", "-", "mod"}, x \in {-3, 0, 5}, y \in {-2, 0, 2}}
               \cup {E(op, x, y) : op \in {"and", "or"}, x \in {Dot, Abs(<<Nm("none")>>), F("deref", <<>>)},
                                   y \in {I(0), I(1), F("deref", <<>>)}}]

(* Conditions of augments and of nodes, in other modules than their nodes'.*)
LOCAL Cond(kind, of, depth, source, e) ==
    [kind |-> kind, of |-> of, depth |-> depth, source |-> source, e |-> e, excluded |-> {}]
LOCAL Conditioned(cs) == [Plain EXCEPT !.conditions = cs, !.exprs = {}]
LOCAL Parts ==
    {<<Cond("when", 1, 1, "b", Rel(<<Nm("top")>>)), Cond("when", 1, 1, "a", Rel(<<Nm("top")>>)),
       Cond("when", 4, 1, "b", E("=", Rel(<<Nm("id")>>), L(<<"a">>))),
       Cond("when", 7, 2, "b", E("=", Rel(<<Nm("v")>>), L(<<"2">>))),
       Cond("when", 8, 0, "a", Dot), Cond("when", 8, 0, "a", E("=", Dot, L(<<"1">>))),
       Cond("must", 8, 0, "", E("=", Dot, L(<<"1">>))), Cond("must", 5, 0, "", E(">", Dot, I(1))),
       Cond("must", 2, 0, "a", E("<", F("count", <<Rel(<<Up, Nm("item")>>)>>), I(2))),
       Cond("must", 6, 0, "b", F("deref", <<>>)), Cond("when", 1, 2, "a", F("false", <<>>))>>,
     <<[Cond("when", 4, 1, "b", Rel(<<Nm("v")>>)) EXCEPT !.excluded = {5}],
       [Cond("when", 4, 1, "b", Rel(<<Q("b", "sub")>>)) EXCEPT !.excluded = {4}],
       [Cond("when", 4, 1, "a", Abs(<<Deep, Nm("v")>>)) EXCEPT !.excluded = {1}]>>,
     <<Cond("must", 5, 0, "a", F("re-match", <<Dot, L(<<"(">>)>>)), Cond("must", 8, 0, "a", F("false", <<>>))>>}
MCXPathPrograms == {Plain} \cup {Conditioned(cs) : cs \in Parts}
MCNumerals ==
    <<"0">> :> Fin(0) @@ <<"1">> :> Fin(2) @@ <<"2">> :> Fin(4) @@ <<"7">> :> Fin(14) @@ <<"-", "1">> :> Fin(-2)
    @@ <<"0", ".", "5">> :> Fin(1) @@ <<"1", "2">> :> Fin(24)
=============================================================================
