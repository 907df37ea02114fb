------------------------------- MODULE MCXml -------------------------------
(***************************************************************************)
(* The documents asked about in XML.  Each is put together from schema     *)
(* nodes and what their values mean, and spelled in XML and in JSON in     *)
(* several styles: with prefixes declared at the root, at each value, or   *)
(* bound to something else at the root; with every name qualified or only  *)
(* where the module changes.  No value in XML has an unbound prefix that is*)
(* a module's name, and no path a position below a list.                   *)
(***************************************************************************)
EXTENDS XmlDocuments

(* A text that is read the same way in both encodings, an identity, a path.*)
LOCAL Lex(text, json, canon) == [is |-> "lex", text |-> text, json |-> json, canon |-> canon]
LOCAL Same(text) == Lex(text, Str(text), Str(text))
LOCAL Small(text, d) == Lex(text, Num(<<d>>), Num(<<d>>))
LOCAL Id(mod, name) == [is |-> "id", mod |-> mod, name |-> name]
LOCAL Path(steps) == [is |-> "path", steps |-> steps]
LOCAL S(id, preds) == [id |-> id, preds |-> preds]

LOCAL I8 == [base |-> "int", kind |-> "i8", ranges |-> {}]
LOCAL Names == [base |-> "identityref", bases |-> {{<<"m", ":", "one">>, <<"n", ":", "one">>, <<"m", ":", "two">>}},
                named |-> {<<"m", "base">>, <<"m", "one">>, <<"n", "one">>, <<"m", "two">>}]
LOCAL Text == [base |-> "string", ranges |-> {}]
LOCAL Iid(require) == [base |-> "instance-identifier", require |-> require]
LOCAL Node_(name, mod, kind, kids, type) ==
  [name |-> name, mod |-> mod, kind |-> kind, kids |-> kids, type |-> type, keys |-> <<>>, sys |-> TRUE, cfg |-> TRUE]
LOCAL C(name, mod, kids) == Node_(name, mod, "container", kids, [base |-> "none"])
LOCAL F(name, mod, type) == Node_(name, mod, "leaf", <<>>, type)

XmlNodes ==
  [top |-> C("top", "m", <<"ch", "ll", "ref", "un", "x", "nref", "xa">>),
   ch |-> Node_("ch", "m", "choice", <<"li">>, [base |-> "none"]),
   li |-> [Node_("li", "m", "list", <<"v", "k", "j", "e", "sub", "w">>, [base |-> "none"]) EXCEPT !.keys = <<"k", "j">>],
   k |-> F("k", "m", Names), j |-> F("j", "m", I8), v |-> F("v", "m", [base |-> "boolean"]),
   e |-> F("e", "m", [base |-> "empty"]), w |-> F("w", "n", [base |-> "int", kind |-> "i64", ranges |-> {}]),
   sub |-> [Node_("sub", "m", "list", <<"s">>, [base |-> "none"]) EXCEPT !.keys = <<"s">>, !.sys = FALSE],
   s |-> F("s", "m", [base |-> "union", members |-> <<I8, Names, Text>>]),
   ll |-> [Node_("ll", "m", "leaf-list", <<>>, Text) EXCEPT !.sys = FALSE],
   ref |-> F("ref", "m", Iid(TRUE)), un |-> F("un", "m", [base |-> "union", members |-> <<I8, Iid(FALSE)>>]),
   x |-> F("x", "n", [base |-> "leafref", real |-> Names]), nref |-> F("nref", "n", Iid(TRUE)),
   xa |-> F("xa", "x", Text), other |-> C("other", "x", <<"xo">>), xo |-> F("o", "x", Text),
   solo |-> Node_("solo", "n", "anydata", <<>>, [base |-> "none"])]
XmlSchema ==
  [mods |-> <<"x", "m", "n">>, tops |-> [m |-> <<"top">>, n |-> <<"solo">>, x |-> <<"other">>], nodes |-> XmlNodes,
   about |-> [m |-> [ns |-> "um", prefix |-> "p", imports |-> <<>>],
              n |-> [ns |-> "un", prefix |-> "q", imports |-> <<<<"mm", "m">>, <<"xx", "x">>>>],
              x |-> [ns |-> "ux", prefix |-> "p", imports |-> <<>>]]]
LOCAL Mod(id) == XmlNodes[id].mod
LOCAL Mods == {"m", "n", "x"}
LOCAL NsOf(m) == XmlSchema.about[m].ns

------------------------------------------------------------------------------
(* Spelling.  A style names each module; "short" leaves a name out where it*)
(* is the parent's.                                                        *)
LOCAL Value(v, style, own) ==
  CASE v.is = "lex" -> v.text
    [] v.is = "id" -> IF style.short /\ v.mod = own THEN <<v.name>> ELSE <<style.names[v.mod], ":", v.name>>
LOCAL PathText(steps, style) ==
  LET qual(m, parent) == IF style.short /\ m = parent THEN <<>> ELSE <<style.names[m], ":">>
      pred(id, p) ==
        CASE p[1] = "pos" -> <<"[", DigitChars[p[2] + 1], "]">>
          [] p[1] = "value" -> <<"[", ".", "=">> \o <<style.quote>> \o Value(p[2], style, Mod(id)) \o <<style.quote, "]">>
          [] OTHER -> <<"[">> \o style.pad \o qual(Mod(p[1]), Mod(id)) \o <<XmlNodes[p[1]].name>> \o style.pad \o <<"=">>
                      \o style.pad \o <<style.quote>> \o Value(p[2], style, Mod(p[1])) \o <<style.quote>> \o style.pad \o <<"]">>
      step(i) == LET id == steps[i].id IN
        <<"/">> \o qual(Mod(id), IF i = 1 THEN "" ELSE Mod(steps[i - 1].id)) \o <<XmlNodes[id].name>>
        \o Concat([k \in DOMAIN steps[i].preds |-> pred(id, steps[i].preds[k])])
  IN  Concat([i \in DOMAIN steps |-> step(i)])

LOCAL Style(names, short, quote, pad) == [names |-> names, short |-> short, quote |-> quote, pad |-> pad]
LOCAL JsonStyle(short, quote, pad) == Style([m \in Mods |-> m], short, quote, pad)
LOCAL XmlStyle(first, quote) ==
  IF first THEN Style([m |-> "a", n |-> "b", x |-> "c"], FALSE, quote, <<>>)
  ELSE Style([m |-> "q", n |-> "p", x |-> "z"], FALSE, quote, <<" ">>)

LOCAL Text_(v, style, own) == IF v.is = "path" THEN PathText(v.steps, style) ELSE Value(v, style, own)
LOCAL Token(v, style, own) == IF v.is = "lex" THEN v.json ELSE Str(Text_(v, style, own))

(* A document: schema nodes with values, or with the nodes of each entry.  *)
LOCAL D(id, vals, sets) == [id |-> id, vals |-> vals, sets |-> sets]
LOCAL V(id, v) == D(id, <<v>>, <<>>)

RECURSIVE MCJson(_, _, _)
MCJson(doc, style, parent) ==
  [i \in DOMAIN doc |-> LET d == doc[i] m == Mod(d.id) IN
     [mod |-> IF style.short /\ m = parent THEN "" ELSE m, name |-> XmlNodes[d.id].name,
      vals |-> [k \in DOMAIN d.vals |-> Token(d.vals[k], style, m)],
      sets |-> [k \in DOMAIN d.sets |-> MCJson(d.sets[k], style, m)]]]

LOCAL Declare(names) == <<<<names["m"], "um">>, <<names["n"], "un">>, <<names["x"], "ux">>>>
RECURSIVE MCElements(_, _, _, _)
MCElements(doc, style, where, parent) ==
  Concat([i \in DOMAIN doc |->
    LET d == doc[i]
        m == Mod(d.id)
        atRoot == CASE parent # "" -> <<>>
                    [] where = "root" -> Declare(style.names)
                    [] where = "shadowed" -> <<<<style.names["m"], "ux">>, <<style.names["n"], "um">>>>
                    [] OTHER -> <<>>
        decls == atRoot \o IF where = "root" \/ m = parent THEN <<>> ELSE <<<<"", NsOf(m)>>>>
        E(more, text, kids) == [prefix |-> IF where = "root" THEN style.names[m] ELSE "", name |-> XmlNodes[d.id].name,
                                decls |-> decls \o more, text |-> text, kids |-> kids]
    IN  [k \in DOMAIN d.vals |-> E(IF where = "root" THEN <<>> ELSE Declare(style.names), Text_(d.vals[k], style, ""), <<>>)]
        \o [k \in DOMAIN d.sets |-> E(<<>>, <<" ">>, MCElements(d.sets[k], style, where, m))]])

------------------------------------------------------------------------------
LOCAL Its == Same(<<"a", "'", "b">>)
LOCAL Quoted_ == Same(<<"a", "\"", "b">>)
LOCAL Li(k, j) == S("li", <<<<"k", k>>, <<"j", j>>>>)
LOCAL J7 == Small(<<"0", "7">>, "7")
LOCAL InM ==  \* paths within module m, by the quote they need
  {<<"'", <<S("top", <<>>)>>>>, <<"'", <<S("top", <<>>), Li(Id("m", "one"), J7), S("v", <<>>)>>>>,
   <<"'", <<S("top", <<>>), Li(Id("m", "one"), J7), S("e", <<>>)>>>>,
   <<"\"", <<S("top", <<>>), Li(Id("n", "one"), J7), S("sub", <<<<"s", Its>>>>)>>>>,
   <<"'", <<S("top", <<>>), Li(Id("n", "one"), J7), S("sub", <<<<"s", Quoted_>>>>)>>>>,
   <<"'", <<S("top", <<>>), Li(Id("n", "one"), J7), S("sub", <<<<"s", Id("m", "two")>>>>), S("s", <<>>)>>>>,
   <<"'", <<S("top", <<>>), Li(Id("n", "one"), J7), S("sub", <<<<"s", J7>>>>)>>>>,
   <<"'", <<S("top", <<>>), S("li", <<<<"pos", 2>>>>), S("e", <<>>)>>>>, <<"'", <<S("top", <<>>), S("li", <<<<"pos", 3>>>>)>>>>,
   <<"\"", <<S("top", <<>>), S("ll", <<<<"value", Its>>>>)>>>>, <<"'", <<S("top", <<>>), S("ll", <<<<"value", Quoted_>>>>)>>>>}
LOCAL FromN ==
  {<<"'", <<S("top", <<>>), S("x", <<>>)>>>>, <<"'", <<S("top", <<>>), Li(Id("m", "one"), J7), S("w", <<>>)>>>>,
   <<"'", <<S("other", <<>>), S("xo", <<>>)>>>>, <<"'", <<S("top", <<>>), Li(Id("m", "two"), J7)>>>>}

LOCAL Entry(k, j, more) == <<V("j", j), V("k", k)>> \o more
XmlBase(more, rest) ==
  <<D("top", <<>>, <<more \o
      <<D("li", <<>>, <<Entry(Id("n", "one"), Small(<<" ", "7">>, "7"),
                          <<D("sub", <<>>, <<<<V("s", Its)>>, <<V("s", Small(<<"5">>, "5"))>>, <<V("s", Id("m", "two"))>>>>),
                            V("e", Lex(<<>>, [shape |-> "empty", text |-> <<"null">>], <<>>))>>),
                        Entry(Id("m", "one"), J7,
                          <<V("w", Lex(<<"+", "7">>, Str(<<"0", "7">>), <<>>)),
                            V("v", Lex(<<" ", "true">>, [shape |-> "bool", text |-> <<"1">>], <<>>))>>)>>),
        D("ll", <<Its, Same(<<"b">>)>>, <<>>)>>>>)>> \o rest

(* Whether the path is one of tokens, for the leaf that requires it.       *)
LOCAL Canon(v, own) ==
  IF v.is = "lex" THEN v.canon ELSE Str(IF v.mod = own THEN <<v.name>> ELSE <<v.mod, ":", v.name>>)
LOCAL Required(leaf, steps) ==
  [leaf |-> leaf,
   path |-> [i \in DOMAIN steps |-> [id |-> steps[i].id, preds |-> [k \in DOMAIN steps[i].preds |->
       LET p == steps[i].preds[k] own == IF p[1] \in DOMAIN XmlNodes THEN Mod(p[1]) ELSE Mod(steps[i].id)
       IN  IF p[1] = "pos" THEN p ELSE <<p[1], Canon(p[2], own)>>]]]]

LOCAL Spelled(doc, quote, required) ==
  {[schema |-> XmlSchema, elements |-> MCElements(doc, XmlStyle(first, quote), where, ""),
    object |-> MCJson(doc, JsonStyle(first, quote, IF first THEN <<" ">> ELSE <<>>), ""), required |-> required] :
     first \in BOOLEAN, where \in {"root", "value", "shadowed"}}

LOCAL Written(leaf, text, steps) ==  \* not resolved, but for the import prefixes
  Spelled(XmlBase(<<V(leaf, Same(text))>>, <<>>), "'", IF steps = <<>> THEN {} ELSE {Required(leaf, steps)})
LOCAL Good ==
  UNION {Spelled(XmlBase(<<V("ref", Path(p[2]))>>, <<>>), p[1], {Required("ref", p[2])}) : p \in InM}
  \cup UNION {Spelled(XmlBase(<<V("nref", Path(p[2])), V("x", Id("n", "one"))>>, <<D("other", <<>>, <<<<>>>>)>>), p[1],
                      {Required("nref", p[2])}) : p \in InM \cup FromN}
  \cup UNION {Spelled(XmlBase(<<V("un", v), V("x", Id("m", "two"))>>, <<>>), "'", {}) :
                v \in {J7, Path(<<S("top", <<>>)>>)}}
  \cup UNION {Spelled(XmlBase(<<V("un", Path(p[2]))>>, <<>>), p[1], {}) : p \in InM}
  \cup Spelled(XmlBase(<<V("nref", Path(<<S("top", <<>>), S("xa", <<>>)>>)), V("xa", Its)>>, <<>>), "'", {})
  \cup Written("nref", <<"/", "mm", ":", "top">>, <<S("top", <<>>)>>)
  \cup Written("nref", <<"/", "mm", ":", "top", "/", "x">>, <<S("top", <<>>), S("x", <<>>)>>)
  \cup Written("ref", <<"/", "zz", ":", "top">>, <<>>)
  \cup Written("nref", <<"/", "mm", ":", "top", "[", "zz", ":", "k", "=", "'", "'", "]">>, <<>>)
  \cup Written("ref", <<"/", "zz", ":", "top", "[", "]">>, <<>>) \cup Written("ref", <<>>, <<>>)

(* Documents that neither form accepts.                                    *)
LOCAL Bad ==
  LET El(name, ns, text, kids) == [prefix |-> "", name |-> name, decls |-> <<<<"", ns>>>>, text |-> text, kids |-> kids]
      none == <<[mod |-> "m", name |-> "none", vals |-> <<>>, sets |-> <<>>]>>
      in(kids) == <<El("top", "um", <<>>, kids)>>
      leaf == El("ref", "um", <<"b">>, <<>>)
  IN  {[schema |-> XmlSchema, elements |-> es, object |-> none, required |-> {}] :
         es \in {<<El("top", "un", <<>>, <<>>)>>, <<El("none", "um", <<>>, <<>>)>>, <<El("top", "", <<>>, <<>>)>>,
                 <<[El("top", "um", <<>>, <<>>) EXCEPT !.prefix = "m"]>>, <<El("top", "um", <<"b">>, <<>>)>>,
                 in(<<leaf, leaf>>), in(<<>>) \o in(<<>>), in(<<El("ref", "um", <<>>, <<leaf>>)>>),
                 in(<<El("ll", "um", <<>>, <<leaf>>)>>), in(<<El("li", "um", <<"b">>, <<>>)>>),
                 in(<<El("li", "um", <<>>, <<El("e", "um", <<>>, <<El("e", "um", <<>>, <<>>)>>)>>)>>),
                 <<El("solo", "un", <<>>, <<>>)>>}}
MCXmlQuestions == Good \cup Bad

MCCanonicalPath(text, mod) ==
    LET result == CanonicalInstanceIdentifier(text, mod) IN result
MCComputeXml(f, x) ==
    LET result ==
         CASE f = "ParseXML" -> ParseXML(x[1])
           [] f = "SerializeXML" -> SerializeXML(x[1], x[2])
           [] f = "Parse" -> Parse(x[1])
           [] f = "WriteObject" -> WriteObject(x[1], "")
           [] f = "CheckInstances" -> CheckInstances(x[1], x[1])
    IN  result
=============================================================================
