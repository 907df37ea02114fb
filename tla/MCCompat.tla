------------------------------ MODULE MCCompat ------------------------------
(* Texts, files and lookups for the goyang-compatible facade.              *)
EXTENDS CompatAST

LOCAL Sub(kw, arg) == Statement(kw, arg, <<>>)
LOCAL Imp(name, prefix, date) ==
    Statement("import", name, <<Sub("prefix", prefix)>> \o IF date = "" THEN <<>> ELSE <<Sub("revision-date", date)>>)
LOCAL Mod(name, ns, dates, subs) ==
    Statement("module", name, <<Sub("namespace", ns), Sub("prefix", name)>>
                              \o [i \in DOMAIN dates |-> Sub("revision", dates[i])] \o subs)
LOCAL SubMod(name, of, subs) ==
    Statement("submodule", name, <<Statement("belongs-to", of, <<Sub("prefix", of)>>)>> \o subs)
LOCAL File(dir, name, date, st) == [dir |-> dir, key |-> <<name, date>>, text |-> <<st>>]
LOCAL Path(dir, deep) == [dir |-> dir, deep |-> deep]
LOCAL Ref(name, date) == [name |-> name, prefix |-> "", date |-> date]

LOCAL A(date) == Mod("a", "nsa", <<>>, <<Imp("b", "b", date)>>)
LOCAL B(dates) == Mod("b", "nsb", dates, <<Sub("description", "text")>>)

(* A module and what it imports: files of two revisions, one in a directory*)
(* below, a text of the newer one.                                         *)
LOCAL Imports ==
    [texts |-> {<<A("")>>, <<B(<<"2021", "2020">>)>>},
     files |-> {File("d1", "b", "2020", B(<<"2020">>)), File("d2", "b", "2021", B(<<"2020", "2021">>))},
     below |-> ("d1" :> <<"d2">>), paths |-> {Path("d1", FALSE), Path("d1", TRUE)},
     names |-> {<<"a", "">>, <<"b", "">>, <<"b", "2020">>}, refs |-> {Ref("b", "2020"), Ref("b", "2021")},
     spaces |-> {"nsb"}, vendor |-> FALSE]

(* Two modules of one namespace, a text that is refused halfway.           *)
LOCAL Ambiguous ==
    [Imports EXCEPT !.texts = {<<Mod("c", "nsa", <<>>, <<>>)>>, <<A("2020"), B(<<"2020">>)>>,
                               <<Mod("e", "nse", <<>>, <<>>), A("")>>, <<Sub("leaf", "x")>>},
                    !.files = {}, !.paths = {}, !.refs = {Ref("c", "")},
                    !.names = {<<"c", "">>, <<"e", "">>}, !.spaces = {"nsa", "nse"}]

(* Submodules, in memory and as a file; a module without a namespace; a    *)
(* module that lacks a revision next to one that has it.                   *)
LOCAL Included(vendor) ==
    [Imports EXCEPT
       !.texts = {<<Mod("a", "nsa", <<>>, <<Statement("include", "s", <<>>)>>)>>, <<SubMod("s", "a", <<>>)>>},
       !.files = {File(".", "s", "", SubMod("s", "a", <<>>))}, !.below = <<>>, !.paths = {},
       !.refs = {Ref("s", ""), Ref("", "")}, !.names = {<<"a", "">>, <<"s", "">>}, !.spaces = {"nsa"},
       !.vendor = vendor]
LOCAL Undated ==
    [Imports EXCEPT !.texts = {<<B(<<>>)>>, <<B(<<"2020">>)>>, <<Mod("d", "", <<>>, <<>>)>>},
                    !.files = {}, !.paths = {}, !.refs = {}, !.names = {<<"b", "">>, <<"b", "2020">>}]

(* Modules that import each other.                                         *)
LOCAL Cycle(vendor) ==
    [Imports EXCEPT
       !.texts = {<<A("")>>, <<Mod("b", "nsb", <<"2021">>, <<Imp("a", "a", "")>>)>>},
       !.files = {}, !.paths = {}, !.refs = {}, !.names = {<<"a", "">>}, !.vendor = vendor]

MCFacadePrograms == {Imports, Ambiguous, Included(FALSE), Included(TRUE), Undated, Cycle(FALSE), Cycle(TRUE)}
MCDates == <<"2020", "2021">>

------------------------------------------------------------------------------
(* Texts and lookups for the syntax trees of the facade.                   *)
LOCAL S(kw, arg, subs) == Statement(kw, arg, subs)
LOCAL T(kw, arg) == Statement(kw, arg, <<>>)
LOCAL Ext(pfx, name) == [T(name, "x") EXCEPT !.pfx = pfx]
LOCAL AstMod(name, subs) == S("module", name, <<T("namespace", "ns"), T("prefix", name)>> \o subs)

(* A statement with everything its kind has, to a depth.                   *)
RECURSIVE FilledIn(_, _)
LOCAL FilledIn(kw, depth) ==
    LET sub(k) == LET s == FilledIn(k, depth - 1) IN
                  IF kindOf(kw) = "value" THEN <<>> ELSE IF k \in parsedAs[kindOf(kw)].many THEN <<s, s>> ELSE <<s>>
        all == Concat([i \in DOMAIN fieldsOf[kindOf(kw)] |-> sub(fieldsOf[kindOf(kw)][i])])
    IN  S(kw, kw, <<Ext("m", "note")>> \o IF depth = 0 THEN <<>> ELSE all)

LOCAL Look(what, rec, pos) ==
    [what |-> what, rec |-> rec, pos |-> pos, path |-> [abs |-> FALSE, steps |-> <<>>], name |-> "", module |-> ""]
LOCAL Node(rec, pos, abs, steps) == [Look("node", rec, pos) EXCEPT !.path = [abs |-> abs, steps |-> steps]]
LOCAL Grouping(rec, pos, name) == [Look("grouping", rec, pos) EXCEPT !.name = name]

LOCAL AstSamples == {[texts |-> <<<<AstMod("m", <<FilledIn(kw, 2)>>)>>>>, lookups |-> {}] :
                    kw \in ToSet(fieldsOf["module"])}

(* Choices, operations, groupings and their uses, here and in another      *)
(* module, names that mean several things, extensions.                     *)
LOCAL AstB == AstMod("b", <<T("revision", "2020"),
                      S("grouping", "g", <<T("leaf", "far")>>), S("container", "cb", <<T("leaf", "lb")>>)>>)
LOCAL B21 == AstMod("b", <<T("revision", "2021"), S("grouping", "h", <<T("leaf", "near")>>)>>)
LOCAL AstA == AstMod("a", <<
    S("import", "b", <<T("prefix", "b"), T("revision-date", "2020")>>),
    S("import", "c", <<T("prefix", "c")>>),
    S("grouping", "g", <<T("leaf", "lg"), S("uses", "h", <<>>)>>),
    S("grouping", "h", <<T("leaf", "lh")>>),
    S("container", "top", <<Ext("a", "note"), Ext("b", "note"),
        S("grouping", "g", <<T("leaf", "inner")>>), S("typedef", "twice", <<T("type", "t")>>), T("leaf", "twice"),
        S("choice", "ch", <<S("case", "ca", <<T("leaf", "lc")>>)>>), S("uses", "g", <<>>), S("uses", "b:g", <<>>),
        S("leaf", "last", <<Ext("z", "note"), T("description", "twice")>>)>>),
    S("rpc", "op", <<S("input", "input", <<T("leaf", "arg")>>)>>)>>)
LOCAL Paths ==
    {<<"top">>, <<"a:top", "ch", "ca", "lc">>, <<"top", "ch", "ca", "lc", "..">>, <<"top", "twice">>, <<"top", "lg">>,
     <<"top", "lh">>, <<"top", "far">>, <<"top", "far", "..">>, <<"b:cb", "lb">>, <<"c:cb">>, <<"op">>,
     <<"op", "input">>, <<"none">>, <<"top", "inner">>, <<"top", "..">>, <<"g">>}
LOCAL Two ==
    [texts |-> <<<<AstA>>, <<AstB>>, <<B21>>>>,
     lookups |-> {Node(1, <<>>, TRUE, p) : p \in Paths} \cup {Node(1, <<>>, FALSE, <<"top", "last", "twice">>)}
                 \cup {Node(1, <<7, 6>>, a, p) : a \in BOOLEAN, p \in {<<"ca", "..">>, <<"..", "..">>, <<"top", "last">>}}
                 \cup {Grouping(1, pos, n) : pos \in {<<>>, <<7>>, <<7, 6, 1, 1>>, <<5, 2>>},
                                             n \in {"g", "h", "a:h", "b:g", "b:h", "c:g"}}
                 \cup {[Look("extensions", 1, pos) EXCEPT !.module = m, !.name = "note"] :
                         pos \in {<<7>>, <<7, 9>>, <<8>>}, m \in {"a", "b"}}
                 \cup {[Look("prefix", 1, <<7>>) EXCEPT !.name = p] : p \in {"", "a", "b", "c"}}]

(* A module, two submodules, one of which includes the other.              *)
LOCAL AstSub(name, subs) ==
    S("submodule", name, <<S("belongs-to", "a", <<T("prefix", "a")>>)>> \o subs)
LOCAL Parts ==
    [texts |-> <<<<AstMod("a", <<T("include", "s"), T("include", "t"), S("import", "b", <<T("prefix", "b")>>),
                             S("container", "top", <<>>)>>)>>,
                 <<AstSub("s", <<T("include", "t"), S("import", "b", <<T("prefix", "q")>>), T("leaf", "ls")>>)>>,
                 <<AstSub("t", <<S("grouping", "g", <<T("leaf", "lt")>>)>>)>>, <<AstB>>>>,
     lookups |-> {Grouping(rec, <<>>, n) : rec \in 1..3, n \in {"g", "a:g", "b:g", "q:g"}}
                 \cup {Node(2, <<>>, TRUE, p) : p \in {<<"ls">>, <<"a:ls">>, <<"top">>, <<"b:cb", "lb">>, <<"q:cb">>}}
                 \cup {[Look("prefix", 2, <<>>) EXCEPT !.name = p] : p \in {"a", "b", "q"}}]

MCAstPrograms == AstSamples \cup {Two, Parts}
MCQualified ==
    "a:top" :> <<"a", "top">> @@ "a:h" :> <<"a", "h">> @@ "a:g" :> <<"a", "g">> @@ "a:ls" :> <<"a", "ls">>
    @@ "b:g" :> <<"b", "g">> @@ "b:h" :> <<"b", "h">> @@ "b:cb" :> <<"b", "cb">>
    @@ "c:g" :> <<"c", "g">> @@ "c:cb" :> <<"c", "cb">> @@ "q:g" :> <<"q", "g">> @@ "q:cb" :> <<"q", "cb">>
=============================================================================
