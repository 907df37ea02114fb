------------------------------ MODULE MCViews ------------------------------
(***************************************************************************)
(* Schemas to look at, to project and to compare: two modules, one of which*)
(* augments the other and lends it a grouping.                             *)
(***************************************************************************)
EXTENDS Projection, SchemaDiff

VNode(name, mod, kind, up, kids) ==
  [name |-> name, mod |-> mod, src |-> mod, inst |-> "m", group |-> "", kind |-> kind, up |-> up,
   kids |-> kids, keys |-> <<>>, cfg |-> TRUE, mand |-> FALSE, min |-> -1, max |-> -1,
   dflts |-> <<>>, presence |-> FALSE, user |-> FALSE, feats |-> <<>>, musts |-> <<>>,
   whens |-> <<>>, uniq |-> <<>>, devs |-> <<>>, type |-> [base |-> "none"]]
Of(base, limits) == [base |-> base, typedefs |-> <<>>, limits |-> limits]
VLeaf(name, up) == [VNode(name, "m", "leaf", up, <<>>) EXCEPT !.type = Of("string", <<1, 3>>)]
RefTo(id) == [base |-> "leafref", typedefs |-> <<"t">>, path |-> "../k1", require |-> TRUE, target |-> id]

VNodes ==
  ("m" :> VNode("", "m", "module", "", <<"top", "tc", "go", "solo", "note">>))
  @@ ("top" :> VNode("top", "m", "container", "m", <<"li", "ch", "ro", "np", "act", "nt">>))
  @@ ("li" :> [VNode("li", "m", "list", "top", <<"val", "k1", "st", "in", "k2", "nval">>)
                 EXCEPT !.keys = <<"k2", "k1">>, !.uniq = <<<<"val", "dl">>>>])
  @@ ("val" :> [VLeaf("val", "li") EXCEPT !.dflts = <<<<"1", "m">>>>])
  @@ ("k1" :> VLeaf("k1", "li")) @@ ("k2" :> VLeaf("k2", "li"))
  @@ ("st" :> [VLeaf("st", "li") EXCEPT !.cfg = FALSE, !.mand = TRUE])
  @@ ("in" :> VNode("in", "m", "container", "li", <<"dl", "md", "ml">>))
  @@ ("dl" :> [VLeaf("dl", "in") EXCEPT !.dflts = <<<<"2", "n">>>>, !.type = RefTo("k1")])
  @@ ("md" :> [VLeaf("md", "in") EXCEPT !.mand = TRUE])
  @@ ("ml" :> [VNode("ml", "m", "leaf-list", "in", <<>>) EXCEPT !.min = 1,
                 !.type = [base |-> "union", typedefs |-> <<>>, members |-> <<Of("int", <<1, 9>>), RefTo("val")>>]])
  @@ ("nval" :> [VLeaf("val", "li") EXCEPT !.mod = "n", !.src = "n"])
  @@ ("ch" :> [VNode("ch", "m", "choice", "top", <<"ca", "cb">>) EXCEPT !.mand = TRUE])
  @@ ("ca" :> VNode("ca", "m", "case", "ch", <<"x", "cc">>)) @@ ("x" :> VLeaf("x", "ca"))
  @@ ("cc" :> VNode("cc", "m", "container", "ca", <<"cx">>)) @@ ("cx" :> [VLeaf("cx", "cc") EXCEPT !.mand = TRUE])
  @@ ("cb" :> VNode("cb", "m", "case", "ch", <<"y">>)) @@ ("y" :> [VLeaf("y", "cb") EXCEPT !.dflts = <<<<"3", "m">>>>])
  @@ ("ro" :> [VNode("ro", "m", "container", "top", <<"rs">>) EXCEPT !.cfg = FALSE])
  @@ ("rs" :> [VLeaf("rs", "ro") EXCEPT !.cfg = FALSE, !.mand = TRUE])
  @@ ("np" :> VNode("np", "m", "container", "top", <<"nn">>))
  @@ ("nn" :> [VLeaf("nn", "np") EXCEPT !.src = "n", !.group = "g", !.dflts = <<<<"4", "n">>>>])
  @@ ("act" :> VNode("act", "m", "action", "top", <<"ai">>))
  @@ ("ai" :> VNode("input", "m", "input", "act", <<"aa">>)) @@ ("aa" :> VLeaf("aa", "ai"))
  @@ ("nt" :> [VNode("nt", "n", "container", "top", <<"nl">>) EXCEPT !.src = "n"])
  @@ ("nl" :> [VLeaf("nl", "nt") EXCEPT !.mod = "n", !.src = "n",
                 !.whens = <<[test |-> "w", mod |-> "n", depth |-> 1, except |-> <<"k1">>]>>])
  @@ ("tc" :> VNode("tc", "m", "choice", "m", <<"ta", "tb">>))
  @@ ("ta" :> VNode("ta", "m", "case", "tc", <<"tl">>)) @@ ("tl" :> VLeaf("tl", "ta"))
  @@ ("tb" :> VNode("tb", "m", "case", "tc", <<"tm">>))
  @@ ("tm" :> VNode("tm", "m", "container", "tb", <<"tk">>)) @@ ("tk" :> [VLeaf("tk", "tm") EXCEPT !.mand = TRUE])
  @@ ("go" :> VNode("go", "m", "rpc", "m", <<"gi">>)) @@ ("gi" :> VNode("input", "m", "input", "go", <<"ga">>))
  @@ ("ga" :> VLeaf("ga", "gi")) @@ ("solo" :> VLeaf("solo", "m"))
  @@ ("note" :> VNode("note", "m", "notification", "m", <<"nb">>)) @@ ("nb" :> VLeaf("nb", "note"))
  @@ ("n" :> VNode("", "n", "module", "", <<"only">>))
  @@ ("only" :> [VLeaf("only", "n") EXCEPT !.mod = "n", !.src = "n", !.inst = "n"])

VModule(prefix, ns, rev, imports) == [prefix |-> prefix, ns |-> ns, rev |-> rev, imports |-> imports]
VBase ==
  [mods |-> ("m" :> VModule("pm", "u:m", "1", "pn" :> "n")) @@ ("n" :> VModule("pn", "u:n", "1", "pm" :> "m")),
   order |-> <<"m", "n">>, nodes |-> VNodes]

Without(s, ids) ==
  [s EXCEPT !.nodes = [id \in DOMAIN @ \ ids |->
      [@[id] EXCEPT !.kids = SelectSeq(@, LAMBDA k : k \notin ids)]]]
Renamed(s, id, name) == [s EXCEPT !.nodes[id].name = name]

Theirs ==
  Without([VBase EXCEPT !.nodes["li"].uniq = <<<<"nval", "dl">>>>,
                        !.nodes["ml"].type.members = <<Of("int", <<1, 9>>), RefTo("nval")>>], {"val"})

(* m under the name and namespace of another module.                       *)
VOther ==
  LET to(x) == IF x = "m" THEN "o" ELSE x
      moved(n) == [n EXCEPT !.mod = to(@), !.src = to(@), !.inst = to(@), !.up = to(@)]
  IN  [VBase EXCEPT !.order = <<"n", "o">>,
         !.mods = ("o" :> VModule("po", "u:o", "1", "pn" :> "n")) @@ ("n" :> VBase.mods["n"]),
         !.nodes = [id \in {to(k) : k \in DOMAIN VNodes} |->
                       moved(VNodes[IF id = "o" THEN "m" ELSE id])]]

MCViewSchemas ==
  ("base" :> VBase)
  @@ ("sorted" :> [VBase EXCEPT !.nodes["li"].kids = <<"nval", "k1", "in", "k2", "st", "val">>,
                                !.nodes["m"].kids = Reverse(@)])
  @@ ("own" :> Without(VBase, {"nval"})) @@ ("theirs" :> Theirs)
  @@ ("typed" :> [VBase EXCEPT !.nodes["x"].type = Of("string", <<1, 4>>), !.nodes["y"].type = Of("int", <<0>>),
                               !.nodes["dl"].type = RefTo("k2"), !.nodes["li"].keys = Reverse(@)])
  @@ ("renamed" :> Renamed(VBase, "k1", "key"))
  @@ ("kinds" :> [VBase EXCEPT !.nodes["np"].kind = "list", !.nodes["ro"].cfg = TRUE,
                               !.nodes["nl"].whens = <<>>, !.nodes["nt"].inst = "n",
                               !.nodes["solo"].devs = <<"not-supported">>, !.nodes["ml"].min = 0])
  @@ ("shallow" :> Without(VBase, {"act", "ai", "aa", "x", "tc", "ta", "tl", "tb", "tm", "tk"}))
  @@ ("alone" :> [Without(VBase, {"n", "only", "nval", "nt", "nl"}) EXCEPT !.order = <<"m">>])
  @@ ("revised" :> [VBase EXCEPT !.mods["n"].rev = "2", !.nodes["only"].mand = TRUE])
  @@ ("other" :> VOther)

MCComparisons ==
  LET of(a, b, ms) == [old |-> a, new |-> b, modules |-> ms]
      all == DOMAIN MCViewSchemas
  IN  {of("base", x, <<>>) : x \in all} \cup {of(x, "kinds", <<>>) : x \in all}
      \cup {of(x, "base", <<"m", "m">>) : x \in all \ {"other"}}
      \cup {of(p[1], p[2], <<"m", "m">>) : p \in {<<"own", "theirs">>, <<"sorted", "typed">>, <<"theirs", "kinds">>}}
      \cup {of("base", "other", <<"m", "o">>), of("other", "kinds", <<"o", "m">>), of("base", "own", <<"m", "n">>)}

------------------------------------------------------------------------------
(* Paths and options.                                                      *)
PathOf(names) == [i \in DOMAIN names |-> <<"", names[i]>>]
P_top == PathOf(<<"top">>)
P_in == PathOf(<<"m", "top", "li", "in">>)
P_nval == PathOf(<<"top", "li">>) \o <<<<"pn", "val">>>>
P_nn == <<<<"pm", "top">>, <<"", "np">>, <<"n", "nn">>>>
P_cc == PathOf(<<"top", "ch", "ca", "cc">>)
P_tl == PathOf(<<"tc", "ta", "tl">>)
P_tm == PathOf(<<"tc", "tb", "tm">>)
P_ga == PathOf(<<"go", "input", "ga">>)
P_st == PathOf(<<"top", "li", "st">>)
P_only == <<<<"pn", "only">>>>

(* Siblings are to come in the order of the schema (ProjectSchemaPaths).   *)
(* The code does not do so for roots that are not top-level nodes of the   *)
(* module (flattened nodes of a top-level choice, nodes of another module),*)
(* which stay in the order of the paths: two of them are asked for in the  *)
(* schema's order only, other nodes in any.                                *)
PathLists(flat) ==
  {<<P_top>>, <<P_nval, P_in>>, <<P_in, P_top>>, <<P_top, P_cc>>,
   IF flat THEN <<P_tl, P_cc, P_tm, P_nn>> ELSE <<P_tm, P_cc, P_tl, P_nn>>, <<P_ga, P_st, P_nval>>,
   <<P_only, P_nn, PathOf(<<"solo">>)>>, <<P_cc, PathOf(<<"top", "nope">>)>>, <<PathOf(<<"top", "ch">>)>>, <<>>}

Relative == {<<<<"", "in">>>>, <<<<"", "li">>, <<"", "in">>, <<"", "md">>>>, <<<<"", "li">>, <<"n", "val">>>>, <<<<"pn", "nt">>>>,
             <<<<"", "cc">>, <<"", "cx">>>>, <<<<"", "ch">>, <<"", "cb">>>>, <<<<"", "li">>, <<"", "val">>>>, <<>>}
Filters ==
  {[allow |-> <<>>, ignore |-> <<>>]} \cup {[allow |-> <<a>>, ignore |-> <<>>] : a \in Relative}
  \cup {[allow |-> <<<<<<"", "li">>>>, <<<<"", "cc">>>>>>, ignore |-> <<b>>] : b \in Relative}

Option(d, mand, dflt, pr, co, flat, f, lenient) ==
  [descendants |-> d, keys |-> d \/ flat, mandatory |-> mand, protect |-> pr, defaults |-> dflt, keysFirst |-> flat,
   flat |-> flat, allow |-> f.allow, ignore |-> f.ignore, lenient |-> lenient, configOnly |-> co]
OptionSets ==
  {Option(d, mand, dflt, pr, pr # dflt, mand # dflt, f, TRUE) :
     d \in BOOLEAN, mand \in BOOLEAN, dflt \in BOOLEAN, pr \in BOOLEAN, f \in Filters}

Question(paths, opts) == [schema |-> "base", module |-> "m", paths |-> paths, subtree |-> "none", opts |-> opts]
MCSelections ==
  UNION {{Question(ps, Option(d, ~d, ~d, FALSE, co, flat, [allow |-> <<>>, ignore |-> <<>>], TRUE)) :
            ps \in PathLists(flat), d \in BOOLEAN, co \in BOOLEAN} : flat \in BOOLEAN}
  \cup {Question(<<P_top>>, o) : o \in OptionSets}
  \cup {[Question(<<>>, Option(TRUE, d, d, d, d, d, f, FALSE)) EXCEPT !.subtree = t] :
          t \in {"top", "li", "ch", "st"}, d \in BOOLEAN, f \in Filters}

(* The deeply recursive operators of the views, by name, as MCCompute.     *)
MCComputeView(f, x) ==
    LET result ==
         CASE f = "SubtreeOf" -> SubtreeOf(x[1])
           [] f = "AddSelection" -> AddSelection(x[1], x[2])
           [] f = "FindByPath" -> FindByPath(x[1], x[2], x[3])
           [] f = "Selectable" -> Selectable(x[1])
           [] f = "Project" -> Project(x[1], x[2])
           [] f = "ProjectedExactly" -> ProjectedExactly
           [] f = "FormsAgree" -> FormsAgree(x[1], x[2])
           [] f = "ContextsDiffExactly" -> ContextsDiffExactly(x[1], x[2])
           [] f = "DiffedExactly" -> DiffedExactly(x[1], x[2], x[3], x[4])
    IN  result

MCMaterialisations ==
  {[view |-> x, limit |-> l] : x \in {"base", "shallow", "alone"}, l \in {0, 103, 104, 119, 120}}

------------------------------------------------------------------------------
MaterialiseIR == Unasked /\ \E q \in MCMaterialisations : Ask("ir", q)
ViewsIdle == ProjectionIdle
ViewsNext == ProjectionNext \/ ((CompareSchemas \/ MaterialiseIR) /\ UNCHANGED jvars)

(* A projection has exactly the nodes its options describe, in schema order*)
(* (ProjectSchemaPaths, ProjectSubtree: the paths are merged one by one);  *)
(* and the nested form of a schema is materialised exactly when the records*)
(* it would need are within the limit, and is what the table refers to     *)
(* (SchemaIRWithLimit, SchemaIRTable); and a difference of schemas is exact*)
(* (DiffExact, above in SchemaDiff).                                       *)
ViewsExact ==
    /\ DiffExact
    /\ Asked("project") /\ projected.outcome # "running" =>
         ComputeView("ProjectedExactly", <<>>)
    /\ Asked("ir") => ComputeView("FormsAgree", <<Views[probe.question.view], probe.question.limit>>)
=============================================================================
