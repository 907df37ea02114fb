------------------------------ MODULE XPathEval ------------------------------
(***************************************************************************)
(* The evaluator of the XPath engine of the pure-Go data tree              *)
(* (go/datatree/datatree_xpath_eval.go, datatree_xpath_func.go) and the    *)
(* check of the must and when conditions of a tree (datatree_mustwhen.go). *)
(*                                                                         *)
(* A tree has schema nodes, each with a name (of a module and local), a    *)
(* kind, its parent or 0 and the bases of its identityref, and instances,  *)
(* each with its schema node, its parent or 0 and its value. Node 0 is the*)
(* root, n an instance, and -n the dummy that stands for n while its own   *)
(* when is evaluated.  A string is a sequence of characters; a number a    *)
(* multiple of one half, an infinity or NaN.                               *)
(***************************************************************************)
EXTENDS XPath, Probe

CONSTANTS
    XPathTexts,     \* texts to parse
    XPathPrograms,  \* trees, conditions and expressions
    Numerals        \* the texts of numbers, and the number of each

VARIABLE xpath

------------------------------------------------------------------------------
(* Nodes.                                                                  *)
Size(n) == IF n < 0 THEN -n ELSE n
SchemaOf(t, n) == t.schema[t.inst[Size(n)].sn]
NameOf(t, n) == IF n = 0 THEN <<"", "">> ELSE SchemaOf(t, n).name
Parents(t, n) == IF n = 0 THEN <<>> ELSE <<t.inst[Size(n)].up>>

(* buildXNodes: the children in the order of the schema, a list's entries  *)
(* and a leaf-list's values in their own.  A dummy has none.               *)
Kids(t, n) ==
    SetToSortSeq({i \in DOMAIN t.inst : t.inst[i].up = n},
                 LAMBDA i, j : t.inst[i].sn < t.inst[j].sn \/ (t.inst[i].sn = t.inst[j].sn /\ i < j))

RECURSIVE Preorder(_, _), StringValue(_, _)
Preorder(t, n) == <<n>> \o Concat([k \in DOMAIN Kids(t, n) |-> Preorder(t, Kids(t, n)[k])])
StringValue(t, n) ==
    IF n < 0 THEN <<>>
    ELSE IF n > 0 /\ SchemaOf(t, n).kind = "leaf" THEN t.inst[n].value
    ELSE Concat([k \in DOMAIN Kids(t, n) |-> StringValue(t, Kids(t, n)[k])])

RECURSIVE SchemaAncestors(_, _)
SchemaAncestors(t, s) == IF s = 0 THEN {} ELSE {s} \cup SchemaAncestors(t, t.schema[s].up)
isExcluded(env, n) == n # 0 /\ SchemaAncestors(env.tree, env.tree.inst[Size(n)].sn) \cap env.excluded # {}

------------------------------------------------------------------------------
(* Numbers, in halves.                                                     *)
Fin(v) == [k |-> "fin", v |-> v]
Inf(v) == [k |-> "inf", v |-> v]
NaN == [k |-> "nan", v |-> 0]
Sgn(x) == IF x.v > 0 THEN 1 ELSE IF x.v < 0 THEN -1 ELSE 0

Plus(a, b) ==
    CASE a.k = "fin" /\ b.k = "fin" -> Fin(a.v + b.v)
      [] a.k = "fin" -> b
      [] b.k = "fin" \/ a = b -> a
      [] OTHER -> NaN
Opposite(a) == [a EXCEPT !.v = -@]
Product(a, b) ==
    CASE a.k = "fin" /\ b.k = "fin" -> Fin((a.v * b.v) \div 2)
      [] Sgn(a) * Sgn(b) # 0 -> Inf(Sgn(a) * Sgn(b))
      [] OTHER -> NaN
Over(a, b) ==
    CASE a.k = "fin" /\ b.k = "inf" -> Fin(0)
      [] b.k = "fin" /\ b.v # 0 -> IF a.k = "fin" THEN Fin((2 * a.v) \div b.v) ELSE Inf(Sgn(a) * Sgn(b))
      [] b.k = "fin" /\ Sgn(a) # 0 -> Inf(Sgn(a))
      [] OTHER -> NaN
Modulo(a, b) ==
    CASE a.k = "inf" \/ b = Fin(0) -> NaN
      [] b.k = "inf" -> a
      [] OTHER -> Fin(Sgn(a) * (Size(a.v) % Size(b.v)))
arith(op, a, b) ==
    CASE a.k = "nan" \/ b.k = "nan" -> NaN
      [] op = "+" -> Plus(a, b)
      [] op = "-" -> Plus(a, Opposite(b))
      [] op = "mul" -> Product(a, b)
      [] op = "div" -> Over(a, b)
      [] op = "mod" -> Modulo(a, b)
Whole(a, v) == IF a.k = "fin" THEN Fin(v) ELSE a
floor(a) == Whole(a, 2 * (a.v \div 2))
xpathRound(a) == Whole(a, 2 * ((a.v + 1) \div 2))

SameNumber(a, b) == a.k # "nan" /\ a = b
Below(a, b) ==
    CASE a.k = "nan" \/ b.k = "nan" -> FALSE
      [] a.k = "inf" \/ b.k = "inf" -> a # b /\ (a = Inf(-1) \/ b = Inf(1))
      [] OTHER -> a.v < b.v
numCompare(op, a, b) ==
    CASE op = "<" -> Below(a, b)
      [] op = ">" -> Below(b, a)
      [] op = "<=" -> Below(a, b) \/ SameNumber(a, b)
      [] op = ">=" -> Below(b, a) \/ SameNumber(a, b)

(* formatXPathNumber and parseXPathNumber; a number has one shortest text. *)
parseXPathNumber(s) == IF s \in DOMAIN Numerals THEN Numerals[s] ELSE NaN
formatXPathNumber(a) ==
    LET texts == {s \in DOMAIN Numerals : Numerals[s] = a}
    IN  IF a = NaN THEN <<"NaN">> ELSE CHOOSE s \in texts : \A x \in texts : Len(s) <= Len(x)

------------------------------------------------------------------------------
(* Values.                                                                 *)
NodeSet(ns) == [kind |-> "set", ns |-> ns]
XStr(s) == [kind |-> "str", s |-> s]
XNum(n) == [kind |-> "num", n |-> n]
Bool(b) == [kind |-> "bool", b |-> b]
Unsupported == [kind |-> "err"]
MatcherFailed == [kind |-> "matcher"]
Fails(v) == v.kind \in {"err", "matcher", "unclear"}

toBool(v) ==
    CASE v.kind = "set" -> v.ns # <<>>
      [] v.kind = "str" -> v.s # <<>>
      [] v.kind = "num" -> v.n \notin {Fin(0), NaN}
      [] v.kind = "bool" -> v.b
toStr(t, v) ==
    CASE v.kind = "set" -> IF v.ns = <<>> THEN <<>> ELSE StringValue(t, v.ns[1])
      [] v.kind = "str" -> v.s
      [] v.kind = "num" -> formatXPathNumber(v.n)
      [] v.kind = "bool" -> <<IF v.b THEN "true" ELSE "false">>
toNum(t, v) ==
    CASE v.kind = "num" -> v.n
      [] v.kind = "bool" -> Fin(IF v.b THEN 2 ELSE 0)
      [] OTHER -> parseXPathNumber(toStr(t, v))

(* compareNodeset and compareValues.                                       *)
cmpStrings(op, a, b) ==
    CASE op = "=" -> a = b
      [] op = "!=" -> a # b
      [] OTHER -> numCompare(op, parseXPathNumber(a), parseXPathNumber(b))
applyNumOp(op, a, b) ==
    CASE op = "=" -> SameNumber(a, b)
      [] op = "!=" -> ~SameNumber(a, b)
      [] OTHER -> numCompare(op, a, b)
boolEq(op, a, b) == (op = "=" /\ a = b) \/ (op = "!=" /\ a # b)

compareNodeset(t, op, a, b) ==
    LET strings(v) == {StringValue(t, v.ns[i]) : i \in DOMAIN v.ns}
        one(v)     == IF v.kind = "set" THEN strings(v) ELSE {v.s}
        numbers(v) == IF v.kind = "num" THEN {v.n} ELSE {parseXPathNumber(s) : s \in strings(v)}
        both       == {a.kind, b.kind}
    IN  CASE "bool" \in both -> boolEq(op, toBool(a), toBool(b))
          [] "num" \in both -> \E x \in numbers(a), y \in numbers(b) : applyNumOp(op, x, y)
          [] OTHER -> \E x \in one(a), y \in one(b) : cmpStrings(op, x, y)

compareValues(t, op, a, b) ==
    LET both == {a.kind, b.kind}
        same == IF "bool" \in both THEN toBool(a) = toBool(b)
                ELSE IF "num" \in both THEN SameNumber(toNum(t, a), toNum(t, b))
                ELSE toStr(t, a) = toStr(t, b)
    IN  CASE "set" \in both -> compareNodeset(t, op, a, b)
          [] op = "=" -> same
          [] op = "!=" -> ~same
          [] OTHER -> numCompare(op, toNum(t, a), toNum(t, b))

------------------------------------------------------------------------------
(* Names.  An environment has the tree, the module whose prefixes it uses, *)
(* the module of a name without one, prefixes bound besides, the excluded  *)
(* subtrees of the schema and the node current() is.                       *)
resolveName(env, name) ==
    LET own == env.tree.prefixes[env.module] IN
    CASE name[1] = "" -> <<IF env.unprefixed # "" THEN env.unprefixed ELSE env.module>>
      [] name[1] \in DOMAIN env.bound -> <<env.bound[name[1]]>>
      [] name[1] \in DOMAIN own -> <<own[name[1]]>>
      [] OTHER -> <<>>
Wildcard(test) == test \in {AnyNode, Star}
matchTest(env, n, test) == Wildcard(test) \/ <<NameOf(env.tree, n)>> = [i \in DOMAIN resolveName(env, test) |->
                                                                        <<resolveName(env, test)[i], test[2]>>]

(* Identities, and the texts that name one.                                *)
identityQName(id) == <<id[1], ":", id[2]>>
RECURSIVE findIdentityRefValue(_, _, _, _), identityDerivedFrom(_, _, _, _)
findIdentityRefValue(t, id, value, module) ==
    IF value = identityQName(id) \/ (value = <<id[2]>> /\ id[1] = module) THEN {id}
    ELSE UNION {findIdentityRefValue(t, d, value, module) : d \in ToSet(t.derived[id])}
identityDerivedFrom(t, actual, target, orSelf) ==
    IF actual = target THEN orSelf
    ELSE \E d \in ToSet(t.derived[target]) : identityDerivedFrom(t, actual, d, TRUE)
identityRefIdentity(t, n) ==
    IF n <= 0 \/ SchemaOf(t, n).kind # "leaf" THEN {}
    ELSE UNION {findIdentityRefValue(t, b, t.inst[n].value, NameOf(t, n)[1]) : b \in ToSet(SchemaOf(t, n).bases)}
evalDerivedFrom(env, v, q, orSelf) ==
    LET t      == env.tree
        prefix == IF Len(q) = 3 THEN q[1] ELSE ""
        target == <<t.prefixes[env.module][prefix], Last(q)>>
        actual == UNION {identityRefIdentity(t, n) : n \in ToSet(v.ns)}
    IN  IF v.kind # "set" \/ prefix \notin DOMAIN t.prefixes[env.module] THEN Unsupported
        ELSE Bool(target \in DOMAIN t.derived
                  /\ \E id \in actual : identityDerivedFrom(t, id, target, orSelf))

(* substring; re-match; whether a word of a value of bits is a bit.        *)
xpathSubstring(t, a) ==
    LET s    == toStr(t, a[1])
        from == xpathRound(toNum(t, a[2]))
        to   == IF Len(a) = 3 THEN xpathRound(arith("+", toNum(t, a[2]), toNum(t, a[3]))) ELSE Inf(1)
        in(i) == numCompare(">=", Fin(2 * i), from) /\ numCompare("<", Fin(2 * i), to)
    IN  [j \in 1..Cardinality({i \in DOMAIN s : in(i)}) |-> s[SetToSortSeq({i \in DOMAIN s : in(i)}, <)[j]]]
rematch(t, s, pattern) == IF pattern \in DOMAIN t.patterns THEN Bool(s \in t.patterns[pattern]) ELSE MatcherFailed
bitIsSet(s, bit) ==
    \E i \in DOMAIN s : \E j \in i..Len(s) :
       /\ SubSeq(s, i, j) = bit /\ " " \notin ToSet(bit)
       /\ (i = 1 \/ s[i - 1] = " ") /\ (j = Len(s) \/ s[j + 1] = " ")

(* evalCall, its arguments evaluated.                                      *)
Function(env, name, a, c) ==
    LET t == env.tree
        n == Len(a)
        s(i) == toStr(t, a[i])
        x(i) == toNum(t, a[i])
        Sum(ns) == FoldLeft(LAMBDA sum, k : arith("+", sum, parseXPathNumber(StringValue(t, k))), Fin(0), ns)
        Is_(f, m) == name = <<"", f>> /\ n = m
    IN  CASE Is_("true", 0) -> Bool(TRUE)
          [] Is_("false", 0) -> Bool(FALSE)
          [] Is_("not", 1) -> Bool(~toBool(a[1]))
          [] Is_("boolean", 1) -> Bool(toBool(a[1]))
          [] Is_("string", 0) -> XStr(StringValue(t, c.node))
          [] Is_("string", 1) -> XStr(s(1))
          [] Is_("number", 0) -> XNum(parseXPathNumber(StringValue(t, c.node)))
          [] Is_("number", 1) -> XNum(x(1))
          [] Is_("count", 1) -> IF a[1].kind = "set" THEN XNum(Fin(2 * Len(a[1].ns))) ELSE Unsupported
          [] Is_("sum", 1) -> IF a[1].kind = "set" THEN XNum(Sum(a[1].ns)) ELSE Unsupported
          [] Is_("position", 0) -> XNum(Fin(2 * c.pos))
          [] Is_("last", 0) -> XNum(Fin(2 * c.size))
          [] Is_("contains", 2) -> Bool(\E i \in 1..(Len(s(1)) + 1) : IsPrefix(s(2), SubSeq(s(1), i, Len(s(1)))))
          [] Is_("starts-with", 2) -> Bool(IsPrefix(s(2), s(1)))
          [] Is_("string-length", 0) -> XNum(Fin(2 * Len(StringValue(t, c.node))))
          [] Is_("string-length", 1) -> XNum(Fin(2 * Len(s(1))))
          [] name = <<"", "concat">> /\ n >= 2 -> XStr(Concat([i \in DOMAIN a |-> s(i)]))
          [] name = <<"", "substring">> /\ n \in {2, 3} -> XStr(xpathSubstring(t, a))
          [] Is_("floor", 1) -> XNum(floor(x(1)))
          [] Is_("ceiling", 1) -> XNum(Opposite(floor(Opposite(x(1)))))
          [] Is_("round", 1) -> XNum(xpathRound(x(1)))
          [] Is_("current", 0) -> NodeSet(<<env.current>>)
          [] Is_("local-name", 0) -> XStr(<<NameOf(t, c.node)[2]>>)
          [] Is_("local-name", 1) -> IF a[1].kind # "set" THEN Unsupported
                                     ELSE XStr(IF a[1].ns = <<>> THEN <<>> ELSE <<NameOf(t, a[1].ns[1])[2]>>)
          [] Is_("re-match", 2) -> rematch(t, s(1), s(2))
          [] Is_("bit-is-set", 2) -> Bool(bitIsSet(s(1), s(2)))
          [] Is_("derived-from", 2) -> evalDerivedFrom(env, a[1], s(2), FALSE)
          [] Is_("derived-from-or-self", 2) -> evalDerivedFrom(env, a[1], s(2), TRUE)
          [] OTHER -> Unsupported

------------------------------------------------------------------------------
(* evalStep before its predicates: the nodes of an axis from one node and  *)
(* those of several, each once and in the order they are met.              *)
AxisOf(t, axis, n) ==
    CASE axis = "self" -> <<n>>
      [] axis = "parent" -> Parents(t, n)
      [] axis = "child" -> Kids(t, n)
      [] axis = "descendant-or-self" -> Preorder(t, n)
Met_Repeats(env, axis, ns) ==
    SelectSeq(Concat([i \in DOMAIN ns |-> AxisOf(env.tree, axis, ns[i])]), LAMBDA n : ~isExcluded(env, n))
Met(env, axis, ns) ==
    LET all == Concat([i \in DOMAIN ns |-> AxisOf(env.tree, axis, ns[i])])
        add(out, n) == IF n \in ToSet(out) \/ isExcluded(env, n) THEN out ELSE Append(out, n)
    IN  FoldLeft(add, <<>>, all)

RECURSIVE Eval(_, _, _), applyPredicates(_, _, _), Applied(_, _, _, _)

(* The values of a list of expressions, or <<v>> where the first fails.    *)
Values(env, es, c) ==
    LET step(vs, e) == IF vs # <<>> /\ Fails(Last(vs)) THEN vs ELSE Append(vs, Eval(env, e, c)) IN
    FoldLeft(step, <<>>, es)

applyPredicates(env, ns, preds) == FoldLeft(LAMBDA v, p : Applied(env, v, p, 1), NodeSet(ns), preds)
Applied(env, v, p, i) ==
    LET kept(j) == LET r == Eval(env, p, [node |-> v.ns[j], pos |-> j, size |-> Len(v.ns)]) IN
                   IF Fails(r) THEN r ELSE Bool(IF r.kind = "num" THEN r.n = Fin(2 * j) ELSE toBool(r))
        K == [j \in DOMAIN v.ns |-> kept(j)]
        bad == {j \in DOMAIN v.ns : Fails(K[j])}
        at == SetToSortSeq({j \in DOMAIN v.ns : ~Fails(K[j]) /\ K[j].b}, <)
    IN  IF Fails(v) THEN v
        ELSE IF bad # {} THEN K[Min(bad)] ELSE NodeSet([j \in DOMAIN at |-> v.ns[at[j]]])

evalStep(env, ns, step) ==
    LET met  == Met(env, step.axis, ns)
        cand == SelectSeq(met, LAMBDA n : matchTest(env, n, step.test))
    IN  IF met # <<>> /\ ~Wildcard(step.test) /\ resolveName(env, step.test) = <<>> THEN Unsupported
        ELSE applyPredicates(env, cand, step.preds)

evalPath(env, loc, c) ==
    LET start == IF loc.start # <<>> THEN Eval(env, loc.start[1], c)
                 ELSE NodeSet(<<IF loc.abs THEN 0 ELSE c.node>>)
    IN  IF Fails(start) THEN start
        ELSE IF start.kind # "set" THEN Unsupported
        ELSE FoldLeft(LAMBDA v, step : IF Fails(v) THEN v ELSE evalStep(env, v.ns, step), start, loc.steps)

Connective(env, e, c) ==
    LET l == Eval(env, e.l, c)
        r == Eval(env, e.r, c)
    IN  IF Fails(l) THEN l
        ELSE IF toBool(l) = (e.op = "or") THEN Bool(e.op = "or")
        ELSE IF Fails(r) THEN r ELSE Bool(toBool(r))

evalBinary(env, e, c) ==
    LET vs == Values(env, <<e.l, e.r>>, c)
        more == SelectSeq(vs[2].ns, LAMBDA n : n \notin ToSet(vs[1].ns))
    IN  CASE e.op \in {"and", "or"} -> Connective(env, e, c)
          [] Fails(Last(vs)) -> Last(vs)
          [] e.op = "|" -> IF \E v \in ToSet(vs) : v.kind # "set" THEN Unsupported ELSE NodeSet(vs[1].ns \o more)
          [] e.op \in Relations -> Bool(compareValues(env.tree, e.op, vs[1], vs[2]))
          [] OTHER -> XNum(arith(e.op, toNum(env.tree, vs[1]), toNum(env.tree, vs[2])))

evalCall(env, e, c) ==
    LET vs == Values(env, e.args, c) IN
    IF vs # <<>> /\ Fails(Last(vs)) THEN Last(vs) ELSE Function(env, e.call, vs, c)

Eval(env, e, c) ==
    LET v == Eval(env, e.neg, c) IN
    CASE Is(e, "num") -> XNum(e.num)
      [] Is(e, "lit") -> XStr(e.lit)
      [] Is(e, "neg") -> IF Fails(v) THEN v ELSE XNum(arith("-", Fin(0), toNum(env.tree, v)))
      [] Is(e, "call") -> evalCall(env, e, c)
      [] Is(e, "steps") -> evalPath(env, e, c)
      [] Is(e, "op") -> evalBinary(env, e, c)

------------------------------------------------------------------------------
(* walkMustWhen: the conditions of every instance.  A condition belongs to *)
(* a schema node; that of a when may be an ancestor, and if it is the node *)
(* itself a dummy stands for it.                                           *)
RECURSIVE ancestorAt(_, _, _)
ancestorAt(t, n, depth) ==
    IF depth = 0 THEN <<n>>
    ELSE IF n = 0 THEN <<>> ELSE ancestorAt(t, t.inst[n].up, depth - 1)
constraintContext(t, n, q) ==
    IF q.kind = "must" THEN <<n>> ELSE IF q.depth = 0 THEN <<-n>> ELSE ancestorAt(t, n, q.depth)
constraintEvaluator(t, n, at, q) ==
    [tree |-> t, module |-> IF q.source = "" THEN NameOf(t, n)[1] ELSE q.source, unprefixed |-> NameOf(t, at)[1],
     bound |-> <<>>, excluded |-> q.excluded, current |-> at]

(* constraintDisposition; a condition that cannot be evaluated is skipped. *)
disposition(v) == IF v.kind \in {"err", "matcher"} THEN v.kind ELSE IF toBool(v) THEN "true" ELSE "false"
Verdict(t, n, q) ==
    LET at == constraintContext(t, n, q)[1] IN
    IF constraintContext(t, n, q) = <<>> THEN "none"
    ELSE disposition(Eval(constraintEvaluator(t, n, at, q), q.e, [node |-> at, pos |-> 1, size |-> 1]))

checkMustWhen(t) ==
    LET whens == SelectSeq(t.conditions, LAMBDA q : q.kind = "when")
        musts == SelectSeq(t.conditions, LAMBDA q : q.kind = "must")
        check(n) ==
          LET own == SelectSeq(whens \o musts, LAMBDA q : q.of = t.inst[n].sn) IN
          [i \in DOMAIN own |-> [node |-> n, cond |-> own[i], verdict |-> Verdict(t, n, own[i])]]
        all == Concat([i \in DOMAIN Tail(Preorder(t, 0)) |-> check(Tail(Preorder(t, 0))[i])])
        fatal == \E i \in DOMAIN all : all[i].verdict = "matcher"
    IN  [failed |-> fatal,
         out |-> IF fatal THEN {} ELSE {r \in ToSet(all) : r.verdict = "false"}]

------------------------------------------------------------------------------
NoXPath == [done |-> FALSE, value |-> <<>>]
XPathIdle == xpath = NoXPath

AskText == Unasked /\ \E w \in XPathTexts : Ask("text", [words |-> w]) /\ UNCHANGED xpath
AskXPath == Unasked /\ \E P \in XPathPrograms : Ask("xpath", P) /\ UNCHANGED xpath

ParseCondition ==
    /\ Asked("text") /\ ~xpath.done
    /\ xpath' = [done |-> TRUE, value |-> Compute("parseXPath", <<probe.question.words>>)]
    /\ UNCHANGED probe

(* An expression at an instance, in the module of its node.                *)
OwnEnv(t, n) ==
    [tree |-> t, module |-> NameOf(t, n)[1], unprefixed |-> NameOf(t, n)[1], bound |-> <<>>, excluded |-> {},
     current |-> n]
AtNode(n) == [node |-> n, pos |-> 1, size |-> 1]
Evaluate ==
    /\ Asked("xpath") /\ ~xpath.done
    /\ \E e \in probe.question.exprs, n \in probe.question.at :
         xpath' = [done |-> TRUE,
                   value |-> [e |-> e, at |-> n, v |-> Compute("Eval", <<OwnEnv(probe.question, n), e, AtNode(n)>>)]]
    /\ UNCHANGED probe

CheckMustWhen ==
    /\ Asked("xpath") /\ ~xpath.done
    /\ xpath' = [done |-> TRUE, value |-> [checked |-> Compute("checkMustWhen", <<probe.question>>)]]
    /\ UNCHANGED probe

XPathNext == AskText \/ AskXPath \/ ParseCondition \/ Evaluate \/ CheckMustWhen

------------------------------------------------------------------------------
(* What XPath 1.0 says, by sets of nodes.  It is unclear where the code    *)
(* takes liberties: a predicate by position behind a step with several     *)
(* nodes, the string of several nodes out of order, a node set against a   *)
(* boolean by order, a substring with two halves.                          *)
Unclear == [kind |-> "unclear"]
InOrder(t, S) == NodeSet(SelectSeq(Preorder(t, 0), LAMBDA n : n \in S) \o SetToSeq({n \in S : n < 0}))

RECURSIVE ByPosition(_), Jumbled(_)
ByPosition(p) ==
    \/ Is(p, "num") \/ Is(p, "neg") \/ (Is(p, "op") /\ p.op \in {"+", "-", "mul", "div", "mod"})
    \/ Is(p, "op") /\ (ByPosition(p.l) \/ ByPosition(p.r))
    \/ Is(p, "call") /\ (p.call[2] \in {"position", "last", "count", "number", "sum", "string-length", "floor",
                                        "ceiling", "round"}
                         \/ \E a \in DOMAIN p.args : ByPosition(p.args[a]))
Jumbled(e) ==
    \/ Is(e, "op") /\ e.op = "|"
    \/ Is(e, "steps") /\ ((\E s \in DOMAIN e.steps : e.steps[s] = Deep) \/ (e.start # <<>> /\ Jumbled(e.start[1])))

RECURSIVE Ref(_, _, _), RefStep(_, _, _), Kept(_, _, _)
(* The string of the first node matters, and it is not known which that is.*)
FirstUnclear(t, e, v) ==
    v.kind = "set" /\ Jumbled(e) /\ Cardinality({StringValue(t, n) : n \in ToSet(v.ns)}) > 1

(* The nodes predicates keep of those of one axis from one node.           *)
Kept(env, ns, preds) ==
    LET here(j) == Ref(env, preds[1], [node |-> ns[j], pos |-> j, size |-> Len(ns)])
        keep(j) == IF here(j).kind = "num" THEN here(j).n = Fin(2 * j) ELSE toBool(here(j))
        at == SetToSortSeq({j \in DOMAIN ns : keep(j)}, <)
    IN  IF preds = <<>> THEN NodeSet(ns)
        ELSE IF \E j \in DOMAIN ns : Fails(here(j)) THEN here(CHOOSE j \in DOMAIN ns : Fails(here(j)))
        ELSE Kept(env, [i \in DOMAIN at |-> ns[at[i]]], Tail(preds))

RefStep(env, ns, step) ==
    LET axis(n) == SelectSeq(AxisOf(env.tree, step.axis, n), LAMBDA m : ~isExcluded(env, m))
        named(n) == SelectSeq(axis(n), LAMBDA m : Wildcard(step.test) \/ matchTest(env, m, step.test))
        from == [i \in DOMAIN ns |-> Kept(env, named(ns[i]), step.preds)]
        failed == {i \in DOMAIN ns : Fails(from[i])}
    IN  IF ~Wildcard(step.test) /\ resolveName(env, step.test) = <<>> /\ \E n \in ToSet(ns) : axis(n) # <<>>
        THEN Unsupported
        ELSE IF Len(ns) > 1 /\ \E p \in ToSet(step.preds) : ByPosition(p) THEN Unclear
        ELSE IF failed # {} THEN from[Min(failed)]
        ELSE InOrder(env.tree, UNION {ToSet(from[i].ns) : i \in DOMAIN ns})

(* A comparison holds if it holds of some value of each side.              *)
Holds(t, op, a, b) ==
    LET x == toNum(t, a)
        y == toNum(t, b)
        same == IF "bool" \in {a.kind, b.kind} THEN toBool(a) = toBool(b)
                ELSE IF "num" \in {a.kind, b.kind} THEN SameNumber(x, y) ELSE toStr(t, a) = toStr(t, b)
    IN  CASE op = "=" -> same [] op = "!=" -> ~same [] OTHER -> numCompare(op, x, y)
RefCompare(t, op, a, b) ==
    LET some(v, other) == IF v.kind # "set" THEN {v}
                          ELSE IF other.kind = "bool" THEN {Bool(v.ns # <<>>)}
                          ELSE {XStr(StringValue(t, n)) : n \in ToSet(v.ns)}
    IN  IF {a.kind, b.kind} = {"set", "bool"} /\ op \notin {"=", "!="} THEN Unclear
        ELSE Bool(\E x \in some(a, b), y \in some(b, a) : Holds(t, op, x, y))

Ref(env, e, c) ==
    LET t == env.tree
        l == Ref(env, e.l, c)
        r == Ref(env, e.r, c)
        x == Ref(env, e.neg, c)
        args == [i \in DOMAIN e.args |-> Ref(env, e.args[i], c)]
        failed == {i \in DOMAIN e.args : Fails(args[i])}
        first == {i \in DOMAIN e.args : FirstUnclear(t, e.args[i], args[i])}
        start == IF e.start # <<>> THEN Ref(env, e.start[1], c) ELSE NodeSet(<<IF e.abs THEN 0 ELSE c.node>>)
        halves == e.call = <<"", "substring">> /\ Len(args) = 3
                  /\ \A i \in {2, 3} : toNum(t, args[i]).k = "fin" /\ toNum(t, args[i]).v % 2 = 1
    IN  CASE Is(e, "num") -> XNum(e.num)
          [] Is(e, "lit") -> XStr(e.lit)
          [] Is(e, "neg") -> IF Fails(x) THEN x ELSE IF FirstUnclear(t, e.neg, x) THEN Unclear
                             ELSE XNum(Opposite(toNum(t, x)))
          [] Is(e, "call") -> IF failed # {} THEN args[Min(failed)]
                              ELSE IF first # {} /\ e.call[2] \notin {"count", "sum", "not", "boolean"} THEN Unclear
                              ELSE IF halves THEN Unclear
                              ELSE Function(env, e.call, args, c)
          [] Is(e, "steps") -> IF Fails(start) THEN start
                               ELSE IF start.kind # "set" THEN Unsupported
                               ELSE FoldLeft(LAMBDA v, s : IF Fails(v) THEN v ELSE RefStep(env, v.ns, s), start, e.steps)
          [] Is(e, "op") ->
               IF Fails(l) THEN l
               ELSE CASE e.op = "or" -> IF toBool(l) THEN Bool(TRUE) ELSE IF Fails(r) THEN r ELSE Bool(toBool(r))
                      [] e.op = "and" -> IF ~toBool(l) THEN Bool(FALSE) ELSE IF Fails(r) THEN r ELSE Bool(toBool(r))
                      [] Fails(r) -> r
                      [] e.op = "|" -> IF {l.kind, r.kind} # {"set"} THEN Unsupported
                                       ELSE InOrder(t, ToSet(l.ns) \cup ToSet(r.ns))
                      [] e.op \in Relations -> RefCompare(t, e.op, l, r)
                      [] FirstUnclear(t, e.l, l) \/ FirstUnclear(t, e.r, r) -> Unclear
                      [] OTHER -> XNum(arith(e.op, toNum(t, l), toNum(t, r)))

SameXValue(v, r) ==
    /\ v.kind = r.kind
    /\ v.kind = "set" => ToSet(v.ns) = ToSet(r.ns) /\ Len(v.ns) = Len(r.ns)
    /\ v.kind # "set" => v = r

(* An expression has the value XPath gives it, and a condition is reported *)
(* at every instance it is false for; what cannot be evaluated is skipped. *)
EvaluatedExactly(t, x) == LET r == Ref(OwnEnv(t, x.at), x.e, AtNode(x.at)) IN r = Unclear \/ SameXValue(x.v, r)
ConditionsExact(t, r) ==
    LET value(n, q) ==
          LET at == constraintContext(t, n, q) IN
          IF at = <<>> THEN Unsupported ELSE Ref(constraintEvaluator(t, n, at[1], q), q.e, AtNode(at[1]))
        pairs == {<<n, q>> \in (DOMAIN t.inst) \X ToSet(t.conditions) : q.of = t.inst[n].sn}
        is(p, kind) == value(p[1], p[2]).kind = kind
        reported == {<<x.node, x.cond>> : x \in r.out}
    IN  /\ r.failed <=> \E p \in pairs : is(p, "matcher")
        /\ ~r.failed => \A p \in pairs : is(p, "unclear")
                            \/ (p \in reported <=> ~Fails(value(p[1], p[2])) /\ ~toBool(value(p[1], p[2])))

(* The texts of conditions are parsed, expressions evaluated and conditions*)
(* checked as XPath says.                                                  *)
XPathExact ==
    xpath.done =>
       CASE Asked("text") -> Compute("ParsedExactly", <<probe.question.words>>)
         [] Asked("xpath") /\ "e" \in DOMAIN xpath.value -> Compute("EvaluatedExactly", <<probe.question, xpath.value>>)
         [] OTHER -> Compute("ConditionsExact", <<probe.question, xpath.value.checked>>)
=============================================================================
