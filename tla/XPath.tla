-------------------------------- MODULE XPath --------------------------------
(***************************************************************************)
(* The lexer and the parser of the XPath engine of the pure-Go data tree   *)
(* (go/datatree/datatree_xpath.go).                                        *)
(*                                                                         *)
(* A text is a sequence of words, a word a name, a number, a literal or a  *)
(* symbol, and a pair: the prefix of a name or "", and the rest.           *)
(***************************************************************************)
EXTENDS Integers, SequencesExt, FiniteSetsExt

XWord(w, t) == [w |-> w, t |-> t]
NameWord(prefix, local) == XWord("name", <<prefix, local>>)
Symbol(s) == XWord("sym", <<"", s>>)

------------------------------------------------------------------------------
(* Expressions.                                                            *)
Number(n) == [num |-> n]
Literal(s) == [lit |-> s]
Operation(op, l, r) == [op |-> op, l |-> l, r |-> r]
Negated(e) == [neg |-> e]
Call(name, args) == [call |-> name, args |-> args]
Location(abs, start, steps) == [abs |-> abs, start |-> start, steps |-> steps]
XStep(axis, test, preds) == [axis |-> axis, test |-> test, preds |-> preds]

AnyNode == <<"", "node()">>
Star == <<"", "*">>
Deep == XStep("descendant-or-self", AnyNode, <<>>)
Is(e, field) == field \in DOMAIN e

------------------------------------------------------------------------------
(* lexXPath.  A token has a kind and, where the kind has more than one, a  *)
(* text.  "*" and the operator names depend on the token before.           *)
Token(kind, text) == [kind |-> kind, text |-> text]
Relations == {"=", "!=", "<", "<=", ">", ">="}
OperatorNames == {"and", "or", "div", "mod"}
prevAllowsOperand(ts) ==
    ts = <<>> \/ Last(ts).kind \in {"@", "::", "(", "[", ",", "starOp", "opName", "rel", "add", "/", "//", "|"}

(* classifyName: before anything else a name before "(" is a function.     *)
classifyName(ts, name, next) ==
    IF next = "(" THEN Token("func", name)
    ELSE IF next = "::" THEN Token("axis", name)
    ELSE IF ~prevAllowsOperand(ts) /\ name[1] = "" /\ name[2] \in OperatorNames THEN Token("opName", name)
    ELSE Token("name", name)

lexXPath(words) ==
    LET next(i) == IF i < Len(words) /\ words[i + 1].w = "sym" THEN words[i + 1].t[2] ELSE ""
        symbol(ts, s) ==
          CASE s = "*" -> Token(IF prevAllowsOperand(ts) THEN "starTest" ELSE "starOp", <<"", s>>)
            [] s \in Relations -> Token("rel", <<"", s>>)
            [] s \in {"+", "-"} -> Token("add", <<"", s>>)
            [] OTHER -> Token(s, <<"", s>>)
        add(ts, i) ==
          LET w == words[i] IN
          Append(ts, CASE w.w = "name" -> classifyName(ts, w.t, next(i))
                       [] w.w \in {"num", "lit"} -> Token(w.w, w.t)
                       [] w.w = "sym" -> symbol(ts, w.t[2]))
    IN  IF \E i \in DOMAIN words : words[i].w = "sym" /\ words[i].t[2] = "!" THEN <<>>
        ELSE Append(FoldLeft(add, <<>>, [i \in DOMAIN words |-> i]), Token("eof", <<"", "">>))

------------------------------------------------------------------------------
(* The parser.  It reads from a position and returns the expression and the*)
(* position behind it.                                                     *)
Parsed(e, at) == [ok |-> TRUE, e |-> e, at |-> at]
NoParse == [ok |-> FALSE]

(* The binary operators by precedence, the weakest first.                  *)
Precedence == <<{"or"}, {"and"}, {"=", "!="}, {"<", "<=", ">", ">="}, {"+", "-"}, {"mul", "div", "mod"}>>
OperatorAt(ts, i) ==
    CASE ts[i].kind = "starOp" -> "mul"
      [] ts[i].kind \in {"opName", "rel", "add"} -> ts[i].text[2]
      [] OTHER -> ""
isStepStart(kind) == kind \in {"name", "starTest", ".", "..", "func"}

RECURSIVE ParseLevel(_, _, _), Operands(_, _, _), ParseUnary(_, _), Unions(_, _), ParsePath(_, _),
          ParseSteps(_, _, _), ParsePredicates(_, _, _), Arguments(_, _, _)

(* parseOr to parseMultiplicative.                                         *)
ParseLevel(k, ts, i) ==
    IF k > Len(Precedence) THEN ParseUnary(ts, i) ELSE Operands(k, ts, ParseLevel(k + 1, ts, i))
Operands(k, ts, lhs) ==
    IF ~lhs.ok \/ OperatorAt(ts, lhs.at) \notin Precedence[k] THEN lhs
    ELSE LET rhs == ParseLevel(k + 1, ts, lhs.at + 1) IN
         IF rhs.ok THEN Operands(k, ts, Parsed(Operation(OperatorAt(ts, lhs.at), lhs.e, rhs.e), rhs.at)) ELSE NoParse

ParseUnary(ts, i) ==
    LET x == ParseUnary(ts, i + 1) IN
    IF ts[i].kind # "add" \/ ts[i].text[2] # "-" THEN Unions(ts, ParsePath(ts, i))
    ELSE IF x.ok THEN Parsed(Negated(x.e), x.at) ELSE NoParse

Unions(ts, lhs) ==
    IF ~lhs.ok \/ ts[lhs.at].kind # "|" THEN lhs
    ELSE LET rhs == ParsePath(ts, lhs.at + 1) IN
         IF rhs.ok THEN Unions(ts, Parsed(Operation("|", lhs.e, rhs.e), rhs.at)) ELSE NoParse

ParseExpr(ts, i) == ParseLevel(1, ts, i)

(* finishStep: the predicates of a step.                                   *)
ParsePredicates(ts, i, step) ==
    LET p == ParseExpr(ts, i + 1) IN
    IF ts[i].kind # "[" THEN Parsed(step, i)
    ELSE IF ~p.ok \/ ts[p.at].kind # "]" THEN NoParse
    ELSE ParsePredicates(ts, p.at + 1, [step EXCEPT !.preds = Append(@, p.e)])

ParseStep(ts, i) ==
    LET kind == ts[i].kind IN
    CASE kind = "." -> Parsed(XStep("self", AnyNode, <<>>), i + 1)
      [] kind = ".." -> Parsed(XStep("parent", AnyNode, <<>>), i + 1)
      [] kind \in {"name", "starTest"} -> ParsePredicates(ts, i + 1, XStep("child", ts[i].text, <<>>))
      [] kind = "func" -> IF ts[i].text = <<"", "node">> /\ ts[i + 1].kind = "(" /\ ts[i + 2].kind = ")"
                          THEN ParsePredicates(ts, i + 3, XStep("child", AnyNode, <<>>)) ELSE NoParse
      [] OTHER -> NoParse

(* parseRelativeSteps, behind the steps read so far.                       *)
ParseSteps(ts, i, before) ==
    LET s == ParseStep(ts, i)
        steps == Append(before, s.e)
    IN  IF ~s.ok THEN NoParse
        ELSE CASE ts[s.at].kind = "/" -> ParseSteps(ts, s.at + 1, steps)
               [] ts[s.at].kind = "//" -> ParseSteps(ts, s.at + 1, Append(steps, Deep))
               [] OTHER -> Parsed(steps, s.at)

ParseLocationPath(ts, i) ==
    LET kind  == ts[i].kind
        steps == CASE kind = "/" -> ParseSteps(ts, i + 1, <<>>)
                   [] kind = "//" -> ParseSteps(ts, i + 1, <<Deep>>)
                   [] OTHER -> ParseSteps(ts, i, <<>>)
    IN  IF kind = "/" /\ ~isStepStart(ts[i + 1].kind) THEN Parsed(Location(TRUE, <<>>, <<>>), i + 1)
        ELSE IF steps.ok THEN Parsed(Location(kind \in {"/", "//"}, <<>>, steps.e), steps.at) ELSE NoParse

(* parseCall, behind the arguments read so far.                            *)
Arguments(ts, i, before) ==
    LET a == ParseExpr(ts, i)
        args == Append(before, a.e)
    IN  IF ~a.ok THEN NoParse
        ELSE CASE ts[a.at].kind = "," -> Arguments(ts, a.at + 1, args)
               [] ts[a.at].kind = ")" -> Parsed(args, a.at + 1)
               [] OTHER -> NoParse
ParseCall(ts, i) ==
    LET args == IF ts[i + 2].kind = ")" THEN Parsed(<<>>, i + 3) ELSE Arguments(ts, i + 2, <<>>) IN
    IF ts[i + 1].kind = "(" /\ args.ok THEN Parsed(Call(ts[i].text, args.e), args.at) ELSE NoParse

PrimaryExpr(ts, i) ==
    LET inner == ParseExpr(ts, i + 1) IN
    CASE ts[i].kind = "num" -> Parsed(Number(ts[i].text), i + 1)
      [] ts[i].kind = "lit" -> Parsed(Literal(ts[i].text), i + 1)
      [] ts[i].kind = "func" -> ParseCall(ts, i)
      [] ts[i].kind = "(" -> IF inner.ok /\ ts[inner.at].kind = ")" THEN Parsed(inner.e, inner.at + 1) ELSE NoParse

ParsePath(ts, i) ==
    LET primary == PrimaryExpr(ts, i)
        deep    == ts[primary.at].kind = "//"
        steps   == ParseSteps(ts, primary.at + 1, IF deep THEN <<Deep>> ELSE <<>>)
    IN  IF ts[i].kind \notin {"num", "lit", "func", "("} THEN ParseLocationPath(ts, i)
        ELSE IF ~primary.ok \/ ts[primary.at].kind \notin {"/", "//"} THEN primary
        ELSE IF steps.ok THEN Parsed(Location(FALSE, <<primary.e>>, steps.e), steps.at) ELSE NoParse

parseXPath(words) ==
    LET ts == lexXPath(words)
        r  == ParseExpr(ts, 1)
    IN  IF ts # <<>> /\ r.ok /\ ts[r.at].kind = "eof" THEN r ELSE NoParse

------------------------------------------------------------------------------
(* The grammar of XPath 1.0, as far as the parser supports it: the         *)
(* expressions the words from i to before j derive as a production.  What  *)
(* follows a lone "/" is a step; a path does not begin with node().        *)
Text(words, i) == IF words[i].w = "sym" THEN words[i].t[2] ELSE ""
OpWord(words, i) ==
    IF words[i].w = "name" /\ words[i].t[1] = "" THEN words[i].t[2]
    ELSE IF Text(words, i) = "*" THEN "mul" ELSE Text(words, i)

RECURSIVE Derivations(_, _, _, _), ArgumentLists(_, _, _, _)
Derivations(w, nt, i, j) ==
    LET D(n, a, b) == Derivations(w, n, a, b)
        at(s) == {k \in i..(j - 1) : Text(w, k) = s}
        level(k) == IF k = Len(Precedence) THEN "unary" ELSE ToString(k + 1)
        binary(k) ==
          D(level(k), i, j)
          \cup UNION {{Operation(OpWord(w, m), l, r) : l \in D(ToString(k), i, m), r \in D(level(k), m + 1, j)} :
                       m \in {m \in (i + 1)..(j - 2) : OpWord(w, m) \in Precedence[k]}}
        relative(from, before) == {before \o s : s \in D("steps", from, j)}
        steps ==
          {<<s>> : s \in D("step", i, j)}
          \cup UNION {{Append(p, s) : p \in D("steps", i, m), s \in D("step", m + 1, j)} : m \in at("/")}
          \cup UNION {{p \o <<Deep, s>> : p \in D("steps", i, m), s \in D("step", m + 1, j)} : m \in at("//")}
        step ==
          (IF j = i + 1 /\ Text(w, i) = "." THEN {XStep("self", AnyNode, <<>>)} ELSE {})
          \cup (IF j = i + 1 /\ Text(w, i) = ".." THEN {XStep("parent", AnyNode, <<>>)} ELSE {})
          \cup (IF j = i + 1 /\ w[i].w = "name" THEN {XStep("child", w[i].t, <<>>)} ELSE {})
          \cup (IF j = i + 1 /\ Text(w, i) = "*" THEN {XStep("child", Star, <<>>)} ELSE {})
          \cup (IF j = i + 3 /\ OpWord(w, i) = "node" /\ Text(w, i + 1) = "(" /\ Text(w, i + 2) = ")"
                 THEN {XStep("child", AnyNode, <<>>)} ELSE {})
          \cup (IF Text(w, j - 1) # "]" THEN {}
                 ELSE UNION {{[s EXCEPT !.preds = Append(@, p)] :
                                s \in {s \in D("step", i, m) : s.axis = "child"}, p \in D("1", m + 1, j - 1)} :
                             m \in at("[")})
        location ==
          {Location(FALSE, <<>>, s) : s \in IF OpWord(w, i) = "node" /\ j > i + 1 /\ Text(w, i + 1) = "(" THEN {}
                                            ELSE D("steps", i, j)}
          \cup (IF Text(w, i) = "/" /\ j = i + 1 /\ (j > Len(w) \/ OpWord(w, j) \notin OperatorNames \cup {"mul"})
                 THEN {Location(TRUE, <<>>, <<>>)} ELSE {})
          \cup (IF Text(w, i) = "/" THEN {Location(TRUE, <<>>, s) : s \in relative(i + 1, <<>>)} ELSE {})
          \cup (IF Text(w, i) = "//" THEN {Location(TRUE, <<>>, s) : s \in relative(i + 1, <<Deep>>)} ELSE {})
        primary ==
          (IF j = i + 1 /\ w[i].w = "num" THEN {Number(w[i].t)} ELSE {})
          \cup (IF j = i + 1 /\ w[i].w = "lit" THEN {Literal(w[i].t)} ELSE {})
          \cup (IF Text(w, i) = "(" /\ Text(w, j - 1) = ")" THEN D("1", i + 1, j - 1) ELSE {})
          \cup (IF j > i + 2 /\ w[i].w = "name" /\ Text(w, i + 1) = "(" /\ Text(w, j - 1) = ")"
                 THEN {Call(w[i].t, a) : a \in ArgumentLists(w, i + 2, j - 1, <<>>)} ELSE {})
        path ==
          location \cup primary
          \cup UNION {{Location(FALSE, <<p>>, s) : p \in D("primary", i, m), s \in relative(m + 1, <<>>)} : m \in at("/")}
          \cup UNION {{Location(FALSE, <<p>>, s) : p \in D("primary", i, m), s \in relative(m + 1, <<Deep>>)} :
                       m \in at("//")}
        union ==
          path \cup UNION {{Operation("|", l, r) : l \in D("union", i, m), r \in D("path", m + 1, j)} : m \in at("|")}
        unary == union \cup (IF Text(w, i) = "-" THEN {Negated(e) : e \in D("unary", i + 1, j)} ELSE {})
    IN  IF i >= j THEN {}
        ELSE CASE nt = "steps" -> steps [] nt = "step" -> step [] nt = "primary" -> primary
               [] nt = "path" -> path [] nt = "union" -> union [] nt = "unary" -> unary
               [] OTHER -> binary(CHOOSE k \in DOMAIN Precedence : ToString(k) = nt)
(* The lists of arguments.                                                 *)
ArgumentLists(w, i, j, before) ==
    {Append(before, e) : e \in Derivations(w, "1", i, j)}
    \cup UNION {UNION {ArgumentLists(w, m + 1, j, Append(before, e)) : e \in Derivations(w, "1", i, m)} :
                 m \in {m \in i..(j - 1) : Text(w, m) = ","}}
    \cup (IF i = j /\ before = <<>> THEN {<<>>} ELSE {})

(* Before "(" an operator name is a function to the lexer.                 *)
Misread(words) ==
    \E i \in DOMAIN words : i < Len(words) /\ OpWord(words, i) \in OperatorNames /\ Text(words, i + 1) = "("

(* A text the parser takes is one of the grammar with the expression it    *)
(* derives, which is the only one; it takes all texts it does not misread. *)
ParsedExactly(words) ==
    LET D == Derivations(words, "1", 1, Len(words) + 1)
        r == parseXPath(words)
    IN  /\ r.ok => D = {r.e}
        /\ D # {} /\ ~Misread(words) => r.ok
=============================================================================
