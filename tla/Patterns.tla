------------------------------ MODULE Patterns ------------------------------
(***************************************************************************)
(* Patterns (go/yangpattern, internal/xsdregex, cambium/schema_pattern.go):*)
(* a pattern is compiled into interned nodes, and a value is matched by    *)
(* the length, by one class, by the native engine, or by deriving, rune by *)
(* rune, expressions that are interned and merged, and by the native       *)
(* engine again when that exceeds a limit.                                 *)
(*                                                                         *)
(* A pattern is a sequence of tokens [op, r, set, lo, hi]: a literal r, an *)
(* escape with its set (single or not), a count, or a character with a     *)
(* meaning.  Runes are 0 .. MaxRune, 0 the newline and Dash the "-".       *)
(* A bound of -1 is none.                                                  *)
(***************************************************************************)
EXTENDS Probe, FiniteSets, SequencesExt

CONSTANTS MaxRune, Dash, RepeatMax, PatternPrograms
ASSUME RunesAssumption == MaxRune \in Nat /\ Dash \in 0 .. MaxRune /\ RepeatMax \in Nat

VARIABLES pphase,    \* "compile", "ready", "derive", "matched",
                     \* "refused", "unenforced", "error"
          compiled,   \* nodes, root, minimum, nullable, native
          arena,     \* the residuals and the transitions of the match
          residual,  \* the residual reached
          word,      \* the value
          derived,   \* how many of its runes the residual is past
          verdict
kvars == <<pphase, compiled, arena, residual, word, derived, verdict>>

EmptyId == 1
EpsilonId == 2
Unbounded == -1

------------------------------------------------------------------------------
(* Character classes: sequences of ranges.                                 *)
NormalizeRanges(ranges) ==
    LET sorted == SortSeq(SelectSeq(ranges, LAMBDA r : r[1] <= r[2]),
                          LAMBDA a, b : a[1] < b[1] \/ (a[1] = b[1] /\ a[2] < b[2]))
    IN  FoldLeft(LAMBDA out, r :
                   IF out = <<>> \/ r[1] > Last(out)[2] + 1 THEN Append(out, r)
                   ELSE IF r[2] > Last(out)[2] THEN Append(Front(out), <<Last(out)[1], r[2]>>)
                   ELSE out,
                 <<>>, sorted)
ComplementRanges(ranges) ==
    LET w == FoldLeft(LAMBDA w, r :
                        [out |-> IF r[1] > w.next THEN Append(w.out, <<w.next, r[1] - 1>>) ELSE w.out,
                         next |-> IF r[2] + 1 > w.next THEN r[2] + 1 ELSE w.next],
                      [out |-> <<>>, next |-> 0], NormalizeRanges(ranges))
    IN  IF w.next <= MaxRune THEN Append(w.out, <<w.next, MaxRune>>) ELSE w.out
SubtractRanges(base, sub) ==
    LET cut(w, s) ==
          IF s[2] < w.cur \/ s[1] > w.hi THEN w
          ELSE [out |-> IF s[1] > w.cur THEN Append(w.out, <<w.cur, s[1] - 1>>) ELSE w.out,
                cur |-> IF s[2] >= w.hi THEN w.hi + 1 ELSE s[2] + 1, hi |-> w.hi]
        rest(b) == LET w == FoldLeft(cut, [out |-> <<>>, cur |-> b[1], hi |-> b[2]], NormalizeRanges(sub))
                   IN  IF w.cur <= w.hi THEN Append(w.out, <<w.cur, w.hi>>) ELSE w.out
        bs == NormalizeRanges(base)
    IN  Concat([i \in DOMAIN bs |-> rest(bs[i])])
ContainsRune(ranges, r) == \E i \in DOMAIN ranges : ranges[i][1] <= r /\ r <= ranges[i][2]

(* The items of a class: an atom, or a range between two single runes.     *)
NoRanges == [ok |-> FALSE, ranges |-> <<>>]
RawDash(tok) == tok.op = "lit" /\ tok.r = Dash
SingleRune(tok) == tok.op = "lit" \/ (tok.op = "escape" /\ tok.single)
AtomOf(tok) == IF tok.op = "escape" THEN tok.ranges ELSE <<<<tok.r, tok.r>>>>
ClassAtom(tok) == tok.op \in {"lit", "escape"}
RECURSIVE ClassItems(_, _, _, _)
ClassItems(toks, i, ranges, previousRange) ==
    LET start == toks[i]
        dash == i + 1 <= Len(toks) /\ RawDash(toks[i + 1]) /\ i + 2 <= Len(toks)
        end == toks[i + 2]
    IN  IF i > Len(toks) THEN [ok |-> TRUE, ranges |-> ranges]
        ELSE IF ~ClassAtom(start) \/ (RawDash(start) /\ i # 1 /\ i # Len(toks) /\ ~previousRange) THEN NoRanges
        ELSE IF ~dash THEN ClassItems(toks, i + 1, ranges \o AtomOf(start), FALSE)
        ELSE IF ClassAtom(end) /\ SingleRune(start) /\ SingleRune(end) /\ ~RawDash(start) /\ ~RawDash(end) /\ start.r <= end.r
        THEN ClassItems(toks, i + 3, Append(ranges, <<start.r, end.r>>), TRUE)
        ELSE NoRanges
ParseClassContent(toks) ==
    LET negated == toks # <<>> /\ toks[1].op = "^"
        items == IF negated THEN Tail(toks) ELSE toks
        out == ClassItems(items, 1, <<>>, FALSE)
        norm == NormalizeRanges(out.ranges)
    IN  IF items = <<>> \/ ~out.ok THEN NoRanges
        ELSE [ok |-> TRUE, ranges |-> IF negated THEN ComplementRanges(norm) ELSE norm]

(* Where the bracket opened at i closes, 0 when it does not.               *)
RECURSIVE ClassEnd(_, _, _)
ClassEnd(toks, i, nesting) ==
    IF i > Len(toks) THEN 0
    ELSE IF toks[i].op = "]" /\ nesting = 1 THEN i
    ELSE ClassEnd(toks, i + 1, nesting + (CASE toks[i].op = "[" -> 1 [] toks[i].op = "]" -> -1 [] OTHER -> 0))
(* Class subtraction: the first "-[" of the class itself.                  *)
RECURSIVE ParseClassExpr(_)
ParseClassExpr(toks) ==  \* from "[" to its "]"
    LET end == Len(toks)
        markers == {i \in 2 .. end - 1 : RawDash(toks[i]) /\ toks[i + 1].op = "["
                                         /\ \A j \in 2 .. i : toks[j].op # "["}
        marker == CHOOSE i \in markers : \A j \in markers : i <= j
        base == ParseClassContent(SubSeq(toks, 2, marker - 1))
        subEnd == ClassEnd(toks, marker + 1, 0)
        sub == ParseClassExpr(SubSeq(toks, marker + 1, subEnd))
    IN  IF markers = {} THEN ParseClassContent(SubSeq(toks, 2, end - 1))
        ELSE IF ~base.ok \/ subEnd + 1 # end \/ ~sub.ok THEN NoRanges
        ELSE [ok |-> TRUE, ranges |-> SubtractRanges(base.ranges, sub.ranges)]
AtomRanges(toks) ==
    CASE toks[1].op = "[" -> ParseClassExpr(toks)
      [] toks[1].op = "." -> [ok |-> TRUE, ranges |-> <<<<1, MaxRune>>>>]
      [] OTHER -> [ok |-> TRUE, ranges |-> AtomOf(toks[1])]

------------------------------------------------------------------------------
(* The compiler c: tokens, position, nodes, limits, the error, the id last *)
(* made.  Nodes are interned, and their simplest forms are made.           *)
PatternNode(op, kids, ranges, min, max) == [op |-> op, kids |-> kids, ranges |-> ranges, min |-> min, max |-> max]
EmptyNode == PatternNode("empty", <<>>, <<>>, 0, 0)
EpsilonNode == PatternNode("epsilon", <<>>, <<>>, 0, 0)
RECURSIVE NullableNode(_, _)
NullableNode(nodes, id) ==
    LET n == nodes[id] IN
    CASE n.op = "epsilon" -> TRUE
      [] n.op = "repeat" -> n.min = 0
      [] n.op = "alt" -> \E k \in ToSet(n.kids) : NullableNode(nodes, k)
      [] n.op = "concat" -> \A k \in ToSet(n.kids) : NullableNode(nodes, k)
      [] OTHER -> FALSE

Giving(c, id) == [c EXCEPT !.id = id]
Failed(c, kind) == [c EXCEPT !.id = EmptyId, !.err = IF @ = "" THEN kind ELSE @]
Put(c, n) ==
    IF c.err # "" THEN c
    ELSE IF \E i \in DOMAIN c.nodes : c.nodes[i] = n THEN Giving(c, SelectInSeq(c.nodes, LAMBDA x : x = n))
    ELSE IF Len(c.nodes) = c.limits.nodes THEN Failed(c, "resource")
    ELSE [c EXCEPT !.nodes = Append(@, n), !.id = Len(c.nodes) + 1]
Binary(c, op, a, b) ==
    CASE op = "alt" /\ (a = EmptyId \/ a = b) -> Giving(c, b)
      [] op = "alt" /\ b = EmptyId -> Giving(c, a)
      [] op = "concat" /\ EmptyId \in {a, b} -> Giving(c, EmptyId)
      [] op = "concat" /\ a = EpsilonId -> Giving(c, b)
      [] op = "concat" /\ b = EpsilonId -> Giving(c, a)
      [] OTHER -> Put(c, PatternNode(op, IF op = "alt" /\ a > b THEN <<b, a>> ELSE <<a, b>>, <<>>, 0, 0))

Times(a, b) == IF Unbounded \in {a, b} THEN Unbounded ELSE a * b
(* A repetition of a repetition is one when no count between is lost.      *)
Collapses_Always(n, lo, hi) == TRUE
Collapses(n, lo, hi) == lo = hi \/ n.min = 0
RECURSIVE Nonempty(_, _), Repeat(_, _, _, _)
Nonempty(c, id) ==  \* the same language without the empty word
    LET n == c.nodes[id]
        left_ == Nonempty(c, n.kids[1])
        right == Nonempty(left_, n.kids[2])
        first == Binary(left_, "concat", left_.id, n.kids[2])
        second == Nonempty(first, n.kids[2])
    IN  IF ~NullableNode(c.nodes, id) \/ c.err # "" THEN Giving(c, id)
        ELSE CASE n.op = "epsilon" -> Giving(c, EmptyId)
               [] n.op = "alt" -> Binary(right, "alt", left_.id, right.id)
               [] n.op = "concat" -> Binary(second, "alt", first.id, second.id)
               [] n.op = "repeat" -> Repeat(c, n.kids[1], 1, n.max)
Repeat(c, id, lo, hi) ==
    LET n == c.nodes[id]
        nullable == NullableNode(c.nodes, id)
        d == IF nullable THEN Nonempty(c, id) ELSE Giving(c, id)
        from == IF nullable THEN 0 ELSE lo
    IN  IF c.err # "" THEN c
        ELSE IF hi = 0 \/ id = EpsilonId \/ (id = EmptyId /\ lo = 0) THEN Giving(c, EpsilonId)
        ELSE IF id = EmptyId THEN Giving(c, EmptyId)
        ELSE IF n.op = "repeat" /\ Collapses(n, lo, hi) THEN Repeat(c, n.kids[1], n.min * lo, Times(n.max, hi))
        ELSE IF d.id = EmptyId THEN Giving(d, EpsilonId)
        ELSE IF from = 1 /\ hi = 1 THEN d
        ELSE Put(d, PatternNode("repeat", <<d.id>>, <<>>, from, hi))

More(c) == c.err = "" /\ c.pos <= Len(c.toks)
Tok(c) == c.toks[c.pos]
RECURSIVE ParseExpression(_, _), Alternatives(_, _), Terms(_, _, _), Pairwise(_, _)
ParseExpression(c, depth) ==
    IF depth > c.limits.depth THEN Failed(c, "resource") ELSE Alternatives(Terms(c, depth, <<>>), depth)
Alternatives(c, depth) ==
    LET next == Terms([c EXCEPT !.pos = @ + 1], depth, <<>>) IN
    IF More(c) /\ Tok(c).op = "|" THEN Alternatives(Binary(next, "alt", c.id, next.id), depth) ELSE c
Pairwise(c, terms) ==  \* balanced, to keep long literals shallow
    LET pair(w, i) ==
          LET d == Binary(w.c, "concat", terms[2 * i - 1], terms[2 * i]) IN
          IF 2 * i > Len(terms) THEN [w EXCEPT !.out = Append(@, terms[2 * i - 1])]
          ELSE [c |-> d, out |-> Append(w.out, d.id)]
        half == FoldLeft(pair, [c |-> c, out |-> <<>>], [i \in 1 .. (Len(terms) + 1) \div 2 |-> i])
    IN  CASE terms = <<>> -> Giving(c, EpsilonId)
          [] Len(terms) = 1 -> Giving(c, terms[1])
          [] OTHER -> Pairwise(half.c, half.out)

(* Brackets inside a class count as groups do, a class that is never closed*)
(* up to the end of the pattern.                                           *)
TooNested(c, depth, end) ==
    LET count(op, i) == Cardinality({j \in c.pos .. i : c.toks[j].op = op}) IN
    \E i \in c.pos + 1 .. (IF end = 0 THEN Len(c.toks) ELSE end) :
        c.toks[i].op = "[" /\ depth + count("[", i) - count("]", i) > c.limits.depth
PatternAtom(c, depth) ==
    LET tok == Tok(c)
        group == ParseExpression([c EXCEPT !.pos = @ + 1], depth + 1)
        end == IF tok.op = "[" THEN ClassEnd(c.toks, c.pos, 0) ELSE c.pos
        class == AtomRanges(SubSeq(c.toks, c.pos, end))
        d == [c EXCEPT !.pos = end + 1]
    IN  IF tok.op = "("
        THEN IF More(group) /\ Tok(group).op = ")" THEN [group EXCEPT !.pos = @ + 1] ELSE Failed(group, "syntax")
        ELSE IF tok.op = "[" /\ TooNested(c, depth, end) THEN Failed(c, "resource")
        ELSE IF tok.op \in {"*", "+", "?", "count", "]"} \/ end = 0 \/ ~class.ok THEN Failed(c, "syntax")
        ELSE IF class.ranges = <<>> THEN Giving(d, EmptyId)
        ELSE Put(d, PatternNode("class", <<>>, class.ranges, 0, 0))
Quantified(c) ==
    LET d == [c EXCEPT !.pos = @ + 1]
        tok == Tok(c)
    IN  IF ~More(c) THEN c
        ELSE CASE tok.op = "*" -> Repeat(d, c.id, 0, Unbounded)
               [] tok.op = "+" -> Repeat(d, c.id, 1, Unbounded)
               [] tok.op = "?" -> Repeat(d, c.id, 0, 1)
               [] tok.op = "count" -> IF tok.hi # Unbounded /\ tok.lo > tok.hi THEN Failed(c, "syntax")
                                      ELSE Repeat(d, c.id, tok.lo, tok.hi)
               [] OTHER -> c
Terms(c, depth, terms) ==
    LET d == Quantified(PatternAtom(c, depth)) IN
    IF More(c) /\ Tok(c).op \notin {")", "|"} THEN Terms(d, depth, Append(terms, d.id))
    ELSE IF c.err # "" THEN c ELSE Pairwise(c, terms)

Infinite == 1000
Saturated(n) == IF n > Infinite THEN Infinite ELSE n
RECURSIVE MinimumLength(_, _), Height(_, _)
MinimumLength(nodes, id) ==
    LET n == nodes[id]
        kid(i) == MinimumLength(nodes, n.kids[i])
    IN  CASE n.op = "empty" -> Infinite
          [] n.op = "epsilon" -> 0
          [] n.op = "class" -> 1
          [] n.op = "alt" -> IF kid(1) < kid(2) THEN kid(1) ELSE kid(2)
          [] n.op = "concat" -> Saturated(kid(1) + kid(2))
          [] n.op = "repeat" -> Saturated(n.min * kid(1))
Height(nodes, id) ==
    LET hs == {Height(nodes, k) : k \in ToSet(nodes[id].kids)} IN
    1 + (IF hs = {} THEN 0 ELSE CHOOSE h \in hs : \A g \in hs : g <= h)

(* Instructions of the native engine; RepeatMax is its largest count.      *)
RECURSIVE Instructions(_, _), Representable(_, _)
Instructions(nodes, id) ==
    LET n == nodes[id]
        kid(i) == Instructions(nodes, n.kids[i])
    IN  CASE n.op = "epsilon" -> 0
          [] n.op \in {"empty", "class"} -> 1
          [] n.op = "alt" -> kid(1) + kid(2) + 1
          [] n.op = "concat" -> kid(1) + kid(2)
          [] n.op = "repeat" -> IF n.max = Unbounded THEN kid(1) * (n.min + 1) + 1 ELSE kid(1) * n.max + n.max - n.min
Representable(nodes, id) ==
    LET n == nodes[id] IN
    (n.op = "repeat" => n.min <= RepeatMax /\ n.max <= RepeatMax) /\ \A k \in ToSet(n.kids) : Representable(nodes, k)
Eligible(instructions, count, limits) ==
    instructions + 4 <= limits.instructions /\ (instructions + 4) * (count + 1) <= limits.nativeWork

Restored(c) ==
    LET all == DOMAIN c.nodes
        p == [nodes |-> c.nodes, root |-> c.id, err |-> c.err,
              nullable |-> [i \in all |-> NullableNode(c.nodes, i)], minimum |-> [i \in all |-> MinimumLength(c.nodes, i)],
              native |-> Representable(c.nodes, c.id)]
    IN  IF c.err # "" THEN [err |-> c.err]
        ELSE IF \E i \in all : c.nodes[i].op = "repeat" /\ NullableNode(c.nodes, c.nodes[i].kids[1]) THEN [err |-> "nullable child"]
        ELSE IF \E i \in all : Height(c.nodes, i) > c.limits.depth THEN [err |-> "resource"]
        ELSE p
CompilePattern(toks, limits) ==
    LET c == ParseExpression([toks |-> toks, pos |-> 1, nodes |-> <<EmptyNode, EpsilonNode>>, limits |-> limits,
                         id |-> EmptyId, err |-> ""], 1)
    IN  Restored(IF More(c) THEN Failed(c, "syntax") ELSE c)

------------------------------------------------------------------------------
(* The arena a of one match: residuals [op, a, b, lo, hi, null] (a class's *)
(* a is its node), transitions, limits, the id last made.                  *)
Residual(op, a, b, lo, hi, null) == [op |-> op, a |-> a, b |-> b, lo |-> lo, hi |-> hi, null |-> null]
NewArena(limits) ==
    [nodes |-> <<Residual("empty", 0, 0, 0, 0, FALSE), Residual("epsilon", 0, 0, 0, 0, TRUE)>>,
     trans |-> <<>>, limits |-> limits, id |-> EmptyId, err |-> ""]
(* Which interval between the ends of the ranges a rune is in.             *)
Endpoints(nodes) == UNION {UNION {{nodes[i].ranges[j][1], nodes[i].ranges[j][2] + 1} : j \in DOMAIN nodes[i].ranges} : i \in DOMAIN nodes}
SymbolOf(nodes, r) == LET below == {e \in Endpoints(nodes) : e <= r} IN
                      IF below = {} THEN -1 ELSE CHOOSE e \in below : \A d \in below : d <= e

PutResidual(a, n) ==
    IF a.err # "" THEN a
    ELSE IF \E i \in DOMAIN a.nodes : a.nodes[i] = n THEN Giving(a, SelectInSeq(a.nodes, LAMBDA x : x = n))
    ELSE IF Len(a.nodes) = a.limits.nodes THEN Failed(a, "nodes")
    ELSE [a EXCEPT !.nodes = Append(@, n), !.id = Len(a.nodes) + 1]
RepResidual(a, x, lo, hi) ==
    IF hi = 0 \/ x = EpsilonId \/ (x = EmptyId /\ lo = 0) THEN Giving(a, EpsilonId)
    ELSE IF x = EmptyId THEN Giving(a, EmptyId)
    ELSE IF lo = 1 /\ hi = 1 THEN Giving(a, x)
    ELSE PutResidual(a, Residual("repeat", x, 0, lo, hi, lo = 0))

RECURSIVE Leaves(_, _), SeqResidual(_, _, _), AltResidual(_, _, _), MergeTerms(_, _), AltPairwise(_, _)
Leaves(a, id) == LET n == a.nodes[id] IN IF n.op = "alt" THEN Leaves(a, n.a) \o Leaves(a, n.b) ELSE <<id>>
SortedTerms(terms) ==
    LET sorted == SortSeq(terms, LAMBDA x, y : x < y)
        new(i) == i = 1 \/ sorted[i - 1] # sorted[i]
    IN  [i \in 1 .. Cardinality(ToSet(terms)) |-> sorted[CHOOSE j \in DOMAIN sorted : new(j) /\ Cardinality({k \in 1 .. j : new(k)}) = i]]
SeqResidual(a, x, y) ==
    LET n == a.nodes[x]
        inner == SeqResidual(a, n.b, y)
        l == SeqResidual(a, n.a, y)
        r == SeqResidual(l, n.b, y)
    IN  CASE a.err # "" -> a
          [] EmptyId \in {x, y} -> Giving(a, EmptyId)
          [] x = EpsilonId -> Giving(a, y)
          [] y = EpsilonId -> Giving(a, x)
          [] n.op = "concat" -> SeqResidual(inner, n.a, inner.id)
          [] n.op = "alt" -> AltResidual(r, l.id, r.id)
          [] OTHER -> PutResidual(a, Residual("concat", x, y, 0, 0, n.null /\ a.nodes[y].null))

(* Two terms that are one: the same head, or counts that meet.             *)
Meet(l, r) == /\ r.hi = Unbounded \/ l.lo - 1 <= r.hi
              /\ l.hi = Unbounded \/ r.lo - 1 <= l.hi
SameHead(l, r) == l.op = "concat" /\ r.op = "concat" /\ l.a = r.a
SameBody(l, r) == l.op = "repeat" /\ r.op = "repeat" /\ l.a = r.a /\ Meet(l, r)
Merged(a, l, r) ==
    LET tails == AltResidual(a, l.b, r.b)
        hi == IF Unbounded \in {l.hi, r.hi} THEN Unbounded ELSE IF l.hi > r.hi THEN l.hi ELSE r.hi
    IN  IF SameHead(l, r) THEN SeqResidual(tails, l.a, tails.id)
        ELSE RepResidual(a, l.a, IF l.lo < r.lo THEN l.lo ELSE r.lo, hi)
MergeTerms(a, terms) ==
    LET pairs == {<<i, j>> \in (DOMAIN terms) \X (DOMAIN terms) :
                    /\ i < j
                    /\ LET l == a.nodes[terms[i]]
                           r == a.nodes[terms[j]]
                       IN  SameHead(l, r) \/ SameBody(l, r)}
        p == CHOOSE q \in pairs : \A o \in pairs : q[1] < o[1] \/ (q[1] = o[1] /\ q[2] <= o[2])
        d == Merged(a, a.nodes[terms[p[1]]], a.nodes[terms[p[2]]])
    IN  IF pairs = {} \/ a.err # "" THEN [a |-> a, terms |-> terms]
        ELSE MergeTerms(d, RemoveAt([terms EXCEPT ![p[1]] = d.id], p[2]))
AltPairwise(a, terms) ==
    LET pair(w, i) ==
          LET x == terms[2 * i - 1]
              y == terms[2 * i]
              d == PutResidual(w.a, Residual("alt", x, y, 0, 0, w.a.nodes[x].null \/ w.a.nodes[y].null))
          IN  IF 2 * i > Len(terms) THEN [w EXCEPT !.out = Append(@, x)] ELSE [a |-> d, out |-> Append(w.out, d.id)]
        half == FoldLeft(pair, [a |-> a, out |-> <<>>], [i \in 1 .. (Len(terms) + 1) \div 2 |-> i])
    IN  IF Len(terms) = 1 THEN Giving(a, terms[1]) ELSE AltPairwise(half.a, half.out)
AltResidual(a, x, y) ==
    LET out == MergeTerms(a, SortedTerms(Leaves(a, x) \o Leaves(a, y))) IN
    CASE a.err # "" -> a
      [] x = EmptyId \/ x = y -> Giving(a, y)
      [] y = EmptyId -> Giving(a, x)
      [] OTHER -> IF out.a.err # "" THEN out.a ELSE AltPairwise(out.a, SortedTerms(out.terms))

RECURSIVE Derive(_, _, _, _)
Derive(nodes, a, id, symbol) ==
    LET n == a.nodes[id]
        l == Derive(nodes, a, n.a, symbol)
        r == Derive(nodes, l, n.b, symbol)
        here == SeqResidual(l, l.id, n.b)
        there == Derive(nodes, here, n.b, symbol)
        again == RepResidual(l, n.a, IF n.lo = 0 THEN 0 ELSE n.lo - 1, IF n.hi = Unbounded THEN n.hi ELSE n.hi - 1)
        out == CASE n.op \in {"empty", "epsilon"} -> Giving(a, EmptyId)
                 [] n.op = "class" -> Giving(a, IF symbol >= 0 /\ ContainsRune(nodes[n.a].ranges, symbol) THEN EpsilonId ELSE EmptyId)
                 [] n.op = "alt" -> AltResidual(r, l.id, r.id)
                 [] n.op = "concat" -> IF a.nodes[n.a].null THEN AltResidual(there, here.id, there.id) ELSE here
                 [] n.op = "repeat" -> SeqResidual(again, l.id, again.id)
    IN  IF a.err # "" THEN a
        ELSE IF <<id, symbol>> \in DOMAIN a.trans THEN Giving(a, a.trans[<<id, symbol>>])
        ELSE IF out.err # "" THEN out
        ELSE IF Cardinality(DOMAIN out.trans) = out.limits.transitions THEN Failed(out, "transitions")
        ELSE [out EXCEPT !.trans = (<<id, symbol>> :> out.id) @@ @]

(* The program as residuals, its counts cut to what the value can hold.    *)
Clipped(p, n, count) ==
    LET room == count \div p.minimum[n.kids[1]] IN IF n.max # Unbounded /\ n.max < room THEN n.max ELSE Unbounded
RECURSIVE Specialize(_, _, _, _)
Specialize(p, a, id, count) ==
    LET n == p.nodes[id]
        l == Specialize(p, a, n.kids[1], count)
        r == Specialize(p, l, n.kids[2], count)
    IN  IF p.minimum[id] > count \/ a.err # "" THEN Giving(a, EmptyId)
        ELSE CASE n.op = "empty" -> Giving(a, EmptyId)
               [] n.op = "epsilon" -> Giving(a, EpsilonId)
               [] n.op = "class" -> PutResidual(a, Residual("class", id, 0, 0, 0, FALSE))
               [] n.op = "alt" -> AltResidual(r, l.id, r.id)
               [] n.op = "concat" -> SeqResidual(r, l.id, r.id)
               [] n.op = "repeat" -> RepResidual(l, l.id, n.min, Clipped(p, n, count))
SpecializedNodes(p, count) ==
    [i \in DOMAIN p.nodes |->
       LET n == p.nodes[i] IN
       IF p.minimum[i] > count THEN EmptyNode
       ELSE IF n.op = "repeat" THEN [n EXCEPT !.max = Clipped(p, n, count)] ELSE n]

(* External: the native engine matches the whole value, exactly.           *)
RECURSIVE NativeMatches(_, _, _)
NativeMatches(nodes, id, w) ==
    LET n == nodes[id]
        part(i) == SubSeq(w, 1, i)
        rest(i) == SubSeq(w, i + 1, Len(w))
        less == [n EXCEPT !.min = IF @ = 0 THEN 0 ELSE @ - 1, !.max = IF @ = Unbounded THEN @ ELSE @ - 1]
    IN  CASE n.op = "empty" -> FALSE
          [] n.op = "epsilon" -> w = <<>>
          [] n.op = "class" -> Len(w) = 1 /\ ContainsRune(n.ranges, w[1])
          [] n.op = "alt" -> \E k \in ToSet(n.kids) : NativeMatches(nodes, k, w)
          [] n.op = "concat" -> \E i \in 0 .. Len(w) : NativeMatches(nodes, n.kids[1], part(i)) /\ NativeMatches(nodes, n.kids[2], rest(i))
          [] n.op = "repeat" -> \/ w = <<>> /\ n.min = 0
                                \/ n.max # 0 /\ \E i \in 1 .. Len(w) : /\ NativeMatches(nodes, n.kids[1], part(i))
                                                                          /\ NativeMatches([nodes EXCEPT ![id] = less], id, rest(i))

------------------------------------------------------------------------------
NoProgram == [err |-> "none"]
PatternsIdle ==
    pphase = "idle" /\ compiled = NoProgram /\ arena = NoProgram /\ residual = EmptyId
    /\ word = <<>> /\ derived = 0 /\ verdict = "none"

AskPattern ==
    /\ Unasked /\ \E p \in PatternPrograms : Ask("patterns", p)
    /\ pphase' = "compile"
    /\ UNCHANGED <<compiled, arena, residual, word, derived, verdict>>

Compile ==
    /\ pphase = "compile"
    /\ compiled' = Compute("CompilePattern", <<probe.question.toks, probe.question.compile>>)
    /\ pphase' = IF compiled'.err = "" THEN "ready" ELSE IF probe.question.vendor THEN "unenforced" ELSE "refused"
    /\ UNCHANGED <<probe, arena, residual, word, derived, verdict>>

Answer(matched) == pphase' = "matched" /\ verdict' = IF matched # probe.question.inverted THEN "valid" ELSE "invalid"
ClassOf(p) ==
    LET n == p.nodes[p.root] IN
    IF n.op = "repeat" THEN [class |-> p.nodes[n.kids[1]], lo |-> n.min, hi |-> n.max] ELSE [class |-> n, lo |-> 1, hi |-> 1]
NativeAllowed(p, count, limits) == p.native /\ Eligible(Instructions(p.nodes, p.root), count, limits)

MatchWord ==
    /\ pphase = "ready"
    /\ \E w \in probe.question.words :
         LET count == Len(w)
             p == compiled
             only == ClassOf(p)
             a == Specialize(p, NewArena(probe.question.match), p.root, count)
         IN  /\ word' = w
             /\ IF p.minimum[p.root] > count THEN Answer(FALSE) /\ UNCHANGED <<arena, residual>>
                ELSE IF count = 0 THEN Answer(p.nullable[p.root]) /\ UNCHANGED <<arena, residual>>
                ELSE IF only.class.op = "class"
                THEN /\ Answer(/\ only.lo <= count /\ (only.hi = Unbounded \/ count <= only.hi)
                               /\ \A i \in 1 .. count : ContainsRune(only.class.ranges, w[i]))
                     /\ UNCHANGED <<arena, residual>>
                ELSE IF NativeAllowed(p, count, probe.question.match)
                THEN Answer(NativeMatches(p.nodes, p.root, w)) /\ UNCHANGED <<arena, residual>>
                ELSE pphase' = "derive" /\ arena' = a /\ residual' = a.id /\ UNCHANGED verdict
    /\ UNCHANGED <<probe, compiled, derived>>

DeriveRune ==
    /\ pphase = "derive" /\ arena.err = "" /\ derived < Len(word)
    /\ arena' = Compute("Derive", <<compiled.nodes, arena, residual, SymbolOf(compiled.nodes, word[derived + 1])>>)
    /\ residual' = arena'.id
    /\ derived' = derived + 1
    /\ IF arena'.err = "" /\ arena'.id = EmptyId THEN Answer(FALSE) ELSE UNCHANGED <<pphase, verdict>>
    /\ UNCHANGED <<probe, compiled, word>>

EndOfWord ==
    /\ pphase = "derive" /\ arena.err = "" /\ derived = Len(word)
    /\ Answer(arena.nodes[residual].null)
    /\ UNCHANGED <<probe, compiled, arena, residual, word, derived>>

(* The derivatives have exceeded a limit: the native engine, if it may.    *)
FallBack ==
    /\ pphase = "derive" /\ arena.err # ""
    /\ LET nodes == SpecializedNodes(compiled, Len(word)) IN
       IF Eligible(Instructions(nodes, compiled.root), Len(word), probe.question.match)
       THEN Answer(NativeMatches(nodes, compiled.root, word))
       ELSE pphase' = "error" /\ UNCHANGED verdict
    /\ UNCHANGED <<probe, compiled, arena, residual, word, derived>>

PatternsNext == AskPattern \/ Compile \/ MatchWord \/ DeriveRune \/ EndOfWord \/ FallBack

------------------------------------------------------------------------------
(* What an expression means: [k, ..] as the schema's author thinks of it.  *)
RECURSIVE Denotes(_, _)
Denotes(e, w) ==
    LET part(i) == SubSeq(w, 1, i)
        rest(i) == SubSeq(w, i + 1, Len(w))
        fewer == [e EXCEPT !.lo = IF @ = 0 THEN 0 ELSE @ - 1, !.hi = IF @ = Unbounded THEN @ ELSE @ - 1]
    IN  CASE e.k = "set" -> Len(w) = 1 /\ w[1] \in e.runes
          [] e.k = "or" -> \E x \in ToSet(e.of) : Denotes(x, w)
          [] e.k = "then" -> IF e.of = <<>> THEN w = <<>>
                             ELSE \E i \in 0 .. Len(w) : Denotes(Head(e.of), part(i)) /\ Denotes([e EXCEPT !.of = Tail(@)], rest(i))
          [] e.k = "times" -> \/ e.lo = 0 /\ w = <<>>
                              \/ e.hi # 0 /\ \E i \in 0 .. Len(w) : /\ (i = 0 => e.lo > 0)
                                                                   /\ Denotes(e.of[1], part(i)) /\ Denotes(fewer, rest(i))

RECURSIVE ResidualAccepts(_, _, _)
ResidualAccepts(a, id, w) ==
    LET n == a.nodes[id]
        part(i) == SubSeq(w, 1, i)
        rest(i) == SubSeq(w, i + 1, Len(w))
        less == [n EXCEPT !.lo = IF @ = 0 THEN 0 ELSE @ - 1, !.hi = IF @ = Unbounded THEN @ ELSE @ - 1]
    IN  CASE n.op = "empty" -> FALSE
          [] n.op = "epsilon" -> w = <<>>
          [] n.op = "class" -> Len(w) = 1 /\ ContainsRune(compiled.nodes[n.a].ranges, w[1])
          [] n.op = "alt" -> ResidualAccepts(a, n.a, w) \/ ResidualAccepts(a, n.b, w)
          [] n.op = "concat" -> \E i \in 0 .. Len(w) : ResidualAccepts(a, n.a, part(i)) /\ ResidualAccepts(a, n.b, rest(i))
          [] n.op = "repeat" -> \/ w = <<>> /\ n.lo = 0
                                \/ n.hi # 0 /\ \E i \in 1 .. Len(w) : /\ ResidualAccepts(a, n.a, part(i))
                                                                     /\ ResidualAccepts([a EXCEPT !.nodes[id] = less], id, rest(i))

(* A well-formed pattern is compiled unless it exceeds a limit (not when   *)
(* there is room for it, always when it nests deeper than the limit on     *)
(* depth), an ill-formed one never, and a value is valid exactly when the  *)
(* whole of it is in the pattern's language, whichever engine answers; at  *)
(* every rune the residual accepts what is left exactly when the value is  *)
(* in the language; no answer is given when no engine may run (Compile,    *)
(* Restore, MatchStringWithLimits, derive, EvaluatePattern).               *)
PatternExact ==
    LET in == probe.question
        meant == Denotes(in.means, word)
    IN  /\ pphase \in {"refused", "unenforced"} =>
             compiled.err = (IF in.wellformed THEN "resource" ELSE "syntax") /\ in.room # "enough"
        /\ pphase \in {"ready", "derive", "matched"} => in.wellformed /\ in.room # "none"
        /\ pphase = "ready" =>
             LET lengths == {Len(v) : v \in {u \in in.words : Denotes(in.means, u)}} IN
             /\ \A n \in lengths : compiled.minimum[compiled.root] <= n
             /\ compiled.nullable[compiled.root] = Denotes(in.means, <<>>)
        /\ pphase = "derive" /\ arena.err = "" =>
             ResidualAccepts(arena, residual, SubSeq(word, derived + 1, Len(word))) = meant
        /\ pphase = "matched" => verdict = IF meant # in.inverted THEN "valid" ELSE "invalid"
        /\ pphase = "error" => in.tight
=============================================================================
