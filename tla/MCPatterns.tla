----------------------------- MODULE MCPatterns -----------------------------
(***************************************************************************)
(* The patterns: expressions written out with as many groups as they need, *)
(* classes with ranges, negation and subtraction, ill-formed texts, and    *)
(* limits that leave the match to each of the engines.                     *)
(* Runes: 0 newline, 1 "-", 2 "^", 3 .. 5 the letters a, b, c.             *)
(* Not asked: "^" and "." as literals of a class.                          *)
(***************************************************************************)
EXTENDS Patterns

PtTok(op) == [op |-> op]
PtLit(r) == [op |-> "lit", r |-> r]
PtCount(lo, hi) == [op |-> "count", lo |-> lo, hi |-> hi]
PtSpace == [op |-> "escape", single |-> FALSE, ranges |-> <<<<0, 0>>>>]
PtDash == [op |-> "escape", single |-> TRUE, r |-> 1, ranges |-> <<<<1, 1>>>>]

(* An expression, and how it is written.                                   *)
PtSet(runes, toks) == [k |-> "set", runes |-> runes, toks |-> toks]
PtA == PtSet({3}, <<PtLit(3)>>)
PtB == PtSet({4}, <<PtLit(4)>>)
PtAB == PtSet({3, 4}, <<PtTok("["), PtLit(3), PtLit(1), PtLit(4), PtTok("]")>>)
PtThen(of) == [k |-> "then", of |-> of]
PtOr(x, y) == [k |-> "or", of |-> <<x, y>>]
PtTimes(x, lo, hi) == [k |-> "times", of |-> <<x>>, lo |-> lo, hi |-> hi]

PtGroup(toks) == <<PtTok("(")>> \o toks \o <<PtTok(")")>>
RECURSIVE PtWritten(_)
PtWritten(e) ==
    LET in(x) == IF x.k = "set" THEN PtWritten(x) ELSE PtGroup(PtWritten(x)) IN
    CASE e.k = "set" -> e.toks
      [] e.k = "then" -> Concat([i \in DOMAIN e.of |-> IF e.of[i].k = "or" THEN in(e.of[i]) ELSE PtWritten(e.of[i])])
      [] e.k = "or" -> PtWritten(e.of[1]) \o <<PtTok("|")>> \o PtWritten(e.of[2])
      [] e.k = "times" -> in(e.of[1]) \o <<CASE e.lo = 0 /\ e.hi = 1 -> PtTok("?") [] e.lo = 0 /\ e.hi = Unbounded -> PtTok("*")
                                              [] e.lo = 1 /\ e.hi = Unbounded -> PtTok("+") [] OTHER -> PtCount(e.lo, e.hi)>>

PtOnce == {PtTimes(PtA, 2, 2), PtTimes(PtA, 0, 1), PtThen(<<PtA, PtB>>), PtOr(PtA, PtThen(<<PtB, PtA>>)),
           PtThen(<<PtTimes(PtA, 0, Unbounded), PtTimes(PtB, 0, 1)>>), PtOr(PtThen(<<>>), PtAB)}
PtBounds == {<<0, 1>>, <<2, 2>>, <<2, Unbounded>>}
PtExpressions ==
    {PtTimes(x, b[1], b[2]) : x \in PtOnce \cup {PtTimes(PtB, 2, 3), PtTimes(PtA, 0, 2), PtThen(<<>>)}, b \in PtBounds}
    \cup {PtOr(PtThen(<<PtTimes(PtA, l, 1), PtB>>), PtThen(<<PtTimes(PtA, 2, 3), x>>)) : l \in {0, 1}, x \in {PtA, PtB}}
    \cup {PtThen(<<x, PtOr(x, PtB), PtA>>) : x \in PtOnce} \cup {PtTimes(PtThen(<<>>), 0, 0)}
    \cup {PtTimes(PtOr(x, PtTimes(PtA, 3, 4)), 1, 3) : x \in PtOnce}

PtShort == {<<>>, <<3>>, <<3, 3>>, <<3, 4>>, <<4, 3>>, <<3, 3, 3>>, <<3, 3, 4>>, <<3, 4, 3>>}
PtWords(runes, max) == UNION {[1 .. n -> runes] : n \in 0 .. max}
PtLimits(nodes, transitions, instructions) ==
    [nodes |-> nodes, transitions |-> transitions, instructions |-> instructions, nativeWork |-> 8 * instructions]
PtRoomy == PtLimits(100, 100, 100)
PtProgram(toks, means) ==
    [toks |-> toks, means |-> means, words |-> PtShort, wellformed |-> TRUE, room |-> "enough", inverted |-> FALSE, vendor |-> FALSE,
     tight |-> FALSE, compile |-> [nodes |-> 100, depth |-> 12], match |-> PtLimits(100, 100, 3)]
PtOf(e) == PtProgram(PtWritten(e), e)

(* Classes, by what is between the brackets.                               *)
PtBracket(toks) == <<PtTok("[")>> \o toks \o <<PtTok("]")>>
PtClass(toks, runes) ==
    [PtProgram(PtBracket(toks), PtSet(runes, <<>>)) EXCEPT !.words = PtWords(0 .. MaxRune, 1)]
PtNot == PtTok("^")
PtNested ==
    PtClass(<<PtNot, PtLit(4), PtLit(1)>> \o PtBracket(<<PtLit(3), PtLit(1), PtLit(5), PtLit(1)>> \o PtBracket(<<PtNot, PtLit(3)>>)), {0, 1, 2, 5})
PtClasses ==
    {PtClass(<<PtLit(3), PtLit(5)>>, {3, 5}), PtClass(<<PtLit(3), PtLit(1), PtLit(5)>>, 3 .. 5), PtClass(<<PtNot, PtLit(5), PtLit(3)>>, {0, 1, 2, 4}),
     PtClass(<<PtLit(1), PtLit(3)>>, {1, 3}), PtClass(<<PtLit(3), PtLit(1)>>, {1, 3}), PtClass(<<PtLit(3), PtLit(1), PtLit(4), PtLit(1), PtLit(5)>>, {1, 3, 4, 5}),
     PtClass(<<PtDash, PtLit(1), PtLit(4)>>, 1 .. 4), PtClass(<<PtSpace, PtLit(4)>>, {0, 4}), PtClass(<<PtNot, PtSpace>>, 1 .. 5),
     PtClass(<<PtLit(3), PtLit(1), PtLit(5), PtLit(1)>> \o PtBracket(<<PtLit(4)>>), {3, 5}),
     PtNested,
     PtClass(<<PtLit(3), PtLit(1)>> \o PtBracket(<<PtLit(3), PtLit(4)>>), {}),
     PtClass(<<PtNot, PtDash, PtLit(1), PtLit(5), PtSpace>>, {}),
     PtClass(<<PtLit(5), PtLit(3), PtLit(1), PtLit(4), PtLit(1)>> \o PtBracket(<<PtLit(3), PtSpace>>), {4, 5})}
PtBadClasses ==
    {<<>>, <<PtNot>>, <<PtLit(5), PtLit(1), PtLit(3)>>, <<PtSpace, PtLit(1), PtLit(3)>>, <<PtLit(3), PtLit(1), PtLit(1), PtLit(4)>>, <<PtLit(3)>> \o PtBracket(<<PtLit(4)>>),
     <<PtLit(1)>> \o PtBracket(<<PtLit(4)>>), <<PtLit(3), PtLit(1)>> \o PtBracket(<<PtLit(4)>>) \o <<PtLit(5)>>, <<PtLit(3), PtTok("[")>>}
PtIllFormed ==
    {PtBracket(c) : c \in PtBadClasses}
    \cup {<<PtTok("[")>>, <<PtTok("*")>>, <<PtLit(3), PtTok("?"), PtTok("+")>>, <<PtTok("("), PtLit(3)>>, <<PtLit(3), PtTok(")")>>,
          <<PtLit(3), PtCount(2, 1)>>, <<PtLit(3), PtTok("|"), PtCount(1, 1)>>, <<PtTok("]")>>, <<PtTok("("), PtTok(")"), PtTok("("), PtTok("|")>>}

PtLong == {<<3, 3>>, <<4, 3, 3>>, <<3, 4, 3, 4>>, <<3, 4, 3, 4, 3, 4>>, <<3, 4, 4, 3>>, <<4, 3, 3, 3>>}
PtTight == {PtThen(<<PtTimes(PtOr(PtA, PtThen(<<PtB, PtA>>)), 1, 2), PtTimes(PtA, 0, 1)>>), PtTimes(PtTimes(PtThen(<<PtA, PtB>>), 1, 2), 2, 3),
            PtTimes(PtTimes(PtThen(<<PtA, PtB>>), 0, 5), 1, 4)}
MCPatternPrograms ==
    {PtOf(e) : e \in PtExpressions} \cup PtClasses
    \cup {[PtOf(PtOr(PtA, PtThen(<<PtB, PtTimes(PtAB, 1, Unbounded)>>))) EXCEPT !.inverted = i, !.match = PtRoomy] : i \in BOOLEAN}
    \cup {[PtProgram(t, PtThen(<<>>)) EXCEPT !.wellformed = FALSE, !.room = "some", !.vendor = v] : t \in PtIllFormed, v \in BOOLEAN}
    \cup {[PtOf(e) EXCEPT !.room = "some", !.compile = [nodes |-> n, depth |-> d]] : e \in PtTight, n \in {5, 7}, d \in {3, 5}}
    \cup {[PtNested EXCEPT !.room = IF d = 4 THEN "enough" ELSE "none", !.compile.depth = d] : d \in {3, 4}}
    \cup {[PtOf(e) EXCEPT !.tight = TRUE, !.words = PtLong, !.match = PtLimits(r, t, i)] :
            e \in PtTight, r \in {2, 5, 100}, t \in {3, 100}, i \in {3, 100}}
=============================================================================
