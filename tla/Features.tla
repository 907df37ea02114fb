------------------------------ MODULE Features ------------------------------
(***************************************************************************)
(* if-feature (go/cambium, schema_iffeature.go): the recursive-descent     *)
(* parser of expressions, which looks every feature up while it parses,    *)
(* and what the rebuild remembers of the features it has looked up.        *)
(*                                                                         *)
(* A program has sources (modules and submodules), statements, some of     *)
(* which define a feature, with their if-feature expressions, and the      *)
(* features that are enabled.  An expression is a sequence of tokens.      *)
(***************************************************************************)
EXTENDS Probe, SequencesExt

CONSTANT FeaturePrograms

VARIABLES gphase,      \* "validate", "include", or how the rebuild ended
          statements,  \* the statements left of the phase
          validFeatures,   \* features known to resolve
          featureEnabled,  \* features known to be enabled or not
          faulted,     \* the modules with a schema error
          included     \* statement -> whether it is part of the schema
gvars == <<gphase, statements, validFeatures, featureEnabled, faulted, included>>

Word(tok) == tok.word
Feature(st) == <<st.mod, st.feature>>
Defining(p, f) == {st \in ToSet(p.stmts) : st.feature # "" /\ Feature(st) = f}
Single(expr) == Len(expr) = 1 /\ Word(expr[1]) = "ref"

------------------------------------------------------------------------------
(* Where a reference in source src leads, and what it may see from there.  *)
FeatureModule(p, src, q) ==
    IF q.prefix \in {"", p.sources[src].prefix} THEN {p.sources[src].mod}
    ELSE {p.sources[src].imports[q.prefix] : x \in {q.prefix} \cap DOMAIN p.sources[src].imports}

RECURSIVE SubmoduleIncludes(_, _, _, _)
SubmoduleIncludes(p, src, target, seen) ==
    src \in DOMAIN p.sources \ seen /\ \E inc \in p.sources[src].includes :
        inc = target \/ SubmoduleIncludes(p, inc, target, seen \cup {src})
DefinitionVisibleFrom(p, def, from) ==
    LET s == p.sources[from] IN
    \/ def = from \/ ~s.sub \/ s.v11
    \/ p.sources[def].sub /\ SubmoduleIncludes(p, from, def, {})

FeatureFor(p, src, q) ==
    {st \in UNION {Defining(p, <<m, q.name>>) : m \in FeatureModule(p, src, q)} :
        st.mod = p.sources[src].mod => DefinitionVisibleFrom(p, st.src, src)}

------------------------------------------------------------------------------
(* The parser.  c: the program, the source, the tokens, the features being *)
(* resolved, and whether the references are only validated.  r: position,  *)
(* whether all went well, value, and what is remembered.                   *)
Peek(c, r, word) == r.pos <= Len(c.toks) /\ Word(c.toks[r.pos]) = word
Skip(r) == [r EXCEPT !.pos = @ + 1]
Bad(r) == [r EXCEPT !.ok = FALSE, !.val = FALSE]
Start(r) == [r EXCEPT !.ok = TRUE, !.val = TRUE, !.pos = 1]

RECURSIVE ParseOr(_, _), ParseOrRest(_, _), ParseAnd(_, _), ParseAndRest(_, _), ParseNot(_, _), ParsePrimary(_, _),
          IfFeatures(_, _, _, _)

MemoByName(st) == st.feature
MemoOf(st) == Feature(st)
ResolveFeature(c, r, q) ==  \* validateFeatureRefSeen, featureEnabledSeen
    LET found == FeatureFor(c.p, c.src, q)
        st == CHOOSE x \in found : TRUE
        off == ~c.only /\ st.feature \notin c.p.enabled[st.mod]
        known == IF c.only THEN MemoOf(st) \in r.valid ELSE MemoOf(st) \in DOMAIN r.enabled
        all == IfFeatures([c EXCEPT !.src = st.src, !.resolving = @ \cup {Feature(st)}], Start(r), st.iffs, 1)
        remembered == IF c.only THEN [all EXCEPT !.valid = @ \cup {MemoOf(st)}]
                      ELSE [all EXCEPT !.enabled = (MemoOf(st) :> all.val) @@ @]
    IN  IF found = {} THEN Bad(r)
        ELSE IF off THEN [r EXCEPT !.val = FALSE]
        ELSE IF Feature(st) \in c.resolving THEN Bad(r)
        ELSE IF known THEN [r EXCEPT !.val = c.only \/ r.enabled[MemoOf(st)]]
        ELSE [(IF all.ok THEN remembered ELSE Bad(all)) EXCEPT !.pos = r.pos]

Expression(c, r) ==
    LET out == ParseOr(c, r) IN IF out.ok /\ out.pos = Len(c.toks) + 1 THEN out ELSE Bad(out)

(* All the if-features of a feature; the first that is not holds ends it.  *)
IfFeatures(c, r, iffs, i) ==
    LET out == Expression([c EXCEPT !.toks = iffs[i]], Start(r)) IN
    IF i > Len(iffs) THEN r
    ELSE IF ~out.ok \/ (~c.only /\ ~out.val) THEN out
    ELSE IfFeatures(c, out, iffs, i + 1)

ParsePrimary(c, r) ==
    LET inner == ParseOr(c, Skip(r)) IN
    IF Peek(c, r, "ref") THEN ResolveFeature(c, [Skip(r) EXCEPT !.val = TRUE], c.toks[r.pos].q)
    ELSE IF Peek(c, r, "(") /\ inner.ok /\ Peek(c, inner, ")") THEN Skip(inner)
    ELSE IF Peek(c, r, "(") THEN Bad(inner) ELSE Bad(r)

ParseNot(c, r) ==
    LET inner == ParseNot(c, Skip(r)) IN
    IF Peek(c, r, "not") THEN [inner EXCEPT !.val = ~@] ELSE ParsePrimary(c, r)

ParseAnd(c, r) == ParseAndRest(c, ParseNot(c, r))
ParseAndRest(c, left) ==
    LET right == ParseNot(c, Skip(left)) IN
    IF left.ok /\ Peek(c, left, "and") THEN ParseAndRest(c, [right EXCEPT !.val = @ /\ left.val]) ELSE left

ParseOr(c, r) == ParseOrRest(c, ParseAnd(c, r))
ParseOrRest(c, left) ==
    LET right == ParseAnd(c, Skip(left)) IN
    IF left.ok /\ Peek(c, left, "or") THEN ParseOrRest(c, [right EXCEPT !.val = @ \/ left.val]) ELSE left

------------------------------------------------------------------------------
FeaturesIdle ==
    /\ gphase = "idle" /\ statements = <<>> /\ validFeatures = {} /\ featureEnabled = <<>>
    /\ faulted = {} /\ included = <<>>

Remembered == [ok |-> TRUE, val |-> TRUE, pos |-> 1, valid |-> validFeatures, enabled |-> featureEnabled]
On(st, only) == [p |-> probe.question, src |-> st.src, toks |-> <<>>, resolving |-> {}, only |-> only]
Remember(r) == validFeatures' = r.valid /\ featureEnabled' = r.enabled

AskFeatures ==
    /\ Unasked
    /\ \E p \in FeaturePrograms :
        /\ Ask("features", p)
        /\ statements' = p.stmts
        /\ gphase' = IF \E m \in DOMAIN p.enabled : \E f \in p.enabled[m] : Defining(p, <<m, f>>) = {}
                     THEN "unknown feature" ELSE "validate"
    /\ UNCHANGED <<validFeatures, featureEnabled, faulted, included>>

(* Every if-feature of every statement; one fault is enough for a module.  *)
ValidateStatement ==
    /\ gphase = "validate" /\ statements # <<>>
    /\ LET st == Head(statements)
           out == Compute("IfFeatures", <<On(st, TRUE), Remembered, st.iffs, 1>>)
           old == \E e \in ToSet(st.iffs) : ~probe.question.sources[st.src].v11 /\ ~Single(e)
       IN  IF st.mod \in faulted THEN UNCHANGED <<validFeatures, featureEnabled, faulted>>
           ELSE /\ Remember(out)
                /\ faulted' = IF out.ok /\ ~old THEN faulted ELSE faulted \cup {st.mod}
    /\ statements' = Tail(statements)
    /\ UNCHANGED <<probe, gphase, included>>

FeatureIncluded ==
    /\ gphase = "include" /\ statements # <<>>
    /\ LET st == Head(statements)
           out == Compute("IfFeatures", <<On(st, FALSE), Remembered, st.iffs, 1>>)
           r == IF probe.question.retain THEN Remembered ELSE out
       IN  Remember(r) /\ included' = (st.id :> (r.ok /\ r.val)) @@ included
    /\ statements' = Tail(statements)
    /\ UNCHANGED <<probe, gphase, faulted>>

EndOfStatements ==
    /\ gphase \in {"validate", "include"} /\ statements = <<>>
    /\ gphase' = IF faulted # {} THEN "refused" ELSE IF gphase = "validate" THEN "include" ELSE "done"
    /\ statements' = IF gphase' = "include" THEN probe.question.stmts ELSE <<>>
    /\ UNCHANGED <<probe, validFeatures, featureEnabled, faulted, included>>

FeaturesNext == AskFeatures \/ ValidateStatement \/ FeatureIncluded \/ EndOfStatements

------------------------------------------------------------------------------
(* What an expression means: the weakest operator outside parentheses      *)
(* splits it.                                                              *)
Nesting(toks, i) ==
    Cardinality({j \in 1 .. i : Word(toks[j]) = "("}) - Cardinality({j \in 1 .. i : Word(toks[j]) = ")"})
Splits(toks, word) == {i \in DOMAIN toks : Word(toks[i]) = word /\ Nesting(toks, i) = 0}
Left(toks, i) == SubSeq(toks, 1, i - 1)
Right(toks, i) == SubSeq(toks, i + 1, Len(toks))

RECURSIVE WellFormed(_)
WellFormed(toks) ==
    \/ Single(toks)
    \/ toks # <<>> /\ Word(toks[1]) = "not" /\ WellFormed(Tail(toks))
    \/ Len(toks) > 2 /\ Word(toks[1]) = "(" /\ Word(Last(toks)) = ")" /\ WellFormed(Front(Tail(toks)))
    \/ \E i \in Splits(toks, "and") \cup Splits(toks, "or") : WellFormed(Left(toks, i)) /\ WellFormed(Right(toks, i))

RECURSIVE Means(_, _, _), IsOn(_, _)
Means(p, src, toks) ==
    LET either == Splits(toks, "or")
        both == Splits(toks, "and")
    IN  IF either # {} THEN \E i \in either : Means(p, src, Left(toks, i)) \/ Means(p, src, Right(toks, i))
        ELSE IF both # {} THEN \A i \in both : Means(p, src, Left(toks, i)) /\ Means(p, src, Right(toks, i))
        ELSE IF Word(toks[1]) = "not" THEN ~Means(p, src, Tail(toks))
        ELSE IF Word(toks[1]) = "(" THEN Means(p, src, Front(Tail(toks)))
        ELSE \A st \in FeatureFor(p, src, toks[1].q) : IsOn(p, st)
IsOn(p, st) == st.feature \in p.enabled[st.mod] /\ \A e \in ToSet(st.iffs) : Means(p, st.src, e)

Named(p, st) ==
    UNION {UNION {FeatureFor(p, st.src, e[i].q) : i \in {j \in DOMAIN e : Word(e[j]) = "ref"}} : e \in ToSet(st.iffs)}
RECURSIVE Needed(_, _)
Needed(p, sts) == LET more == sts \cup UNION {Named(p, st) : st \in sts} IN IF more = sts THEN sts ELSE Needed(p, more)
Faulty(p, st) ==
    \/ \E e \in ToSet(st.iffs) : \/ ~WellFormed(e) \/ (~p.sources[st.src].v11 /\ ~Single(e))
                                 \/ \E i \in DOMAIN e : Word(e[i]) = "ref" /\ FeatureFor(p, st.src, e[i].q) = {}
    \/ \E f \in Needed(p, Named(p, st)) : f \in Needed(p, Named(p, f))

(* A statement is in the schema exactly if its expressions hold for the    *)
(* enabled features, each of which counts only while its own expressions   *)
(* do, however the looked-up features are remembered and from whichever    *)
(* module or submodule they are first looked up; and a rebuild is refused  *)
(* exactly for an expression that is not well formed, refers to a feature  *)
(* that is not there or not visible, or reaches a feature that depends on  *)
(* itself (validateFeatureRefSeen, featureEnabledSeen, featureIncluded).   *)
FeaturesExact ==
    LET p == probe.question IN
    /\ gphase = "done" =>
        \A st \in ToSet(p.stmts) :
            /\ ~Faulty(p, st)
            /\ included[st.id] = (p.retain \/ \A e \in ToSet(st.iffs) : Means(p, st.src, e))
    /\ gphase = "refused" => \E st \in ToSet(p.stmts) : Faulty(p, st)
=============================================================================
