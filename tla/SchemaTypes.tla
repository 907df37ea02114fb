----------------------------- MODULE SchemaTypes -----------------------------
(***************************************************************************)
(* Types of the schema IR (go/cambium, schema_types.go): typedefs looked up*)
(* by scope and resolved once, restrictions narrowed level by level,       *)
(* defaults checked against what the levels leave, and identities with the *)
(* identities derived from them.                                           *)
(*                                                                         *)
(* A name is written [prefix, name].  A type statement is [name, subs],    *)
(* subs giving its substatements by keyword, in order.  A scope is the     *)
(* sequence of statements, outermost first, that definitions may be in.    *)
(***************************************************************************)
EXTENDS DataValues, Functions, FiniteSetsExt

CONSTANTS TypePrograms,   \* the modules asked about
          AutoMax         \* the largest value of an enum and position of a bit

ASSUME AutoAssumption == AutoMax \in Nat \ {0}

VARIABLES tphase,         \* the pass the rebuild is in
          todo,           \* what is left of it
          typedefTypes,   \* the memo of a rebuild: typedef -> its type
          infos,          \* node -> its type and the defaults it keeps
          known           \* identities: their bases, what derives from them, which are resolved
yvars == <<tphase, todo, typedefTypes, infos, known>>

Refused == [base |-> "refused"]
Direct(st, keyword) == IF keyword \in DOMAIN st.subs THEN st.subs[keyword] ELSE <<>>
Has(st, keyword) == Direct(st, keyword) # <<>>

------------------------------------------------------------------------------
(* Names.                                                                  *)
ResolveSourceQNameModule(p, mod, prefix) ==
    IF prefix \in {"", mod} THEN {mod}
    ELSE IF prefix \in DOMAIN p.imports[mod] THEN {p.imports[mod][prefix]} ELSE {}

TypedefsIn(p, mod, scope, name) ==
    {t \in ToSet(p.typedefs) : t.mod = mod /\ t.scope = scope /\ t.name = name}
LookupScopedTypedef(p, mod, scope, name) ==
    LET at == {i \in 0 .. Len(scope) : TypedefsIn(p, mod, SubSeq(scope, 1, i), name) # {}}
    IN  IF at = {} THEN {} ELSE TypedefsIn(p, mod, SubSeq(scope, 1, Max(at)), name)
LookupTypedef(p, mod, scope, q) ==
    UNION {IF m = mod THEN LookupScopedTypedef(p, m, scope, q.name) ELSE TypedefsIn(p, m, <<>>, q.name) :
             m \in ResolveSourceQNameModule(p, mod, q.prefix)}

IdentityForQName(p, mod, q) ==
    {<<m, q.name>> : m \in ResolveSourceQNameModule(p, mod, q.prefix)} \cap DOMAIN p.identities
DirectBases(p, id) == UNION {IdentityForQName(p, id[1], b) : b \in ToSet(p.identities[id])}
RECURSIVE WithBases(_, _)
WithBases(p, ids) ==
    LET more == ids \cup UNION {DirectBases(p, i) : i \in ids} IN
    IF more = ids THEN ids ELSE WithBases(p, more)
IdentityDerivedFromAny(p, id, bases) == WithBases(p, {id}) \cap bases # {}
IdentityStrictlyDerivedFromAll(p, id, bases) ==
    bases # {} /\ \A b \in bases : b \in WithBases(p, DirectBases(p, id))

------------------------------------------------------------------------------
(* Bounds.  Integer bounds are numbers; the bounds of a length and of a    *)
(* decimal64 keep the words min and max.  A decimal is its digits scaled   *)
(* by frac.                                                                *)
Lit(n) == [lex |-> "num", val |-> n, frac |-> 0]
IntBases == {"i8", "u8", "i64", "u64"}
NoBound == [lex |-> "none", val |-> 0, frac |-> 0]

InheritedBound(b, parent) ==
    IF parent # <<>> /\ b.lex = "min" THEN Head(parent).min
    ELSE IF parent # <<>> /\ b.lex = "max" THEN Last(parent).max
    ELSE b

NormalizeBound(b, keyword, base, fd) ==
    LET kind == IF keyword = "length" THEN "u64" ELSE IF base = "decimal64" THEN "i64" ELSE base
        scale == IF base = "decimal64" THEN fd ELSE 0
        limit == Limits(kind)[IF b.lex = "min" THEN 1 ELSE 2]
    IN  IF b.lex # "num"
        THEN [lex |-> IF base \in IntBases THEN "num" ELSE b.lex, val |-> limit, frac |-> scale]
        ELSE IF b.frac <= scale /\ b.val * 10 ^ (scale - b.frac) \in ImplicitRange(kind)
        THEN [lex |-> "num", val |-> b.val * 10 ^ (scale - b.frac), frac |-> scale]
        ELSE NoBound

CompareBounds(a, b) ==
    IF a = b THEN 0
    ELSE IF a.lex = "min" \/ b.lex = "max" THEN -1
    ELSE IF a.lex = "max" \/ b.lex = "min" THEN 1
    ELSE Order(a.val, b.val)

(* The segments of a restriction, ascending and apart; <<>> is a refusal.  *)
SegmentBounds(expr, keyword, base, fd, parent) ==
    LET bound(b) == NormalizeBound(InheritedBound(b, parent), keyword, base, fd)
        out == [i \in DOMAIN expr |-> [min |-> bound(expr[i][1]), max |-> bound(expr[i][2])]]
        ok(i) == /\ NoBound \notin {out[i].min, out[i].max}
                 /\ CompareBounds(out[i].min, out[i].max) <= 0
                 /\ i > 1 => CompareBounds(out[i - 1].max, out[i].min) < 0
    IN  IF \A i \in DOMAIN expr : ok(i) THEN out ELSE <<>>

CoalesceAdjacentBounds(bounds) ==
    FoldLeft(LAMBDA out, next :
               IF out # <<>> /\ Last(out).max.val + 1 = next.min.val
               THEN Append(Front(out), [min |-> Last(out).min, max |-> next.max])
               ELSE Append(out, next),
             <<>>, bounds)
RangesWithin(bounds, derived) ==
    \A c \in ToSet(derived) : \E b \in ToSet(CoalesceAdjacentBounds(bounds)) :
        CompareBounds(b.min, c.min) <= 0 /\ CompareBounds(c.max, b.max) <= 0

(* The bounds a statement leaves of the bounds of the type it restricts.   *)
Narrowed(st, keyword, base, fd, parent) ==
    LET rs == SegmentBounds(Direct(st, keyword)[1], keyword, base, fd, parent)
        bad == Len(Direct(st, keyword)) > 1 \/ rs = <<>> \/ (parent # <<>> /\ ~RangesWithin(parent, rs))
    IN  IF ~Has(st, keyword) THEN [ok |-> TRUE, bounds |-> parent]
        ELSE [ok |-> ~bad, bounds |-> IF bad THEN <<>> ELSE rs]

------------------------------------------------------------------------------
(* Enums and bits: [name, val (<<>> when not written), feats].             *)
ValueRange(keyword) == (IF keyword = "enum" THEN -AutoMax - 1 ELSE 0) .. AutoMax

EnumValues(p, st, keyword) ==
    LET add(s, e) ==
          LET v == IF e.val = <<>> THEN s.next ELSE e.val[1] IN
          IF \/ v \notin ValueRange(keyword) \/ Len(e.val) > 1
             \/ \E o \in ToSet(s.out) : o.name = e.name \/ o.value = v
          THEN [s EXCEPT !.ok = FALSE]
          ELSE [s EXCEPT !.out = Append(@, [name |-> e.name, value |-> v, conditional |-> e.feats # {},
                                            disabled |-> ~(e.feats \subseteq p.features)]),
                         !.next = IF s.out = <<>> \/ v >= @ THEN v + 1 ELSE @]
    IN  FoldLeft(LAMBDA s, e : IF s.ok THEN add(s, e) ELSE s,
                 [ok |-> Has(st, keyword), out |-> <<>>, next |-> 0], Direct(st, keyword))

RestrictedEnumBitValues(p, mod, base, st, keyword) ==
    LET rs == Direct(st, keyword)
        of(r) == CHOOSE v \in ToSet(base) : v.name = r.name
        ok == /\ mod \in p.v11 /\ \A i, j \in DOMAIN rs : rs[i].name = rs[j].name => i = j
              /\ \A r \in ToSet(rs) : \E v \in ToSet(base) : v.name = r.name /\ r.val \in {<<>>, <<v.value>>}
    IN  IF rs = <<>> THEN [ok |-> TRUE, out |-> base]
        ELSE IF ~ok THEN [ok |-> FALSE, out |-> <<>>]
        ELSE [ok |-> TRUE, out |-> [i \in DOMAIN rs |->
                [of(rs[i]) EXCEPT !.disabled = @ \/ ~(rs[i].feats \subseteq p.features),
                                  !.conditional = @ \/ rs[i].feats # {}]]]

------------------------------------------------------------------------------
(* Types.                                                                  *)
BuiltinBases ==
    IntBases \cup {"string", "boolean", "decimal64", "empty", "binary", "bits", "enumeration", "identityref",
                   "instance-identifier", "leafref", "union"}
AllowedFor(keyword) ==
    CASE keyword = "base" -> {"identityref"}
      [] keyword = "bit" -> {"bits"}
      [] keyword = "enum" -> {"enumeration"}
      [] keyword = "fraction-digits" -> {"decimal64"}
      [] keyword = "length" -> {"string", "binary"}
      [] keyword = "path" -> {"leafref"}
      [] keyword = "pattern" -> {"string"}
      [] keyword = "range" -> IntBases \cup {"decimal64"}
      [] keyword = "require-instance" -> {"leafref", "instance-identifier"}
      [] keyword = "type" -> {"union"}
Placed(st, base) == \A k \in DOMAIN st.subs : Has(st, k) => base \in AllowedFor(k)

RangeKeyword(base) == IF base \in {"string", "binary"} THEN "length" ELSE "range"
EnumKeyword(base) == IF base = "bits" THEN "bit" ELSE "enum"
BasesNamed(p, mod, st) == [i \in DOMAIN Direct(st, "base") |-> IdentityForQName(p, mod, Direct(st, "base")[i])]
KnownBases(p, mod, st) == IsInjective(Direct(st, "base")) /\ {} \notin ToSet(BasesNamed(p, mod, st))

ApplyTypeRestrictions(p, mod, info, st) ==
    LET base == info.base
        req == Direct(st, "require-instance")
    IN  CASE base \in IntBases \cup {"decimal64", "string", "binary"} ->
               LET n == Narrowed(st, RangeKeyword(base), base, info.fd, info.bounds) IN
               IF n.ok THEN [info EXCEPT !.bounds = n.bounds, !.patterns = @ \o Direct(st, "pattern")] ELSE Refused
          [] base \in {"enumeration", "bits"} ->
               LET r == RestrictedEnumBitValues(p, mod, info.values, st, EnumKeyword(base)) IN
               IF r.ok THEN [info EXCEPT !.values = r.out] ELSE Refused
          [] base = "identityref" ->
               IF ~Has(st, "base") THEN info
               ELSE IF /\ KnownBases(p, mod, st)
                       /\ \A b \in UNION ToSet(BasesNamed(p, mod, st)) : IdentityDerivedFromAny(p, b, info.bases)
                    THEN [info EXCEPT !.bases = UNION ToSet(BasesNamed(p, mod, st))] ELSE Refused
          [] base \in {"leafref", "instance-identifier"} ->
               IF Len(req) > 1 THEN Refused
               ELSE IF req = <<>> THEN info ELSE [info EXCEPT !.require = req[1]]
          [] OTHER -> info

(* A built-in type other than a union.                                     *)
ParseBuiltin(p, mod, base, st) ==
    LET range == Narrowed(st, RangeKeyword(base), base, 0, <<>>)
        fds == Direct(st, "fraction-digits")
        scaled == Narrowed(st, "range", base, fds[1], <<>>)
        values == EnumValues(p, st, EnumKeyword(base))
        req == Direct(st, "require-instance")
        plain == [base |-> base, chain |-> <<>>]
        bounded(n, fd) == IF n.ok THEN plain @@ [bounds |-> n.bounds, fd |-> fd, patterns |-> Direct(st, "pattern")]
                          ELSE Refused
    IN  CASE base \in IntBases \cup {"string", "binary"} -> bounded(range, 0)
          [] base = "decimal64" -> IF Len(fds) # 1 \/ fds[1] \notin 1 .. 18 THEN Refused ELSE bounded(scaled, fds[1])
          [] base \in {"enumeration", "bits"} -> IF values.ok THEN plain @@ [values |-> values.out] ELSE Refused
          [] base = "identityref" ->
               IF /\ Has(st, "base") /\ KnownBases(p, mod, st)
                  /\ Len(Direct(st, "base")) > 1 => mod \in p.v11
               THEN plain @@ [bases |-> UNION ToSet(BasesNamed(p, mod, st))] ELSE Refused
          [] base \in {"leafref", "instance-identifier"} ->
               IF \/ Len(req) > 1 \/ (base = "leafref" /\ Len(Direct(st, "path")) # 1)
                  \/ (base = "leafref" /\ req # <<>> /\ mod \notin p.v11)
               THEN Refused
               ELSE plain @@ [require |-> req = <<>> \/ req[1], path |-> Direct(st, "path"), source |-> mod]
          [] OTHER -> plain

(* Parsing threads the memo: [memo, info].                                 *)
RECURSIVE ParseTypeSeen(_, _, _, _, _, _), ParseUnion(_, _, _, _, _, _)
KeyByName(td) == <<td.mod, td.name>>
MemoKey(td) == <<td.mod, td.scope, td.name>>
ResolveTypedefType(p, memo, seen, td) ==
    LET r == ParseTypeSeen(p, memo, seen, td.mod, td.scope, td.type) IN
    IF MemoKey(td) \in DOMAIN memo THEN [memo |-> memo, info |-> memo[MemoKey(td)]]
    ELSE IF r.info = Refused THEN r
    ELSE [r EXCEPT !.memo = (MemoKey(td) :> r.info) @@ @]

ParseTypeSeen(p, memo, seen, mod, scope, st) ==
    LET found == LookupTypedef(p, mod, scope, st.name)
        td == CHOOSE t \in found : TRUE
        r == ResolveTypedefType(p, memo, seen \cup {td}, td)
        named == [r.info EXCEPT !.chain = <<td.name>> \o @]
    IN  IF found # {}
        THEN IF td \in seen THEN [memo |-> memo, info |-> Refused]
             ELSE IF r.info = Refused \/ ~Placed(st, r.info.base) THEN [r EXCEPT !.info = Refused]
             ELSE [r EXCEPT !.info = ApplyTypeRestrictions(p, mod, named, st)]
        ELSE IF st.name.prefix # "" \/ st.name.name \notin BuiltinBases \/ ~Placed(st, st.name.name)
        THEN [memo |-> memo, info |-> Refused]
        ELSE IF st.name.name = "union" THEN ParseUnion(p, memo, seen, mod, scope, st)
        ELSE [memo |-> memo, info |-> ParseBuiltin(p, mod, st.name.name, st)]

ParseUnion(p, memo, seen, mod, scope, st) ==
    LET add(s, member) ==
          LET r == ParseTypeSeen(p, s.memo, seen, mod, scope, member)
              refused == r.info = Refused \/ (mod \notin p.v11 /\ r.info.base \in {"empty", "leafref"})
          IN  IF s.info = Refused THEN s
              ELSE [memo |-> r.memo,
                    info |-> IF refused THEN Refused ELSE [s.info EXCEPT !.members = Append(@, r.info)]]
        none == IF Has(st, "type") THEN [base |-> "union", chain |-> <<>>, members |-> <<>>] ELSE Refused
    IN  FoldLeft(add, [memo |-> memo, info |-> none], Direct(st, "type"))

------------------------------------------------------------------------------
(* Defaults: [val, source, origin].                                        *)
RECURSIVE TypedefDefaultEntry(_, _, _, _, _)
TypedefDefaultEntry(p, seen, mod, scope, q) ==
    UNION {IF t \in seen THEN {}
           ELSE IF t.dflts # <<>> THEN {[val |-> t.dflts[1], source |-> t.mod, origin |-> "typedef"]}
           ELSE TypedefDefaultEntry(p, seen \cup {t}, t.mod, t.scope, t.type.name) :
             t \in LookupTypedef(p, mod, scope, q)}
DefaultValuesFor(p, n) ==
    IF n.dflts # <<>>
    THEN [i \in DOMAIN n.dflts |-> [val |-> n.dflts[i], source |-> n.typeMod, origin |-> "node"]]
    ELSE SetToSeq(TypedefDefaultEntry(p, {}, n.typeMod, n.scope, n.type.name))

(* A default of an integer type may be octal or hexadecimal.               *)
HexChars == DigitChars \o <<"a", "b", "c", "d", "e", "f">>
CanonicalIntegerDefault(text, kind) ==
    LET u == Unsigned(text)
        hex == Len(u) > 1 /\ u[1] = "0" /\ u[2] = "x"
        octal == ~hex /\ Len(u) > 1 /\ u[1] = "0"
        radix == IF hex THEN 16 ELSE IF octal THEN 8 ELSE 10
        digits == IF hex THEN SubSeq(u, 3, Len(u)) ELSE IF octal THEN Tail(u) ELSE u
        plain == digits # <<>> /\ ToSet(digits) \subseteq ToSet(SubSeq(HexChars, 1, radix))
        n == WithSign(text, FoldLeft(LAMBDA m, c : radix * m + (CHOOSE d \in 0 .. 15 : HexChars[d + 1] = c), 0, digits))
    IN  IF Len(text) <= MaxLexical /\ plain /\ n \in ImplicitRange(kind) THEN {n} ELSE {}

ValueWithin(bounds, v, fd) ==
    LET b == [lex |-> "num", val |-> v, frac |-> fd] IN
    bounds # <<>> => RangesWithin(bounds, <<[min |-> b, max |-> b]>>)
Usable(values, names) ==  \* enabled, and not marked with if-feature
    \A n \in names : \E v \in ToSet(values) : v.name = n /\ ~v.disabled /\ ~v.conditional
QNameOf(text) == IF Contains(text, ":") THEN [prefix |-> Head(text), name |-> Last(text)]
                 ELSE [prefix |-> "", name |-> Head(text)]

IdentityRefDefaultValid(p, n, info, def) ==
    \E id \in IdentityForQName(p, def.source, QNameOf(def.val)) :
        /\ IdentityStrictlyDerivedFromAll(p, id, info.bases)
        /\ n.mod \in p.impl => id[1] \in p.impl

RECURSIVE DefaultValid(_, _, _, _)
DefaultValid(p, n, info, def) ==
    LET text == def.val IN
    CASE info.base = "boolean" -> text \in {<<"true">>, <<"false">>}
      [] info.base \in IntBases ->
           \E v \in CanonicalIntegerDefault(text, info.base) : ValueWithin(info.bounds, v, 0)
      [] info.base = "decimal64" ->
           /\ IsDecimal(text) /\ Len(After(Unsigned(text), ".")) <= info.fd
           /\ ValueWithin(info.bounds, WithSign(text, NumberOf(ScaledDigits(text, info.fd))), info.fd)
      [] info.base = "enumeration" -> Len(text) = 1 /\ Usable(info.values, ToSet(text))
      [] info.base = "bits" -> IsInjective(BitNames(text)) /\ Usable(info.values, ToSet(BitNames(text)))
      [] info.base \in {"string", "binary"} ->
           ValueWithin(info.bounds, Len(text), 0) /\ \A m \in ToSet(info.patterns) : text \in m
      [] info.base = "identityref" -> IdentityRefDefaultValid(p, n, info, def)
      [] info.base = "empty" -> FALSE
      [] info.base = "union" -> \E m \in ToSet(info.members) : DefaultValid(p, n, m, def)
      [] OTHER -> TRUE

LeafListIntegerDefaultsUnique(n, info, defs) ==
    n.kind = "leaf-list" /\ info.base \in IntBases =>
        \A i, j \in DOMAIN defs :
            CanonicalIntegerDefault(defs[i].val, info.base) = CanonicalIntegerDefault(defs[j].val, info.base) => i = j
ListKeyTypeValid(p, n, info) == n.key /\ info.base = "empty" => n.mod \in p.v11

DefaultsValid(p, n, info, defs) ==
    (\A i \in DOMAIN defs : DefaultValid(p, n, info, defs[i])) /\ LeafListIntegerDefaultsUnique(n, info, defs)

DefaultInapplicable(p, n, d) ==
    \/ n.key
    \/ d.origin = "typedef" /\ n.kind = "leaf" /\ n.mand
    \/ d.origin = "typedef" /\ n.kind = "leaf-list" /\ (n.min > 0 \/ n.mod \notin p.v11)

------------------------------------------------------------------------------
(* Identities: bases, and what is derived from each, directly or not, in   *)
(* the order in which it is resolved.                                      *)
RECURSIVE AppendDerived(_, _, _, _), AppendToAll(_, _, _, _)
AppendDerived(s, base, id, single) ==
    IF (single /\ s.derived[base] # <<>> /\ Last(s.derived[base]) = id) \/ (~single /\ base \in s.seen) THEN s
    ELSE AppendToAll([s EXCEPT !.derived[base] = Append(@, id), !.seen = @ \cup {base}], s.bases[base], id, single)
AppendToAll(s, bases, id, single) == FoldLeft(LAMBDA r, b : AppendDerived(r, b, id, single), s, bases)

RECURSIVE ResolveIdentity(_, _, _, _)
ResolveIdentity(p, s, resolving, id) ==
    LET names == p.identities[id]
        attach(r, q) ==
          LET base == IdentityForQName(p, id[1], q)
              b == CHOOSE x \in base : TRUE
              up == ResolveIdentity(p, r, resolving \cup {id}, b)
              on == [up EXCEPT !.bases[id] = Append(@, b), !.seen = r.seen]
          IN  IF r.fault THEN r
              ELSE IF base = {} THEN [r EXCEPT !.fault = TRUE]
              ELSE IF up.fault THEN up
              ELSE AppendDerived(on, b, id, Len(names) = 1)
        out == FoldLeft(attach, [s EXCEPT !.seen = {}], names)
    IN  IF id \in s.resolved \/ s.fault THEN s
        ELSE IF id \in resolving \/ (Len(names) > 1 /\ id[1] \notin p.v11) THEN [s EXCEPT !.fault = TRUE]
        ELSE IF out.fault THEN out ELSE [out EXCEPT !.resolved = @ \cup {id}]

------------------------------------------------------------------------------
(* The passes of a rebuild that resolve types; the first fault ends it.    *)
Passes == <<"nodes", "typedefs", "typedef defaults", "defaults", "identities", "done">>
LoadOrder(p, items) ==
    Concat([i \in DOMAIN p.order |-> SelectSeq(items, LAMBDA x : x.mod = p.order[i])])
ItemsOf(p, pass) ==
    CASE pass \in {"nodes", "defaults"} -> LoadOrder(p, p.nodes)
      [] pass \in {"typedefs", "typedef defaults"} -> LoadOrder(p, p.typedefs)
      [] pass = "identities" -> LoadOrder(p, p.ids)
      [] OTHER -> <<>>

NothingKnown == [bases |-> <<>>, derived |-> <<>>, resolved |-> {}, seen |-> {}, fault |-> FALSE]
TypesIdle ==
    /\ tphase = "idle" /\ todo = <<>> /\ typedefTypes = <<>> /\ infos = <<>> /\ known = NothingKnown

AskTypes ==
    /\ Unasked
    /\ \E p \in TypePrograms :
        /\ Ask("types", p)
        /\ todo' = ItemsOf(p, "nodes")
        /\ known' = [NothingKnown EXCEPT !.bases = [i \in DOMAIN p.identities |-> <<>>],
                                         !.derived = [i \in DOMAIN p.identities |-> <<>>]]
    /\ tphase' = "nodes"
    /\ UNCHANGED <<typedefTypes, infos>>

Advance(ok) ==
    /\ tphase' = IF ok THEN tphase ELSE "refused"
    /\ todo' = IF ok THEN Tail(todo) ELSE <<>>
    /\ UNCHANGED probe

ParseNodeType ==
    /\ tphase = "nodes" /\ todo # <<>>
    /\ LET n == Head(todo)
           r == Compute("ParseTypeSeen", <<probe.question, typedefTypes, {}, n.typeMod, n.scope, n.type>>)
           defs == DefaultValuesFor(probe.question, n)
       IN  /\ Advance(/\ r.info # Refused /\ DefaultsValid(probe.question, n, r.info, defs)
                    /\ ListKeyTypeValid(probe.question, n, r.info))
           /\ typedefTypes' = r.memo
           /\ infos' = (n.id :> [info |-> r.info, dflts |-> defs]) @@ infos
    /\ UNCHANGED known

ValidateTypedefType ==
    /\ tphase = "typedefs" /\ todo # <<>>
    /\ LET t == Head(todo)
           r == Compute("ParseTypeSeen", <<probe.question, typedefTypes, {}, t.mod, t.scope, t.type>>)
       IN  Advance(r.info # Refused) /\ typedefTypes' = r.memo
    /\ UNCHANGED <<infos, known>>

TypedefDefaultValid(p, t, info) ==
    t.dflts # <<>> =>
        DefaultValid(p, [mod |-> t.mod, kind |-> "typedef"], info, [val |-> t.dflts[1], source |-> t.mod])
ValidateTypedefDefault ==
    /\ tphase = "typedef defaults" /\ todo # <<>>
    /\ LET t == Head(todo)
           r == Compute("ParseTypeSeen", <<probe.question, typedefTypes, {}, t.mod, t.scope, t.type>>)
       IN  Advance(r.info # Refused /\ TypedefDefaultValid(probe.question, t, r.info)) /\ typedefTypes' = r.memo
    /\ UNCHANGED <<infos, known>>

ValidateDefaults ==
    /\ tphase = "defaults" /\ todo # <<>>
    /\ LET n == Head(todo)
           keep(d) == ~DefaultInapplicable(probe.question, n, d)
       IN  /\ Advance(DefaultsValid(probe.question, n, infos[n.id].info, infos[n.id].dflts))
           /\ infos' = [infos EXCEPT ![n.id].dflts = SelectSeq(@, keep)]
    /\ UNCHANGED <<typedefTypes, known>>

ResolveIdentities ==
    /\ tphase = "identities" /\ todo # <<>>
    /\ known' = ResolveIdentity(probe.question, known, {}, <<Head(todo).mod, Head(todo).name>>)
    /\ Advance(~known'.fault)
    /\ UNCHANGED <<typedefTypes, infos>>

NextPass ==
    /\ tphase \in ToSet(Front(Passes)) /\ todo = <<>>
    /\ LET pass == Passes[(CHOOSE i \in DOMAIN Passes : Passes[i] = tphase) + 1] IN
       tphase' = pass /\ todo' = ItemsOf(probe.question, pass)
    /\ UNCHANGED <<probe, typedefTypes, infos, known>>

TypesNext ==
    \/ AskTypes \/ ParseNodeType \/ ValidateTypedefType \/ ValidateTypedefDefault
    \/ ValidateDefaults \/ ResolveIdentities \/ NextPass

------------------------------------------------------------------------------
(* What a type statement means: the statements from it down to the built-in*)
(* type, each of which leaves some of the values that the next one leaves. *)
Visible(p, mod, scope, q) ==
    {t \in ToSet(p.typedefs) :
        /\ t.name = q.name
        /\ IF q.prefix \in {"", mod} THEN t.mod = mod /\ IsPrefix(t.scope, scope)
           ELSE t.scope = <<>> /\ q.prefix \in DOMAIN p.imports[mod] /\ t.mod = p.imports[mod][q.prefix]}
RECURSIVE Levels(_, _, _, _, _)
Levels(p, depth, mod, scope, st) ==
    LET level == [mod |-> mod, scope |-> scope, st |-> st] IN
    IF depth = 0 \/ Visible(p, mod, scope, st.name) = {} THEN <<level>>
    ELSE LET t == CHOOSE x \in Visible(p, mod, scope, st.name) : TRUE IN
         <<level>> \o Levels(p, depth - 1, t.mod, t.scope, t.type)

BoundIn(b, space, fd) ==
    IF b.lex = "min" THEN Min(space) ELSE IF b.lex = "max" THEN -Min({-n : n \in space}) ELSE b.val * 10 ^ (fd - b.frac)
Numbers(base) == IF base = "decimal64" THEN ImplicitRange("i64")
                 ELSE IF base \in IntBases THEN ImplicitRange(base) ELSE ImplicitRange("u64")
EnumSpace(p, levels, base) ==
    LET k == EnumKeyword(base)
        es == Direct(Last(levels).st, k)
        value[i \in DOMAIN es] ==
          IF es[i].val # <<>> THEN es[i].val[1] ELSE IF i = 1 THEN 0 ELSE 1 + Max({value[j] : j \in 1 .. i - 1})
        listed == {ToSet(Direct(l.st, k)) : l \in {x \in ToSet(levels) : Has(x.st, k)}}
    IN  {[name |-> es[i].name, value |-> value[i],
          enabled |-> \A es2 \in listed : \A e \in es2 : e.name = es[i].name => e.feats \subseteq p.features] :
            i \in {j \in DOMAIN es : \A es2 \in listed : \E e \in es2 : e.name = es[j].name}}
IdentitySpace(p, levels) ==
    {i \in DOMAIN p.identities : \A l \in ToSet(levels) : \A q \in ToSet(Direct(l.st, "base")) :
        IdentityForQName(p, l.mod, q) \subseteq WithBases(p, DirectBases(p, i))}

RECURSIVE Meaning(_, _, _, _, _)
Meaning(p, depth, mod, scope, st) ==
    LET ls == Levels(p, depth, mod, scope, st)
        end == Last(ls)
        base == end.st.name.name
        fd == IF base = "decimal64" THEN Direct(end.st, "fraction-digits")[1] ELSE 0
        narrow(space, l) == IF ~Has(l.st, RangeKeyword(base)) THEN space
                            ELSE UNION {BoundIn(s[1], space, fd) .. BoundIn(s[2], space, fd) :
                                          s \in ToSet(Direct(l.st, RangeKeyword(base))[1])}
        all(k) == Concat([i \in DOMAIN ls |-> Direct(ls[i].st, k)])
        of == [base |-> base, chain |-> [i \in 1 .. Len(ls) - 1 |-> ls[i].st.name.name]]
    IN  CASE base \in IntBases \cup {"decimal64", "string", "binary"} ->
               of @@ [space |-> FoldLeft(narrow, Numbers(base), Reverse(ls)), fd |-> fd,
                      patterns |-> ToSet(all("pattern"))]
          [] base \in {"enumeration", "bits"} -> of @@ [space |-> EnumSpace(p, ls, base)]
          [] base = "identityref" -> of @@ [space |-> IdentitySpace(p, ls)]
          [] base \in {"leafref", "instance-identifier"} -> of @@ [require |-> Head(all("require-instance") \o <<TRUE>>)]
          [] base = "union" -> of @@ [members |-> [i \in DOMAIN all("type") |->
                                        Meaning(p, depth, end.mod, end.scope, all("type")[i])]]
          [] OTHER -> of

(* The same of a resolved type.                                            *)
RECURSIVE Resolved(_, _)
Resolved(p, info) ==
    LET of == [base |-> info.base, chain |-> info.chain]
        within == {n \in Numbers(info.base) : \E b \in ToSet(info.bounds) : b.min.val <= n /\ n <= b.max.val}
    IN  CASE info.base \in IntBases \cup {"decimal64", "string", "binary"} ->
               of @@ [space |-> IF info.bounds = <<>> THEN Numbers(info.base) ELSE within, fd |-> info.fd,
                      patterns |-> ToSet(info.patterns)]
          [] info.base \in {"enumeration", "bits"} ->
               of @@ [space |-> {[name |-> v.name, value |-> v.value, enabled |-> ~v.disabled] : v \in ToSet(info.values)}]
          [] info.base = "identityref" ->
               of @@ [space |-> {i \in DOMAIN p.identities : IdentityStrictlyDerivedFromAll(p, i, info.bases)}]
          [] info.base \in {"leafref", "instance-identifier"} -> of @@ [require |-> info.require]
          [] info.base = "union" -> of @@ [members |-> [i \in DOMAIN info.members |-> Resolved(p, info.members[i])]]
          [] OTHER -> of

Alone(p, mod, scope, st) == Compute("ParseTypeSeen", <<p, <<>>, {}, mod, scope, st>>).info
Depth(p) == Len(p.typedefs)

(* Every leaf has the type its statements mean, although a typedef is      *)
(* resolved once per rebuild, by whichever module refers to it first, and  *)
(* a level replaces the restriction of the level below: the values left are*)
(* those that every statement on the chain leaves, and no typedef leads to *)
(* itself.  Every identity is known to all its ancestors once.  A rebuild  *)
(* is refused only for a reason found by looking at one statement alone    *)
(* (resolveTypedefType, applyTypeRestrictions, resolveIdentity).           *)
TypesExact ==
    LET p == probe.question
        ups(i) == WithBases(p, DirectBases(p, i))
    IN  /\ tphase = "done" =>
            /\ \A n \in ToSet(p.nodes) :
                 Resolved(p, infos[n.id].info) = Compute("Meaning", <<p, Depth(p), n.typeMod, n.scope, n.type>>)
            /\ \A t \in ToSet(p.typedefs) : Alone(p, t.mod, t.scope, t.type) # Refused
            /\ \A i \in DOMAIN p.identities :
                 /\ i \notin ups(i) /\ IsInjective(known.derived[i])
                 /\ ToSet(known.derived[i]) = {j \in DOMAIN p.identities : i \in ups(j)}
        /\ tphase = "refused" =>
            \/ \E n \in ToSet(p.nodes) :
                 LET info == Alone(p, n.typeMod, n.scope, n.type) IN
                 info = Refused \/ ~DefaultsValid(p, n, info, DefaultValuesFor(p, n)) \/ ~ListKeyTypeValid(p, n, info)
            \/ \E t \in ToSet(p.typedefs) :
                 LET info == Alone(p, t.mod, t.scope, t.type) IN info = Refused \/ ~TypedefDefaultValid(p, t, info)
            \/ \E i \in DOMAIN p.identities :
                 \/ i \in ups(i) \/ (Len(p.identities[i]) > 1 /\ i[1] \notin p.v11)
                 \/ \E q \in ToSet(p.identities[i]) : IdentityForQName(p, i[1], q) = {}

(* A value is in what a type means.                                        *)
RECURSIVE InMeaning(_, _, _, _)
InMeaning(p, def, n, m) ==
    LET text == def.val
        enabled == {v.name : v \in {x \in m.space : x.enabled}}
    IN  CASE m.base = "boolean" -> text \in {<<"true">>, <<"false">>}
          [] m.base \in IntBases -> \E v \in CanonicalIntegerDefault(text, m.base) : v \in m.space
          [] m.base = "decimal64" -> ParseDecimal64(text, m.fd).ok /\ ParseDecimal64(text, m.fd).num \in m.space
          [] m.base = "enumeration" -> Len(text) = 1 /\ text[1] \in enabled
          [] m.base = "bits" -> ToSet(BitNames(text)) \subseteq enabled
          [] m.base \in {"string", "binary"} -> Len(text) \in m.space /\ \A s \in m.patterns : text \in s
          [] m.base = "identityref" ->
               \E id \in m.space : /\ id \in IdentityForQName(p, def.source, QNameOf(text))
                                   /\ n.mod \in p.impl => id[1] \in p.impl
          [] m.base = "union" -> \E i \in DOMAIN m.members : InMeaning(p, def, n, m.members[i])
          [] OTHER -> m.base # "empty"

(* The defaults a leaf keeps are values of its own type, also when a       *)
(* typedef several levels below gives the default and a level in between,  *)
(* in another module, narrows the type; and it keeps the nearest one, and  *)
(* none where a default cannot apply (validateDefaultValues).              *)
DefaultsAccepted ==
    LET p == probe.question IN
    tphase = "done" => \A n \in ToSet(p.nodes) :
        LET m == Compute("Meaning", <<p, Depth(p), n.typeMod, n.scope, n.type>>)
            kept == infos[n.id].dflts
            ls == Levels(p, Depth(p), n.typeMod, n.scope, n.type)
            given == Concat([i \in 1 .. Len(ls) - 1 |->
                       (CHOOSE t \in Visible(p, ls[i].mod, ls[i].scope, ls[i].st.name) : TRUE).dflts])
        IN  /\ \A d \in ToSet(kept) : InMeaning(p, d, n, m)
            /\ n.key => kept = <<>>
            /\ n.mand /\ n.dflts = <<>> => kept = <<>>
            /\ n.kind = "leaf" /\ ~n.key /\ ~n.mand =>
                 [i \in DOMAIN kept |-> kept[i].val]
                   = IF n.dflts # <<>> THEN n.dflts ELSE SubSeq(given, 1, IF given = <<>> THEN 0 ELSE 1)

(* Types and defaults come out as their statements mean them, whatever the *)
(* order of resolution (rebuild, validateDefaultValues).                   *)
LeafTypesExact == TypesExact /\ DefaultsAccepted
=============================================================================
