----------------------------- MODULE DataValues -----------------------------
(***************************************************************************)
(* The values of the pure-Go data tree (go/datatree): whether a token is   *)
(* valid for a type, its canonical form, its comparison key, and its place *)
(* in the canonical order of system-ordered lists.                         *)
(*                                                                         *)
(* A token has the shape of its JSON value and a text, a sequence of       *)
(* characters in which the name of a bit, an enum value, an identity or a  *)
(* module is one element.  A type is a record of its base and of what      *)
(* restricts it.                                                           *)
(***************************************************************************)
EXTENDS Integers, SequencesExt, Probe

CONSTANTS WordMax,      \* the largest signed machine word (int64)
          MaxLexical,   \* the longest number that is parsed
          ValueSamples, \* the types and tokens asked about
          CanonicalPath(_, _)  \* canonicalInstanceIdentifier, for a text in a leaf of a module

ASSUME WordsAssumption == WordMax \in Nat /\ MaxLexical \in Nat \ {0}

(* The characters and names of texts in the order of their bytes.          *)
Bytes == <<"quote", " ", "+", "-", ".", "0", "1", "2", "3", "4", "5", "6", "7", "8", "9", ":",
           "a", "b", "c", "m", "n", "one", "two", "x", "z">>
ByteRank == [c \in ToSet(Bytes) |-> CHOOSE i \in DOMAIN Bytes : Bytes[i] = c]

Str(text) == [shape |-> "string", text |-> text]
Num(text) == [shape |-> "number", text |-> text]

(* cmp.Compare, and bytes.Compare of two texts.                            *)
Order(a, b) == IF a < b THEN -1 ELSE IF a > b THEN 1 ELSE 0
CompareBytes(a, b) ==
    LET same == LongestCommonPrefix({a, b})
        at   == Len(same) + 1
    IN  IF at > Len(a) \/ at > Len(b) THEN Order(Len(a), Len(b))
        ELSE Order(ByteRank[a[at]], ByteRank[b[at]])

RawBytes(tok) ==
    IF tok.shape = "string" THEN <<"quote">> \o tok.text \o <<"quote">> ELSE tok.text

Before(text, sep) ==  \* strings.Cut
    IF Contains(text, sep)
    THEN SubSeq(text, 1, (CHOOSE i \in DOMAIN text :
            text[i] = sep /\ \A j \in 1 .. i - 1 : text[j] # sep) - 1)
    ELSE text
After(text, sep) == SubSeq(text, Len(Before(text, sep)) + 2, Len(text))

------------------------------------------------------------------------------
(* Numbers.                                                                *)
DigitChars == <<"0", "1", "2", "3", "4", "5", "6", "7", "8", "9">>
IsDigits(s) == ToSet(s) \subseteq ToSet(DigitChars)
NumberOf(digits) ==
    FoldLeft(LAMBDA n, c : 10 * n + (CHOOSE d \in 0 .. 9 : DigitChars[d + 1] = c), 0, digits)
DigitsOf[n \in Nat] ==
    IF n < 10 THEN <<DigitChars[n + 1]>> ELSE Append(DigitsOf[n \div 10], DigitChars[(n % 10) + 1])
Zeros(n) == [i \in 1 .. n |-> "0"]

Signed(s) == s # <<>> /\ Head(s) \in {"+", "-"}
Unsigned(s) == IF Signed(s) THEN Tail(s) ELSE s
WithSign(s, n) == IF Signed(s) /\ Head(s) = "-" THEN -n ELSE n

TrimRight(s, c) ==
    LET keep == {i \in DOMAIN s : s[i] # c}
    IN  SubSeq(s, 1, IF keep = {} THEN 0 ELSE CHOOSE i \in keep : \A j \in keep : j <= i)

(* What the integer types accept before a range restricts them.            *)
Limits(kind) ==
    CASE kind = "i8"  -> <<-128, 127>>
      [] kind = "u8"  -> <<0, 255>>
      [] kind = "i64" -> <<-WordMax - 1, WordMax>>
      [] kind = "u64" -> <<0, 2 * WordMax + 1>>
ImplicitRange(kind) == Limits(kind)[1] .. Limits(kind)[2]

Quoted(kind) == kind \in {"i64", "u64"}
NoText == <<"no text">>

(* The text of an integer in the shape its width calls for.                *)
JSONInteger(s) ==
    LET u == IF s # <<>> /\ Head(s) = "-" THEN Tail(s) ELSE s
    IN  u # <<>> /\ IsDigits(u) /\ (Head(u) = "0" => Len(u) = 1)
IntegerText(tok, kind) ==
    IF (Quoted(kind) /\ tok.shape = "string") \/ (~Quoted(kind) /\ tok.shape = "number" /\ JSONInteger(tok.text))
    THEN tok.text ELSE NoText

(* What math/big parses: a sign and digits.                                *)
IsInteger(s) ==
    s # NoText /\ Len(s) <= MaxLexical /\ Unsigned(s) # <<>> /\ IsDigits(Unsigned(s))
Integer(s) == WithSign(s, NumberOf(Unsigned(s)))
IntegerToken(n, kind) ==
    LET text == IF n < 0 THEN <<"-">> \o DigitsOf[-n] ELSE DigitsOf[n]
    IN  IF Quoted(kind) THEN Str(text) ELSE Num(text)

IsDecimal(s) ==
    LET u == Unsigned(s) IN
    /\ Len(s) <= MaxLexical
    /\ Before(u, ".") # <<>> /\ IsDigits(Before(u, "."))
    /\ Contains(u, ".") => After(u, ".") # <<>> /\ IsDigits(After(u, "."))

ScaledDigits(s, fd) ==
    LET u == Unsigned(s) IN
    Before(u, ".") \o After(u, ".") \o Zeros(fd - Len(After(u, ".")))

(* The number scaled by the fraction digits, and whether it fits a word.   *)
ParseDecimal64(s, fd) ==
    LET n == WithSign(s, NumberOf(ScaledDigits(s, fd)))
    IN  IF IsDecimal(s) /\ Len(After(Unsigned(s), ".")) <= fd /\ n \in ImplicitRange("i64")
        THEN [ok |-> TRUE, num |-> n] ELSE [ok |-> FALSE, num |-> 0]

FormatDecimal64(num, fd) ==
    LET ds == DigitsOf[IF num < 0 THEN -num ELSE num]
        padded == Zeros(IF Len(ds) <= fd THEN fd - Len(ds) + 1 ELSE 0) \o ds
        cut  == Len(padded) - fd
        frac == TrimRight(SubSeq(padded, cut + 1, Len(padded)), "0")
    IN  IF num = 0 THEN <<"0", ".", "0">>
        ELSE (IF num < 0 THEN <<"-">> ELSE <<>>) \o SubSeq(padded, 1, cut) \o <<".">>
             \o (IF frac = <<>> THEN <<"0">> ELSE frac)

------------------------------------------------------------------------------
(* Bits and identities.                                                    *)
BitNames(text) == SelectSeq(text, LAMBDA c : c # " ")
BitsValid(tok, values) ==
    LET names == BitNames(tok.text) IN
    /\ tok.shape = "string" /\ IsInjective(names)
    /\ ToSet(names) \subseteq {v[1] : v \in values}
BitPosition(values, name) == (CHOOSE v \in values : v[1] = name)[2]

CanonicalBits(text, values) ==
    LET names == SetToSortSeq(ToSet(BitNames(text)),
                     LAMBDA a, b : BitPosition(values, a) < BitPosition(values, b))
    IN  Concat([i \in DOMAIN names |-> IF i = 1 THEN <<names[i]>> ELSE <<" ", names[i]>>])

(* The little-endian bitmap of the bits set, its nonzero bytes only.       *)
BitsOrderBitmap(text, values) ==
    LET set == {BitPosition(values, n) : n \in ToSet(BitNames(text))}
        ByteAt(i) == FoldSet(LAMBDA p, n : n + 2 ^ (p % 8), 0, {p \in set : p \div 8 = i})
        at == SetToSortSeq({p \div 8 : p \in set}, <)
    IN  [k \in DOMAIN at |-> <<at[k], ByteAt(at[k])>>]

CompareSparse_LowestFirst(a, b) ==
    LET at == Len(LongestCommonPrefix({a, b})) + 1
    IN  IF at > Len(a) \/ at > Len(b) THEN Order(Len(a), Len(b))
        ELSE IF a[at][1] # b[at][1] THEN Order(a[at][1], b[at][1])
        ELSE Order(a[at][2], b[at][2])

CompareSparseBitmaps(a, b) ==
    LET at == Len(LongestCommonPrefix({a, b})) + 1
    IN  IF at > Len(a) \/ at > Len(b) THEN Order(Len(a), Len(b))
        ELSE IF a[at][1] # b[at][1] THEN Order(b[at][1], a[at][1])
        ELSE Order(a[at][2], b[at][2])

(* A bare name is an identity of the leaf's module.                        *)
QualifiedIdentity(text, mod) == IF Contains(text, ":") THEN text ELSE <<mod, ":">> \o text
IdentityValid(t, text, mod) ==
    t.bases # {} /\ \A derived \in t.bases : QualifiedIdentity(text, mod) \in derived

------------------------------------------------------------------------------
InRanges(n, ranges) == ranges = {} \/ \E r \in ranges : n \in r

RECURSIVE ValidateLeafValue(_, _, _)
ValidateLeafValue(t, tok, mod) ==
    LET s == tok.text
        str == tok.shape = "string"
    IN  CASE t.base = "int" ->
               /\ IsInteger(IntegerText(tok, t.kind))
               /\ Integer(s) \in ImplicitRange(t.kind) /\ InRanges(Integer(s), t.ranges)
          [] t.base = "decimal64" ->
               str /\ ParseDecimal64(s, t.fd).ok /\ InRanges(ParseDecimal64(s, t.fd).num, t.ranges)
          [] t.base = "bits" -> BitsValid(tok, t.values)
          [] t.base = "enumeration" -> str /\ \E v \in t.values : s = <<v[1]>>
          [] t.base = "identityref" -> str /\ IdentityValid(t, s, mod)
          [] t.base \in {"string", "binary"} -> str /\ InRanges(Len(s), t.ranges)
          [] t.base = "boolean" -> tok.shape = "bool"
          [] t.base = "empty" -> tok.shape = "empty"
          [] t.base = "instance-identifier" -> str
          [] t.base = "leafref" -> ValidateLeafValue(t.real, tok, mod)
          [] t.base = "union" -> \E i \in DOMAIN t.members : ValidateLeafValue(t.members[i], tok, mod)

(* The first member of a union that accepts a token, or none.              *)
FirstMatch(members, tok, mod) ==
    LET is == {i \in DOMAIN members : ValidateLeafValue(members[i], tok, mod)}
    IN  IF is = {} THEN 0 ELSE CHOOSE i \in is : \A j \in is : i <= j

(* The canonical form; a token that is not valid stays as it is written,   *)
(* except that an integer or decimal out of its range is still normalised. *)
RECURSIVE CanonicalToken(_, _, _)
CanonicalToken(t, tok, mod) ==
    LET text == IF t.base = "int" THEN IntegerText(tok, t.kind) ELSE tok.text
        dec  == ParseDecimal64(text, t.fd)
        i    == FirstMatch(t.members, tok, mod)
        path == CanonicalPath(text, mod)
    IN  CASE t.base = "int" /\ IsInteger(text) -> IntegerToken(Integer(text), t.kind)
          [] t.base = "decimal64" /\ tok.shape = "string" /\ dec.ok ->
               Str(FormatDecimal64(dec.num, t.fd))
          [] t.base = "bits" /\ BitsValid(tok, t.values) -> Str(CanonicalBits(text, t.values))
          [] /\ t.base = "identityref" /\ Contains(text, ":") /\ Head(text) = mod
             /\ IdentityValid(t, text, mod) -> Str(After(text, ":"))
          [] t.base = "instance-identifier" /\ tok.shape = "string" /\ path # NoText -> Str(path)
          [] t.base = "leafref" -> CanonicalToken(t.real, tok, mod)
          [] t.base = "union" /\ i # 0 -> CanonicalToken(t.members[i], tok, mod)
          [] OTHER -> tok

(* Equal exactly for the same value, also between leaves of two modules.   *)
RECURSIVE ValueKey(_, _, _)
ValueKey(t, tok, mod) ==
    LET i == FirstMatch(t.members, tok, mod)
    IN  CASE t.base = "identityref" /\ tok.shape = "string" -> Str(QualifiedIdentity(tok.text, mod))
          [] t.base = "leafref" -> ValueKey(t.real, tok, mod)
          [] t.base = "union" /\ i # 0 -> ValueKey(t.members[i], tok, mod)
          [] OTHER -> tok

------------------------------------------------------------------------------
(* The canonical order.                                                    *)
RECURSIVE FlattenUnionMembers(_)
FlattenUnionMembers(t) ==
    Concat([i \in DOMAIN t.members |->
        IF t.members[i].base = "union" THEN FlattenUnionMembers(t.members[i])
        ELSE <<t.members[i]>>])

Key(kind, i, b) == [valid |-> TRUE, member |-> 0, kind |-> kind, i |-> i, b |-> b]
InvalidKey(tok) == [Key("bytes", 0, RawBytes(tok)) EXCEPT !.valid = FALSE]

RECURSIVE ValueOrderKey(_, _, _)
ValueOrderKey(t, tok, mod) ==
    LET s == tok.text
        str == tok.shape = "string"
        dec == ParseDecimal64(s, t.fd)
        flat == FlattenUnionMembers(t)
        i == FirstMatch(flat, tok, mod)
        \* strconv parses a word, and no sign of an unsigned one.
        word == /\ IsInteger(IntegerText(tok, t.kind))
                /\ IF t.kind \in {"u8", "u64"}
                   THEN ~Signed(s) /\ Integer(s) \in ImplicitRange("u64")
                   ELSE Integer(s) \in ImplicitRange("i64")
    IN  CASE t.base = "int" /\ word -> Key("number", Integer(s), <<>>)
          [] t.base = "decimal64" /\ str /\ dec.ok -> Key("number", dec.num, <<>>)
          [] t.base = "boolean" /\ tok.shape = "bool" ->
               Key("number", IF s = <<"1">> THEN 1 ELSE 0, <<>>)
          [] t.base = "enumeration" /\ ValidateLeafValue(t, tok, mod) ->
               Key("number", BitPosition(t.values, s[1]), <<>>)
          [] t.base = "bits" /\ BitsValid(tok, t.values) ->
               Key("bits", 0, BitsOrderBitmap(s, t.values))
          [] t.base = "binary" /\ str -> Key("sized", 0, s)
          [] t.base = "identityref" /\ str ->
               Key("bytes", 0, IF Contains(s, ":") THEN After(s, ":") ELSE s)
          [] t.base = "string" /\ str -> Key("bytes", 0, s)
          [] t.base = "leafref" -> ValueOrderKey(t.real, tok, mod)
          [] t.base = "union" /\ i # 0 ->
               [ValueOrderKey(flat[i], tok, mod) EXCEPT !.member = i - 1]
          [] OTHER -> InvalidKey(tok)

CompareOrderKeys(a, b) ==
    CASE a.valid # b.valid -> IF a.valid THEN -1 ELSE 1
      [] ~a.valid /\ ~b.valid -> CompareBytes(a.b, b.b)
      [] a.valid /\ b.valid /\ a.member # b.member -> Order(b.member, a.member)
      [] OTHER -> CASE a.kind = "number" -> Order(a.i, b.i)
                    [] a.kind = "bits" -> CompareSparseBitmaps(a.b, b.b)
                    [] a.kind = "sized" /\ Len(a.b) # Len(b.b) -> Order(Len(a.b), Len(b.b))
                    [] OTHER -> CompareBytes(a.b, b.b)

(* A stable sort of items by their sequences of order keys.                *)
CompareKeys(ks, ls) ==
    LET at == {i \in DOMAIN ks : CompareOrderKeys(ks[i], ls[i]) # 0}
        i  == CHOOSE x \in at : \A y \in at : x <= y
    IN  IF at = {} THEN 0 ELSE CompareOrderKeys(ks[i], ls[i])

SortStable(items, keys) ==
    LET at == SetToSortSeq(DOMAIN items, LAMBDA i, j :
                  LET c == CompareKeys(keys[i], keys[j]) IN c < 0 \/ (c = 0 /\ i < j))
    IN  [k \in DOMAIN at |-> items[at[k]]]

------------------------------------------------------------------------------
AskValues ==
    Unasked /\ \E v \in ValueSamples : \E i, j, k \in DOMAIN v.toks :
        Ask("values", [type |-> v.type, toks |-> <<v.toks[i], v.toks[j], v.toks[k]>>])

(* What two tokens of a type denote, in leaves of modules m and n.         *)
Rational(s) ==
    LET u == Unsigned(s)
    IN  <<WithSign(s, NumberOf(Before(u, ".") \o After(u, "."))), 10 ^ Len(After(u, "."))>>

RECURSIVE SameValue(_, _, _, _, _)
SameValue(t, a, m, b, n) ==
    LET i == FirstMatch(t.members, a, m)
        x == Rational(a.text)
        y == Rational(b.text)
    IN  CASE t.base \in {"int", "decimal64"} -> x[1] * y[2] = y[1] * x[2]
          [] t.base = "bits" -> ToSet(BitNames(a.text)) = ToSet(BitNames(b.text))
          [] t.base = "identityref" -> QualifiedIdentity(a.text, m) = QualifiedIdentity(b.text, n)
          [] t.base = "leafref" -> SameValue(t.real, a, m, b, n)
          [] t.base = "union" ->
               i = FirstMatch(t.members, b, n) /\ SameValue(t.members[i], a, m, b, n)
          [] OTHER -> a = b

(* Two valid tokens have one canonical form, and one comparison key even   *)
(* between leaves of two modules, exactly when they denote one value: keys,*)
(* unique and leafref checks compare these forms and nothing else; and the *)
(* canonical form is valid and its own canonical form, so that a document  *)
(* written out and read back does not change (canonicalToken, valueKey).   *)
CanonicalExact ==
    Asked("values") =>
      LET t == probe.question.type
          a == probe.question.toks[1]
          b == probe.question.toks[2]
          C(x, m) == Compute("CanonicalToken", <<t, x, m>>)
          valid(x, m) == ValidateLeafValue(t, x, m)
      IN  /\ valid(a, "m") => valid(C(a, "m"), "m") /\ C(C(a, "m"), "m") = C(a, "m")
          /\ valid(a, "m") /\ valid(b, "m") =>
               (C(a, "m") = C(b, "m") <=> Compute("SameValue", <<t, a, "m", b, "m">>))
          /\ valid(a, "m") /\ valid(b, "n") =>
               (Compute("ValueKey", <<t, C(a, "m"), "m">>) = Compute("ValueKey", <<t, C(b, "n"), "n">>)
                  <=> Compute("SameValue", <<t, a, "m", b, "n">>))

(* libyang's order of valid values: numbers by value, enums by their       *)
(* number, bits as memcmp sees their bitmaps, binary by length and then    *)
(* content, identities by name, and in a union the values of a later       *)
(* member before those of an earlier one.                                  *)
DenseByte(text, values, i) ==
    FoldSet(LAMBDA p, n : n + 2 ^ p, 0,
            {p \in 0 .. 7 : \E x \in ToSet(BitNames(text)) : BitPosition(values, x) = 8 * i + p})
MemcmpBefore(a, b, values) ==
    \E i \in 0 .. 2 :
        /\ DenseByte(a, values, i) < DenseByte(b, values, i)
        /\ \A j \in 0 .. i - 1 : DenseByte(a, values, j) = DenseByte(b, values, j)

RECURSIVE ValueBefore(_, _, _)
ValueBefore(t, a, b) ==
    LET x == Rational(a.text)
        y == Rational(b.text)
        i == FirstMatch(t.members, a, "m")
        j == FirstMatch(t.members, b, "m")
        name(s) == IF Contains(s, ":") THEN After(s, ":") ELSE s
    IN  CASE t.base \in {"int", "decimal64"} -> x[1] * y[2] < y[1] * x[2]
          [] t.base = "enumeration" ->
               BitPosition(t.values, a.text[1]) < BitPosition(t.values, b.text[1])
          [] t.base = "bits" -> MemcmpBefore(a.text, b.text, t.values)
          [] t.base = "binary" /\ Len(a.text) # Len(b.text) -> Len(a.text) < Len(b.text)
          [] t.base = "identityref" -> CompareBytes(name(a.text), name(b.text)) < 0
          [] t.base = "leafref" -> ValueBefore(t.real, a, b)
          [] t.base = "union" /\ i # j -> i > j
          [] t.base = "union" /\ i = j -> ValueBefore(t.members[i], a, b)
          [] OTHER -> CompareBytes(a.text, b.text) < 0

(* A system-ordered leaf-list puts its values in that order, and values of *)
(* equal place in the order of entry, so that the order of the document    *)
(* does not show (sortSystemOrdered), though bitmaps are compared without  *)
(* being built and unions are flattened first.                             *)
SystemOrderExact ==
    Asked("values") =>
      LET t == probe.question.type
          toks == [i \in 1 .. 3 |-> Compute("CanonicalToken", <<t, probe.question.toks[i], "m">>)]
          key(i) == <<Compute("ValueOrderKey", <<t, toks[i], "m">>)>>
          sorted == Compute("SortStable", <<<<1, 2, 3>>, [i \in 1 .. 3 |-> key(i)]>>)
          valid(i) == ValidateLeafValue(t, toks[i], "m")
      IN  /\ ToSet(sorted) = 1 .. 3
          /\ \A p, q \in 1 .. 3 :
               LET i == sorted[p] j == sorted[q] IN
               p < q /\ valid(i) /\ valid(j) =>
                 /\ ~Compute("ValueBefore", <<t, toks[j], toks[i]>>)
                 /\ Compute("ValueBefore", <<t, toks[i], toks[j]>>) \/ i < j

(* Values are one and in order as what they denote, in every encoding of   *)
(* them (canonicalToken, valueKey, sortSystemOrdered).                     *)
ValuesExact == CanonicalExact /\ SystemOrderExact
=============================================================================
