--------------------------- MODULE CompiledNodes ---------------------------
(***************************************************************************)
(* How one compiled node of libyang is read: its kind, flags, bounds and   *)
(* type as go/internal/libyang takes them apart, what go/libyangbackend    *)
(* makes of them, and the typed value of a canonical text.                 *)
(*                                                                         *)
(* A statement is a record of what it comes to: its kind, config ("none"   *)
(* below an operation), status, mandatory ("" when not said), presence,    *)
(* order, min and max (NoMax when unbounded), key, uniq (part of a unique  *)
(* statement), and its type.  A text is a sequence of characters.          *)
(***************************************************************************)
EXTENDS DataValues

(* libyang: the codes, flags and 64-bit cells a statement is compiled to   *)
(* (tree_schema.h, tree.h).  Flags of different kinds share a bit: explicit*)
(* mandatory false is ordered-by user, and presence is ordered-by system   *)
(* and membership in a unique statement.                                   *)
NodeType ==
    [container |-> 1, choice |-> 2, leaf |-> 4, list |-> 16, anyxml |-> 32, anydata |-> 96, case |-> 128,
     rpc |-> 256, action |-> 512, notification |-> 1024, input |-> 4096, output |-> 8192] @@ ("leaf-list" :> 8)
ListKinds == {"list", "leaf-list"}
LeafKinds == {"leaf", "leaf-list"}
Flag(bit, set) == IF set THEN bit ELSE 0
Flags(n) ==
    Flag(1, n.config = "rw") + Flag(2, n.config = "ro")
    + (CASE n.status = "current" -> 4 [] n.status = "deprecated" -> 8 [] n.status = "obsolete" -> 16)
    + Flag(32, n.mandatory = "true")
    + Flag(64, n.mandatory = "false" \/ (n.kind \in ListKinds /\ n.order = "user"))
    + Flag(128, n.presence \/ n.uniq \/ (n.kind \in ListKinds /\ n.order = "system"))
    + Flag(256, n.key)

Cells == 2 * (WordMax + 1)
Cell(n) == n % Cells
NoMax == -1
Bases == <<"binary", "uint8", "uint16", "uint32", "uint64", "string", "bits", "boolean", "decimal64", "empty",
           "enumeration", "identityref", "instance-identifier", "leafref", "union",
           "int8", "int16", "int32", "int64">>
RECURSIVE CompileType(_)
CompileType(said) ==
    LET field(k) ==
          CASE k = "parts" -> [i \in DOMAIN said.parts |-> <<Cell(said.parts[i][1]), Cell(said.parts[i][2])>>]
            [] k = "real" -> CompileType(said.real)
            [] k = "members" -> [i \in DOMAIN said.members |-> CompileType(said.members[i])]
            [] OTHER -> said[k]
    IN  [basetype |-> CHOOSE i \in DOMAIN Bases : Bases[i] = said.base] @@ [k \in DOMAIN said |-> field(k)]
CompileNode(said) ==
    [nodetype |-> NodeType[said.kind], flags |-> Flags(said), min |-> said.min, max |-> said.max,
     dflts |-> said.dflts, type |-> CompileType(said.type)]

------------------------------------------------------------------------------
(* The cgo seam.                                                           *)
Lys == [configMask |-> 3, configW |-> 1, configR |-> 2, statusMask |-> 28, deprecated |-> 8, obsolete |-> 16,
        mandTrue |-> 32, ordByUser |-> 64, presence |-> 128, key |-> 256]
HasFlag(flags, bit) == (flags \div bit) % 2 = 1
ConfigBits(flags) == flags % (Lys.configMask + 1)
StatusBits(flags) == (flags % (Lys.statusMask + 4)) - ConfigBits(flags)

SchemaKindName(nodetype) ==
    CASE nodetype = 1    -> "container" [] nodetype = 2    -> "choice"  [] nodetype = 4    -> "leaf"
      [] nodetype = 8    -> "leaflist"  [] nodetype = 16   -> "list"    [] nodetype = 32   -> "anyxml"
      [] nodetype = 96   -> "anydata"   [] nodetype = 128  -> "case"    [] nodetype = 256  -> "rpc"
      [] nodetype = 512  -> "action"    [] nodetype = 1024 -> "notification"
      [] nodetype = 4096 -> "input"     [] nodetype = 8192 -> "output"  [] OTHER -> "unknown"

(* LY_DATA_TYPE counts from 1; anything else is unknown.                   *)
RawBase(basetype) == IF basetype \in DOMAIN Bases THEN Bases[basetype] ELSE "unknown"
SignedBases == {"int8", "int16", "int32", "int64"}
UnsignedBases == {"uint8", "uint16", "uint32", "uint64"}
IntegerBases == SignedBases \cup UnsignedBases
LeafTypeCoarse(base) ==
    CASE base = "string" -> "string" [] base = "boolean" -> "bool"
      [] base \in IntegerBases \cup {"decimal64"} -> "int" [] OTHER -> "unknown"

NoTypedef == ""
TypedefName(type) == IF type.name = RawBase(type.basetype) THEN NoTypedef ELSE type.name

(* A cell read as a number of two's complement, or of none.                *)
AsInt64(cell) == IF cell > WordMax THEN cell - Cells ELSE cell
AsUint64(cell) == cell

Magnitude(n) == IF n < 0 THEN -n ELSE n
Sign(n) == IF n < 0 THEN <<"-">> ELSE <<>>
FormatInt(n) == Sign(n) \o DigitsOf[Magnitude(n)]
(* Division truncates towards zero, so the sign is put back by hand.       *)
FormatFixed(raw, fd, trim) ==
    LET divisor == 10 ^ fd
        frac == DigitsOf[Magnitude(raw) % divisor]
        padded == Zeros(fd - Len(frac)) \o frac
        shown == IF ~trim THEN padded
                 ELSE IF TrimRight(padded, "0") = <<>> THEN <<"0">> ELSE TrimRight(padded, "0")
    IN  Sign(raw) \o DigitsOf[Magnitude(raw) \div divisor] \o <<".">> \o shown

RangeText(cell, kind, fd) ==
    CASE kind = "int" -> FormatInt(AsInt64(cell))
      [] kind = "uint" -> FormatInt(AsUint64(cell))
      [] kind = "decimal64" -> FormatFixed(AsInt64(cell), fd, FALSE)
ExtractRange(parts, kind, fd) ==
    [i \in DOMAIN parts |-> [min |-> RangeText(parts[i][1], kind, fd), max |-> RangeText(parts[i][2], kind, fd)]]

(* Only the leafref that is a leaf's own type is given its target.         *)
RECURSIVE ExtractTypeInfo(_)
ExtractTypeInfo(type) ==
    LET base == RawBase(type.basetype)
    IN  [base |-> base, typedef |-> TypedefName(type)] @@
        CASE base \in SignedBases -> [range |-> ExtractRange(type.parts, "int", 0)]
          [] base \in UnsignedBases -> [range |-> ExtractRange(type.parts, "uint", 0)]
          [] base = "decimal64" -> [fd |-> type.fd, range |-> ExtractRange(type.parts, "decimal64", type.fd)]
          [] base \in {"string", "binary"} -> [length |-> ExtractRange(type.parts, "uint", 0)]
          [] base \in {"enumeration", "bits"} -> [values |-> type.values]
          [] base = "identityref" -> [bases |-> type.bases]
          [] base = "instance-identifier" -> [require |-> type.require]
          [] base = "leafref" -> [require |-> type.require, real |-> ExtractTypeInfo(type.real), target |-> 0]
          [] base = "union" -> [members |-> [i \in DOMAIN type.members |-> ExtractTypeInfo(type.members[i])]]
          [] OTHER -> <<>>
UnknownType == [base |-> "unknown", typedef |-> NoTypedef]
LeafTypeInfo(n) ==
    IF n.nodetype \notin {4, 8} THEN UnknownType
    ELSE IF RawBase(n.type.basetype) # "leafref" THEN ExtractTypeInfo(n.type)
    ELSE [ExtractTypeInfo(n.type) EXCEPT !.target = n.type.target]

(* Bounds are those of a list or leaf-list; 0 is no minimum and UINT32_MAX *)
(* no maximum.                                                             *)
Unset == <<>>
MinElements(n) == IF n.nodetype \in {8, 16} /\ n.min # 0 THEN <<n.min>> ELSE Unset
MaxElements(n) == IF n.nodetype \in {8, 16} /\ n.max \notin {0, NoMax} THEN <<n.max>> ELSE Unset

RawAttributes(n) ==
    [kind |-> SchemaKindName(n.nodetype),
     config |-> CASE ConfigBits(n.flags) = Lys.configR -> "ro" [] ConfigBits(n.flags) = Lys.configW -> "rw" [] OTHER -> "unset",
     status |-> CASE StatusBits(n.flags) = Lys.deprecated -> "deprecated"
                  [] StatusBits(n.flags) = Lys.obsolete -> "obsolete" [] OTHER -> "current",
     mandatory |-> HasFlag(n.flags, Lys.mandTrue),
     presence |-> n.nodetype = 1 /\ HasFlag(n.flags, Lys.presence),
     orderedByUser |-> HasFlag(n.flags, Lys.ordByUser),
     isKey |-> HasFlag(n.flags, Lys.key),
     min |-> MinElements(n), max |-> MaxElements(n), dflts |-> n.dflts,
     leafType |-> IF n.nodetype \in {4, 8} THEN LeafTypeCoarse(RawBase(n.type.basetype)) ELSE "unknown",
     type |-> LeafTypeInfo(n)]

------------------------------------------------------------------------------
(* The public names.                                                       *)
SchemaNodeKinds == {"module", "container", "leaf", "leaf-list", "list", "choice", "case", "anydata", "anyxml",
                    "rpc", "action", "input", "output", "notification"}
KindFromRaw(kind) ==
    IF kind = "leaflist" THEN "leaf-list" ELSE IF kind \in SchemaNodeKinds THEN kind ELSE "unknown"
NodeKind(n) == KindFromRaw(SchemaKindName(n.nodetype))
BaseFromRaw(base) == IF base \in ToSet(Bases) THEN base ELSE "unknown"
ConfigFromRaw(config) == IF config = "ro" THEN "ro" ELSE "rw"

Attributes(n) ==
    LET raw == RawAttributes(n) IN
    [kind |-> NodeKind(n), config |-> ConfigFromRaw(raw.config), status |-> raw.status,
     mandatory |-> raw.mandatory, presence |-> raw.presence, isKey |-> raw.isKey,
     orderedBy |-> IF raw.orderedByUser THEN "user" ELSE "system",
     min |-> raw.min, max |-> raw.max, dflts |-> raw.dflts, type |-> raw.type]

------------------------------------------------------------------------------
(* The typed value of the canonical text of a leaf.  A base64 text is the  *)
(* mark of its encoding and what it encodes.                               *)
ParseFixed(s, fd) ==
    LET u == Unsigned(s)
        frac == After(u, ".")
        scaled == NumberOf(Before(u, ".")) * 10 ^ fd + NumberOf(SubSeq(frac \o Zeros(fd), 1, fd))
    IN  AsInt64(Cell(WithSign(s, AsInt64(Cell(scaled)))))
Decoded(base64) == Tail(base64)

Typed(kind, value) == [kind |-> kind, value |-> value]
RECURSIVE ParseValue(_, _)
ParseValue(s, type) ==
    CASE type.base = "leafref" -> ParseValue(s, type.real)
      [] type.base \in IntegerBases -> Typed(type.base, Integer(s))
      [] type.base = "decimal64" -> Typed("decimal64", <<ParseFixed(s, type.fd), type.fd>>)
      [] type.base = "boolean" -> Typed("boolean", s = <<"true">>)
      [] type.base = "empty" -> Typed("empty", <<>>)
      [] type.base = "binary" -> Typed("binary", Decoded(s))
      [] type.base = "bits" -> Typed("bits", BitNames(s))
      [] type.base \in {"enumeration", "identityref", "instance-identifier"} -> Typed(type.base, s)
      [] OTHER -> Typed("string", s)
=============================================================================
