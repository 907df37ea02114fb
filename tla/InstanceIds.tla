----------------------------- MODULE InstanceIds -----------------------------
(***************************************************************************)
(* Values that name schema nodes and identities (go/datatree): instance-   *)
(* identifiers and identityrefs, whose text depends on the encoding.  XML  *)
(* qualifies names with prefixes bound in the document, JSON with module   *)
(* names where the module changes; a tree holds the canonical JSON form.   *)
(* Also the check that a required instance exists.                         *)
(*                                                                         *)
(* Texts are those of DataValues, an identifier being one element.  The    *)
(* schema says of each module, under "about", its namespace, prefix and    *)
(* imports, pairs of a prefix and a module.  A scope maps the prefixes that*)
(* are bound to namespaces; an identityref type has the identities it can  *)
(* find, pairs of a module and a name, as "named".                         *)
(***************************************************************************)
EXTENDS PureTree

About(m) == Sch.about[m]
Namespace(m) == About(m).ns
SchemaNamespace(id) == Namespace(Node(id).mod)

------------------------------------------------------------------------------
(* Parsing.  A parser returns whether the text matches, what it reads and  *)
(* the rest of the text.                                                   *)
Punctuation == {"/", ":", "[", "]", "=", ".", "'", "\"", " ", "+", "-"} \cup ToSet(DigitChars)
Starts(s, chars) == s # <<>> /\ Head(s) \in chars

SkipWS(s) == LET at == {i \in DOMAIN s : s[i] # " "} IN
    IF at = {} THEN <<>> ELSE SubSeq(s, CHOOSE i \in at : \A j \in at : i <= j, Len(s))
Trimmed(s) == TrimRight(SkipWS(s), " ")

NoReading == [ok |-> FALSE, rest |-> <<>>]
Ident(s, k) == Len(s) >= k /\ s[k] \notin Punctuation
QName(s) ==
    LET qualified == Len(s) >= 2 /\ s[2] = ":" IN
    IF ~Ident(s, 1) \/ (qualified /\ ~Ident(s, 3)) THEN NoReading
    ELSE IF qualified THEN [ok |-> TRUE, qual |-> s[1], name |-> s[3], rest |-> SubSeq(s, 4, Len(s))]
    ELSE [ok |-> TRUE, qual |-> "", name |-> s[1], rest |-> Tail(s)]

QuotedText(s) ==
    IF ~Starts(s, {"'", "\""}) \/ ~Contains(Tail(s), Head(s)) THEN NoReading
    ELSE [ok |-> TRUE, value |-> Before(Tail(s), Head(s)), rest |-> After(Tail(s), Head(s))]

Digits(s) ==
    LET others == {i \in DOMAIN s : s[i] \notin ToSet(DigitChars)}
    IN  SubSeq(s, 1, IF others = {} THEN Len(s) ELSE (CHOOSE i \in others : \A j \in others : i <= j) - 1)

(* The predicate after a "[": [key='v'], [.='v'] or [N].                   *)
Closed(s, pred) ==
    IF Starts(SkipWS(s), {"]"}) THEN [ok |-> TRUE, pred |-> pred, rest |-> Tail(SkipWS(s))] ELSE NoReading
WithValue(s, pred) ==
    LET v == QuotedText(SkipWS(Tail(SkipWS(s)))) IN
    IF Starts(SkipWS(s), {"="}) /\ v.ok THEN Closed(v.rest, [pred EXCEPT !.value = v.value]) ELSE NoReading
Pred(kind, qual, name, value) == [kind |-> kind, qual |-> qual, name |-> name, value |-> value]
ParsePred(s) ==
    LET q == QName(s) IN
    CASE Starts(s, {"."}) -> WithValue(Tail(s), Pred("leaf-list", "", "", <<>>))
      [] Starts(s, ToSet(DigitChars) \ {"0"}) ->
           Closed(SubSeq(s, Len(Digits(s)) + 1, Len(s)), Pred("pos", "", "", Digits(s)))
      [] OTHER -> IF q.ok THEN WithValue(q.rest, Pred("key", q.qual, q.name, <<>>)) ELSE NoReading

RECURSIVE ParsePreds(_, _), ReadSteps(_)
ParsePreds(s, preds) ==
    LET p == ParsePred(SkipWS(Tail(s))) IN
    IF ~Starts(s, {"["}) THEN [ok |-> TRUE, preds |-> preds, rest |-> s]
    ELSE IF ~p.ok THEN NoReading ELSE ParsePreds(p.rest, Append(preds, p.pred))
ReadSteps(s) ==
    LET q == QName(Tail(s))
        p == ParsePreds(q.rest, <<>>)
        more == ReadSteps(p.rest)
    IN  IF s = <<>> THEN [ok |-> TRUE, steps |-> <<>>]
        ELSE IF ~Starts(s, {"/"}) \/ ~q.ok \/ ~p.ok \/ ~more.ok THEN [ok |-> FALSE, steps |-> <<>>]
        ELSE [ok |-> TRUE, steps |-> <<[qual |-> q.qual, name |-> q.name, preds |-> p.preds]>> \o more.steps]
ParseInstanceIdentifier(s) == IF s = <<>> THEN [ok |-> FALSE, steps |-> <<>>] ELSE ReadSteps(s)

------------------------------------------------------------------------------
(* What prefixes and module names stand for.                               *)
PrefixesOf(m) ==
    [p \in {"", About(m).prefix, m} |-> m]
    @@ [p \in {imp[1] : imp \in ToSet(About(m).imports)} |->
          LET imp == CHOOSE i \in DOMAIN About(m).imports :
                        /\ About(m).imports[i][1] = p
                        /\ \A j \in DOMAIN About(m).imports : About(m).imports[j][1] = p => j <= i
          IN  About(m).imports[imp][2]]

(* The modules a module imports, transitively, breadth first.              *)
RECURSIVE Closure(_, _)
Closure(ms, i) ==
    IF i > Len(ms) THEN ms
    ELSE Closure(FoldLeft(LAMBDA out, imp : LET dep == PrefixesOf(ms[i])[imp[1]] IN
                              IF Contains(out, dep) THEN out ELSE Append(out, dep),
                          ms, About(ms[i]).imports), i + 1)
ModuleClosure(m) == Closure(<<m>>, 1)
ModuleNameScope(mods, local) == ("" :> Namespace(local)) @@ [m \in ToSet(mods) |-> Namespace(m)]

IdentityFromJSON(tok, t, mod) ==
    LET q == QualifiedIdentity(tok.text, mod) IN
    IF tok.shape # "string" THEN {}
    ELSE {id \in t.named : <<id[1]>> = Before(q, ":") /\ <<id[2]>> = After(q, ":")}
IdentityrefJSONName(text, t, mod, scope) ==
    LET prefix == IF Contains(text, ":") THEN Before(text, ":") ELSE <<"">>
        local == IF Contains(text, ":") THEN After(text, ":") ELSE text
        found == {id \in t.named : <<id[2]>> = local /\ Namespace(id[1]) = scope[Head(prefix)]}
        id == CHOOSE id \in found : TRUE
    IN  IF Len(prefix) # 1 \/ Head(prefix) \notin DOMAIN scope \/ found = {} THEN NoText
        ELSE IF id[1] = mod THEN <<id[2]>> ELSE <<id[1], ":", id[2]>>

------------------------------------------------------------------------------
(* From text to token, and from parsed steps to schema nodes.  Names are   *)
(* qualified by prefixes of a scope, or by the names of the modules known, *)
(* an absent one being the parent's module.                                *)
LexicalNames(scope) == [json |-> FALSE, scope |-> scope, mods |-> <<>>]
JSONNames(mods) == [json |-> TRUE, scope |-> <<>>, mods |-> mods]

MatchesName(names, id, qual, parent) ==
    IF names.json THEN (IF qual = "" THEN parent ELSE qual) = Node(id).mod
    ELSE qual \in DOMAIN names.scope /\ names.scope[qual] = SchemaNamespace(id)

JsonTokenFromIntegerText(text, kind) ==
    LET s == Trimmed(text) IN
    CASE Len(s) > MaxLexical -> IF Quoted(kind) \/ ~JSONInteger(s) THEN Str(s) ELSE Num(s)
      [] Len(s) <= MaxLexical /\ IsInteger(s) -> IntegerToken(Integer(s), kind)
      [] OTHER -> Str(text)

(* The identity a valid value names, if it is an identityref's.            *)
RECURSIVE IdentityOfType(_, _, _)
IdentityOfType(t, tok, mod) ==
    LET i == FirstMatch(t.members, tok, mod) IN
    CASE t.base = "identityref" -> IdentityFromJSON(tok, t, mod)
      [] t.base = "leafref" -> IdentityOfType(t.real, tok, mod)
      [] t.base = "union" /\ i # 0 -> IdentityOfType(t.members[i], tok, mod)
      [] OTHER -> {}
IdentityValue(id, tok) == IdentityOfType(Node(id).type, tok, Node(id).mod)

XmlTextFromToken(tok) ==
    CASE tok.shape = "empty" -> <<>>
      [] tok.shape = "bool" -> IF tok.text = <<"1">> THEN <<"true">> ELSE <<"false">>
      [] OTHER -> tok.text

(* A predicate as text, or none if its value has both quotes.              *)
WriteIIDPred(p, keyPrefix, value) ==
    LET quote == IF Contains(value, "'") THEN "\"" ELSE "'"
        key == IF p.kind = "leaf-list" THEN <<".">>
               ELSE IF keyPrefix = "" THEN <<Node(p.leaf).name>> ELSE <<keyPrefix, ":", Node(p.leaf).name>>
    IN  IF p.kind = "pos" THEN <<"[">> \o p.pos \o <<"]">>
        ELSE IF Contains(value, "'") /\ Contains(value, "\"") THEN NoText
        ELSE <<"[">> \o key \o <<"=", quote>> \o value \o <<quote, "]">>

Joined(texts) == IF Contains(texts, NoText) THEN NoText ELSE Concat(texts)

IdentityText(p, qualifier) ==
    LET ids == IdentityValue(p.leaf, p.token)
        id == CHOOSE id \in ids : TRUE
    IN  IF ids = {} \/ qualifier = <<>> THEN XmlTextFromToken(p.token) ELSE <<qualifier[id[1]], ":", id[2]>>

(* The canonical form: the module where it changes, bare keys, identities  *)
(* qualified.                                                              *)
RenderJSON(nodes) ==
    LET own == [m \in DOMAIN Sch.about |-> m]
        pred(p) == WriteIIDPred(p, "", IF p.kind = "pos" THEN <<>> ELSE IdentityText(p, own))
        step(i) == LET n == Node(nodes[i].node) IN
            <<"/">> \o (IF i > 1 /\ Node(nodes[i - 1].node).mod = n.mod THEN <<>> ELSE <<n.mod, ":">>)
            \o <<n.name>>
    IN  Joined([i \in DOMAIN nodes |->
            Joined(<<step(i)>> \o [k \in DOMAIN nodes[i].preds |-> pred(nodes[i].preds[k])])])

(* The form with each module's own prefix and its declarations, in the     *)
(* order of use; for XPath, identities stay as a leaf holds them.  None if *)
(* two modules used have the same prefix.                                  *)
ModulesUsed(nodes, forXPath) ==
    LET identity(p) == IF p.kind = "pos" \/ forXPath THEN {} ELSE IdentityValue(p.leaf, p.token)
        used(p) == (IF identity(p) = {} THEN <<>> ELSE <<(CHOOSE id \in identity(p) : TRUE)[1]>>)
                   \o (IF p.kind = "key" THEN <<Node(p.leaf).mod>> ELSE <<>>)
    IN  Concat([i \in DOMAIN nodes |-> <<Node(nodes[i].node).mod>>
            \o Concat([k \in DOMAIN nodes[i].preds |-> used(nodes[i].preds[k])])])
Declarations(mods) ==
    FoldLeft(LAMBDA ds, m : IF \E d \in ToSet(ds) : d[1] = About(m).prefix THEN ds
                            ELSE Append(ds, <<About(m).prefix, Namespace(m)>>), <<>>, mods)
RenderPrefixed(nodes, forXPath) ==
    LET prefix == [m \in DOMAIN Sch.about |-> About(m).prefix]
        used == ModulesUsed(nodes, forXPath)
        pred(p) == WriteIIDPred(p, IF p.kind = "key" THEN prefix[Node(p.leaf).mod] ELSE "",
            IF p.kind = "pos" THEN <<>> ELSE IdentityText(p, IF forXPath THEN <<>> ELSE prefix))
        step(n) == <<"/", prefix[n.mod], ":", n.name>>
        conflict == \E m, n \in ToSet(used) : prefix[m] = prefix[n] /\ Namespace(m) # Namespace(n)
    IN  [text |-> IF conflict THEN NoText
                  ELSE Joined([i \in DOMAIN nodes |-> Joined(<<step(Node(nodes[i].node))>>
                           \o [k \in DOMAIN nodes[i].preds |-> pred(nodes[i].preds[k])])]),
         decls |-> Declarations(used)]

NoNodes == <<>>
RECURSIVE JsonTokenFromText(_, _, _, _), Resolve(_, _, _)
(* From text to token, as its type reads it.                               *)
JsonTokenFromText(t, text, mod, scope) ==
    LET s == Trimmed(text)
        trial == [i \in DOMAIN t.members |-> JsonTokenFromText(t.members[i], text, mod, scope)]
        fits == {i \in DOMAIN t.members : ValidateLeafValue(t.members[i], trial[i], mod)}
        name == IdentityrefJSONName(text, t, mod, scope)
        found == Resolve(s, mod, LexicalNames(scope))
        path == IF found = NoNodes THEN NoText ELSE RenderJSON(found)
    IN  CASE t.base = "boolean" /\ s \in {<<"true">>, <<"false">>} ->
               [shape |-> "bool", text |-> IF s = <<"true">> THEN <<"1">> ELSE <<"0">>]
          [] t.base = "empty" /\ s = <<>> -> [shape |-> "empty", text |-> <<"null">>]
          [] t.base = "int" -> JsonTokenFromIntegerText(text, t.kind)
          [] t.base = "union" /\ fits # {} -> trial[CHOOSE i \in fits : \A j \in fits : i <= j]
          [] t.base = "leafref" -> JsonTokenFromText(t.real, text, mod, scope)
          [] t.base = "identityref" /\ name # NoText -> Str(name)
          [] t.base = "instance-identifier" /\ path # NoText -> Str(path)
          [] OTHER -> Str(text)

(* The nodes a text names in a leaf of a module: the first by each name    *)
(* among the top-level nodes of the modules it reaches, then the children. *)
Resolve(text, mod, names) ==
    LET steps == ParseInstanceIdentifier(text)
        First(ids, name, qual, parent) ==
            SelectSeq(ids, LAMBDA id : Node(id).name = name /\ MatchesName(names, id, qual, parent))
        token(leaf, value) ==
            LET own == Node(leaf).mod
                scope == IF names.json THEN ModuleNameScope(names.mods, own) ELSE names.scope
            IN  CanonicalToken(Node(leaf).type, JsonTokenFromText(Node(leaf).type, value, own, scope), own)
        leafOf(id, p) ==
            CASE p.kind = "pos" -> <<id>>
              [] p.kind = "key" ->
                   IF Node(id).kind = "list" THEN First(Node(id).keys, p.name, p.qual, Node(id).mod) ELSE <<>>
              [] p.kind = "leaf-list" -> IF Node(id).kind # "leaf-list" THEN <<>> ELSE <<id>>
        resolved(id, p) ==
            [kind |-> p.kind, leaf |-> leafOf(id, p)[1], pos |-> p.value,
             token |-> IF p.kind = "pos" THEN Str(<<>>) ELSE token(leafOf(id, p)[1], p.value)]
        Take(acc, st) ==
            LET hits == First(acc.ids, st.name, st.qual, acc.parent)
                id == hits[1]
            IN  IF ~acc.ok \/ hits = <<>> \/ \E p \in ToSet(st.preds) : leafOf(id, p) = <<>>
                THEN [acc EXCEPT !.ok = FALSE, !.nodes = NoNodes]
                ELSE [ok |-> TRUE, nodes |-> Append(acc.nodes, [node |-> id,
                                  preds |-> [k \in DOMAIN st.preds |-> resolved(id, st.preds[k])]]),
                      parent |-> Node(id).mod, ids |-> AppendFlattened(Node(id).kids)]
        reached == ModuleClosure(mod)
        tops == Concat([i \in DOMAIN reached |-> AppendFlattened(Sch.tops[reached[i]])])
    IN  IF ~steps.ok THEN NoNodes
        ELSE FoldLeft(Take, [ok |-> TRUE, nodes |-> <<>>, parent |-> "", ids |-> tops], steps.steps).nodes

ResolveJSON(text, mod) == Resolve(text, mod, JSONNames(ModuleClosure(mod)))
CanonicalInstanceIdentifier(text, mod) ==
    LET nodes == ResolveJSON(text, mod) IN IF nodes = NoNodes THEN NoText ELSE RenderJSON(nodes)

(* A token as XML text, with the declarations its element needs.           *)
Plain(tok) == [text |-> XmlTextFromToken(tok), decls |-> <<>>]
RECURSIVE XmlValueText(_, _, _)
XmlValueText(t, tok, mod) ==
    LET ids == IdentityFromJSON(tok, t, mod)
        id == CHOOSE id \in ids : TRUE
        nodes == ResolveJSON(tok.text, mod)
        xml == RenderPrefixed(nodes, FALSE)
        i == FirstMatch(t.members, tok, mod)
    IN  CASE t.base = "identityref" -> IF ids = {} \/ id[1] = mod THEN Plain(tok)
               ELSE [text |-> <<About(id[1]).prefix, ":", id[2]>>, decls |-> Declarations(<<id[1]>>)]
          [] t.base = "instance-identifier" ->
               IF tok.shape # "string" \/ nodes = NoNodes \/ xml.text = NoText THEN Plain(tok) ELSE xml
          [] t.base = "leafref" -> XmlValueText(t.real, tok, mod)
          [] t.base = "union" /\ i # 0 -> XmlValueText(t.members[i], tok, mod)
          [] OTHER -> Plain(tok)

------------------------------------------------------------------------------
(* Evaluating a path in a tree, as XPath.  Steps have the module and name  *)
(* of the node, predicates the text compared with; a module is "" where the*)
(* prefix is not bound.                                                    *)
Elements(level) ==
    Concat([i \in DOMAIN level |->
        [k \in DOMAIN level[i].vals |-> [sn |-> level[i].sn, text |-> XmlTextFromToken(level[i].vals[k]), kids |-> <<>>]]
        \o [k \in DOMAIN level[i].sets |-> [sn |-> level[i].sn, text |-> <<>>, kids |-> level[i].sets[k]]]])
RECURSIVE Content(_)
Content(x) ==
    x.text \o Concat([i \in DOMAIN Elements(x.kids) |-> Content(Elements(x.kids)[i])])
NamedNodes(xs, mod, name) == SelectSeq(xs, LAMBDA x : Node(x.sn).mod = mod /\ Node(x.sn).name = name)

(* A predicate filters all the nodes its step reached.  An unbound prefix  *)
(* is an error as soon as there is a node to compare.                      *)
Filter(v, p) ==
    LET has(x) == \E y \in ToSet(NamedNodes(Elements(x.kids), p.mod, p.name)) : Content(y) = p.value IN
    CASE p.kind = "pos" ->
           [v EXCEPT !.found = IF NumberOf(p.value) \in DOMAIN @ THEN <<@[NumberOf(p.value)]>> ELSE <<>>]
      [] p.kind = "leaf-list" -> [v EXCEPT !.found = SelectSeq(@, LAMBDA x : Content(x) = p.value)]
      [] p.kind = "key" ->
           [found |-> SelectSeq(v.found, has),
            failed |-> v.failed \/ (p.mod = "" /\ \E x \in ToSet(v.found) : Elements(x.kids) # <<>>)]
EvalPath(steps, roots) ==
    FoldLeft(LAMBDA acc, st :
        LET xs == Elements(acc.level)
            v == FoldLeft(Filter, [found |-> NamedNodes(xs, st.mod, st.name),
                                   failed |-> acc.failed \/ (st.mod = "" /\ xs # <<>>)], st.preds)
        IN  [failed |-> v.failed, found |-> v.found,
             level |-> Concat([i \in DOMAIN v.found |-> v.found[i].kids])],
        [failed |-> FALSE, found |-> <<>>, level |-> roots], steps)

(* A value that resolves is evaluated with its modules bound; any other as *)
(* written, with the prefixes of the leaf's module.                        *)
ResolvedPath(nodes) ==
    [i \in DOMAIN nodes |-> LET n == Node(nodes[i].node) IN
        [mod |-> n.mod, name |-> n.name,
         preds |-> [k \in DOMAIN nodes[i].preds |-> LET p == nodes[i].preds[k] IN
            [kind |-> p.kind, mod |-> Node(p.leaf).mod, name |-> Node(p.leaf).name,
             value |-> IF p.kind = "pos" THEN p.pos ELSE XmlTextFromToken(p.token)]]]]
WrittenPath(text, mod) ==
    LET bound == PrefixesOf(mod)
        of(qual) == IF qual \in DOMAIN bound THEN bound[qual] ELSE ""
        steps == ParseInstanceIdentifier(text).steps
    IN  [i \in DOMAIN steps |-> [mod |-> of(steps[i].qual), name |-> steps[i].name,
            preds |-> [k \in DOMAIN steps[i].preds |-> LET p == steps[i].preds[k] IN
                [kind |-> p.kind, mod |-> of(p.qual), name |-> p.name, value |-> p.value]]]]

(* The leaves whose required instance is not there.                        *)
CheckInstanceIdentifier(id, tok, roots) ==
    LET t == Node(id).type
        nodes == ResolveJSON(tok.text, Node(id).mod)
        path == IF nodes # NoNodes /\ RenderPrefixed(nodes, TRUE).text # NoText THEN ResolvedPath(nodes)
                ELSE WrittenPath(tok.text, Node(id).mod)
        v == EvalPath(path, roots)
    IN  When(/\ t.base = "instance-identifier" /\ t.require
             /\ path # <<>> /\ ~v.failed /\ v.found = <<>>, "instance", id)
RECURSIVE CheckInstances(_, _)
CheckInstances(level, roots) ==
    UNION {UNION {CheckInstanceIdentifier(level[i].sn, level[i].vals[k], roots) : k \in DOMAIN level[i].vals}
           \cup UNION {CheckInstances(level[i].sets[k], roots) : k \in DOMAIN level[i].sets} : i \in DOMAIN level}
=============================================================================
