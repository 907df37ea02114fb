---------------------------- MODULE XmlDocuments ----------------------------
(***************************************************************************)
(* Reading and writing the pure-Go data tree as XML (go/datatree).         *)
(*                                                                         *)
(* A document is a sequence of elements as they are written: the prefix and*)
(* name, the declarations of namespaces in order (the prefix "" for the    *)
(* default), the text and the elements inside.  Reading finds the namespace*)
(* of each element and the scope its text is read in; then the elements of *)
(* a name are bound to the schema node of that name and namespace.         *)
(***************************************************************************)
EXTENDS InstanceIds

CONSTANTS ComputeXml(_, _),     \* as Compute, for the operators of this part
          MaxXMLNestingDepth,
          XmlQuestions          \* the schemas, documents and values asked about

VARIABLE xml  \* what was read, and whether it has been written and read again

WithNSDecls_OuterFirst(scope, decls) ==
    LET all == FoldLeft(LAMBDA sc, d : sc @@ (d[1] :> d[2]), scope, decls)
    IN  [p \in {p \in DOMAIN all : all[p] # ""} |-> all[p]]
WithNSDecls(scope, decls) ==  \* an empty name unbinds
    LET all == FoldLeft(LAMBDA sc, d : (d[1] :> d[2]) @@ sc, scope, decls)
    IN  [p \in {p \in DOMAIN all : all[p] # ""} |-> all[p]]

(* An unbound prefix is taken for the namespace.                           *)
NamespaceOf(prefix, scope) ==
    IF prefix \in DOMAIN scope THEN scope[prefix] ELSE prefix

RECURSIVE DecodeXMLElem(_, _, _)
DecodeXMLElem(e, scope, depth) ==
    LET own == WithNSDecls(scope, e.decls)
        kids == [i \in DOMAIN e.kids |-> DecodeXMLElem(e.kids[i], own, depth + 1)]
    IN  [ok |-> depth <= MaxXMLNestingDepth /\ \A i \in DOMAIN kids : kids[i].ok,
         name |-> <<NamespaceOf(e.prefix, own), e.name>>, text |-> e.text, scope |-> own, kids |-> kids]

SchemaXMLName(id) == <<SchemaNamespace(id), Node(id).name>>

(* The children of the schema that have elements, in schema order; an      *)
(* element that no child takes is an error.                                *)
RECURSIVE BindXML(_, _), BindXMLNode(_, _)
BindXML(ids, elems) ==
    LET of(id) == SelectSeq(elems, LAMBDA e : e.name = SchemaXMLName(id))
        here == SelectSeq(ids, LAMBDA id : of(id) # <<>>)
        bound == [i \in DOMAIN here |-> BindXMLNode(here[i], of(here[i]))]
    IN  [ok |-> /\ \A e \in ToSet(elems) : \E i \in DOMAIN here : SchemaXMLName(here[i]) = e.name
                /\ \A i \in DOMAIN bound : bound[i].ok,
         nodes |-> [i \in DOMAIN bound |-> bound[i].node]]

BindXMLNode(id, group) ==
    LET sn == Node(id)
        token(e) == CanonicalLeafToken(id, JsonTokenFromText(sn.type, e.text, sn.mod, e.scope))
        sets == [i \in DOMAIN group |-> BindXML(AppendFlattened(sn.kids), group[i].kids)]
        value == sn.kind \in {"leaf", "leaf-list"}
    IN  [ok |-> /\ sn.kind \in {"leaf", "leaf-list", "container", "list"}
                /\ sn.kind \in {"leaf", "container"} => Len(group) = 1
                /\ \A i \in DOMAIN group : IF value THEN group[i].kids = <<>>
                                           ELSE Trimmed(group[i].text) = <<>> /\ sets[i].ok,
         node |-> SortSystemOrdered(
            [sn |-> id, vals |-> IF value THEN [i \in DOMAIN group |-> token(group[i])] ELSE <<>>,
             sets |-> IF value THEN <<>> ELSE [i \in DOMAIN sets |-> KeysFirst(id, sets[i].nodes)]])]

ParseXML(elems) ==
    LET roots == [i \in DOMAIN elems |-> DecodeXMLElem(elems[i], <<>>, 1)] IN
    IF \A i \in DOMAIN roots : roots[i].ok THEN BindXML(AppendFlattened(TopLevelSchema), roots) ELSE NoTree

------------------------------------------------------------------------------
(* Writing: a default namespace where it is not the parent's, and what a   *)
(* value needs on its own element.                                         *)
NewNamespace(id, parentNS) ==
    IF SchemaNamespace(id) = parentNS THEN <<>> ELSE <<<<"", SchemaNamespace(id)>>>>
Element(id, decls, text, kids) == [prefix |-> "", name |-> Node(id).name, decls |-> decls, text |-> text, kids |-> kids]

RECURSIVE SerializeXML(_, _)
SerializeXML(nodes, parentNS) ==
    Concat([i \in DOMAIN nodes |->
        LET n == nodes[i]
            ns == NewNamespace(n.sn, parentNS)
            text(tok) == XmlValueText(Node(n.sn).type, tok, Node(n.sn).mod)
        IN  [k \in DOMAIN n.vals |-> LET v == text(n.vals[k]) IN Element(n.sn, ns \o v.decls, v.text, <<>>)]
            \o [k \in DOMAIN n.sets |-> Element(n.sn, ns, <<>>, SerializeXML(n.sets[k], SchemaNamespace(n.sn)))]])

------------------------------------------------------------------------------
XmlIdle == xml = [step |-> "none", doc |-> NoTree]
AskXml == Unasked /\ \E q \in XmlQuestions : Ask("xml", q) /\ UNCHANGED xml
ReadXml ==
    /\ Asked("xml") /\ xml.step = "none"
    /\ xml' = [step |-> "read", doc |-> ComputeXml("ParseXML", <<probe.question.elements>>)]
    /\ UNCHANGED probe
RewriteXml ==
    /\ Asked("xml") /\ xml.step = "read" /\ xml.doc.ok
    /\ xml' = [step |-> "rewritten",
               doc |-> ComputeXml("ParseXML", <<ComputeXml("SerializeXML", <<xml.doc.nodes, "">>)>>)]
    /\ UNCHANGED probe
XmlNext == AskXml \/ ReadXml \/ RewriteXml

------------------------------------------------------------------------------
(* What a path names, found in the tree entry by entry: a position is that *)
(* among the entries of one list.                                          *)
RECURSIVE Exists(_, _)
Exists(path, level) ==
    LET st == Head(path)
        n == InstanceAt(level, st.id)
        holds(k, p) == CASE p[1] = "pos" -> k = p[2]
                         [] p[1] = "value" -> n.vals[k] = p[2]
                         [] OTHER -> Instances(n.sets[k], p[1]) # {} /\ InstanceAt(n.sets[k], p[1]).vals[1] = p[2]
        met == {k \in 1 .. Len(n.vals) + Len(n.sets) : \A p \in ToSet(st.preds) : holds(k, p)}
    IN  /\ Instances(level, st.id) # {}
        /\ IF Len(path) = 1 THEN met # {} ELSE \E k \in met : Exists(Tail(path), n.sets[k])

(* A document says the same in XML, with any prefixes, as in JSON, with any*)
(* qualifiers; it is written and read back as the same tree in either      *)
(* form; and a required instance is missed exactly when the node its path  *)
(* names is not in the tree (bindXML, jsonTokenFromText,                   *)
(* renderInstanceIdentifierPrefixed, checkInstanceIdentifier).             *)
EncodingsAgree ==
    Asked("xml") /\ xml.step # "none" =>
      LET q == probe.question
          json == ComputeXml("Parse", <<q.object>>)
      IN  /\ IF json.ok THEN xml.doc = json ELSE ~xml.doc.ok
          /\ json.ok /\ xml.step = "read" =>
               /\ ComputeXml("Parse", <<ComputeXml("WriteObject", <<json.nodes>>)>>) = json
               /\ ComputeXml("CheckInstances", <<json.nodes>>)
                    = UNION {When(~Exists(r.path, json.nodes), "instance", r.leaf) : r \in q.required}
=============================================================================
