------------------------------ MODULE CompatAST ------------------------------
(***************************************************************************)
(* The syntax trees of the records of a module set and the lookups in them *)
(* (go/compat/ast.go): a node by a path, a grouping, an extension, a module*)
(* by its prefix.  A module made by hand (an ASTModule) has the same tree; *)
(* lookups that need its root clone it into a module set of its own.       *)
(*                                                                         *)
(* A node knows its parent, so a node of a tree is the chain of nodes from *)
(* the root of the tree to it.                                             *)
(***************************************************************************)
EXTENDS CompatNodes, CompatModules

CONSTANTS
    Qualified,    \* the names that have a prefix, with prefix and local name
    AstPrograms   \* texts and lookups

VARIABLE ast

splitPrefix(s) == IF s \in DOMAIN Qualified THEN Qualified[s] ELSE <<"", s>>
TrimPrefix(p, s) == IF p # "" /\ splitPrefix(s)[1] = p THEN splitPrefix(s)[2] ELSE s

------------------------------------------------------------------------------
(* Trees.  A node's identity: the tree it is in (of a record, made by hand,*)
(* a clone, or made for a lookup), the module's full name and the positions*)
(* of the statements above it.                                             *)
NoId == [tree |-> "none", of |-> <<"", "">>, pos |-> <<>>]
Id(tree, key) == [NoId EXCEPT !.tree = tree, !.of = key]

(* extensionStatements, with their positions.                              *)
extensionStatements(st) ==
    LET at == SetToSortSeq({i \in DOMAIN st.subs : st.subs[i].pfx # ""}, <) IN
    [j \in DOMAIN at |-> [at |-> at[j], st |-> st.subs[at[j]]]]
kindOf(kw) == IF kw \in DOMAIN fieldsOf THEN kw ELSE "value"
kidsOf(n, kw) == IF kw \in DOMAIN n.kids THEN n.kids[kw] ELSE <<>>
Arg(n, kw) == IF kidsOf(n, kw) = <<>> THEN "" ELSE kidsOf(n, kw)[1].name

(* The positions of the substatements a node of a kind takes: all of them, *)
(* or the first; of the augments of a uses the last.                       *)
Taken(kind, st, kw) ==
    LET at == SetToSortSeq({i \in DOMAIN st.subs : st.subs[i].pfx = "" /\ st.subs[i].kw = kw}, <) IN
    IF kw \in parsedAs[kind].many \/ at = <<>> THEN at
    ELSE IF kind = "uses" /\ kw = "augment" THEN <<Last(at)>> ELSE <<at[1]>>

(* xFromStatement; the defaults of a leaf-list have no extensions.         *)
RECURSIVE NodeFrom(_, _, _, _)
NodeFrom(kind, st, id, parent) ==
    LET kid(kw, i) ==
          LET k == NodeFrom(kindOf(kw), st.subs[i], [id EXCEPT !.pos = Append(@, i)], id)
          IN  IF kind = "leaf-list" /\ kw = "default" THEN [k EXCEPT !.exts = <<>>] ELSE k
    IN  [id |-> id, parent |-> parent, kind |-> kind, name |-> st.arg, source |-> st,
         exts |-> extensionStatements(st),
         kids |-> [kw \in parsedAs[kind].one \cup parsedAs[kind].many |->
                     LET at == Taken(kind, st, kw) IN [j \in DOMAIN at |-> kid(kw, at[j])]]]

(* cloneXWithParent.                                                       *)
RECURSIVE CloneNode(_, _)
CloneNode(n, parent) ==
    LET id == [n.id EXCEPT !.tree = "clone"] IN
    [n EXCEPT !.id = id, !.parent = parent,
              !.kids = [kw \in clonedAs[n.kind] |->
                          [j \in DOMAIN kidsOf(n, kw) |-> CloneNode(kidsOf(n, kw)[j], id)]]]

RecordTree(ms, i) ==
    LET rec == ms.records[i] IN
    NodeFrom("module", rec.source, Id("record", <<rec.name, latestRevision(rec.revisions)>>), NoId)
HandMade(ms, i) ==
    LET rec == ms.records[i]
        key == <<rec.name, latestRevision(rec.revisions)>>
    IN  [NodeFrom("module", rec.source, Id("ast", key), NoId) EXCEPT !.source = Nowhere]

------------------------------------------------------------------------------
(* Modules of a tree.                                                      *)
isSubmodule(m) == m.kids["belongs-to"] # <<>>
GetPrefix(m) == IF isSubmodule(m) THEN Arg(m.kids["belongs-to"][1], "prefix") ELSE Arg(m, "prefix")

RootNode(c) == IF c[1].id.tree = "ast" THEN CloneNode(c[1], NoId) ELSE c[1]

(* The chain of a module referred to from a tree, or <<>>.  The module set *)
(* of a clone has the clone only.                                          *)
Referred(imp) == [name |-> imp.name, prefix |-> "", date |-> Arg(imp, "revision-date")]
ModuleFor(ms, root, t, ref) ==
    LET a == Compute("FindModule", <<[files |-> {}, below |-> <<>>], ms, t, ref>>).answer IN
    IF root.id.tree = "clone"
    THEN IF t = "Modules" /\ ref.name = root.name THEN <<root>> ELSE <<>>
    ELSE IF a.ok THEN <<RecordTree(ms, a.record)>> ELSE <<>>

ModuleByImport(ms, root, prefix) ==
    LET S == SelectSeq(kidsOf(root, "import"), LAMBDA i : Arg(i, "prefix") = prefix) IN
    IF S = <<>> THEN <<>> ELSE ModuleFor(ms, root, "Modules", Referred(S[1]))

FindModuleByPrefix(ms, c, prefix) ==
    IF prefix \in {"", GetPrefix(c[1])} THEN <<RootNode(c)>> ELSE ModuleByImport(ms, c[1], prefix)

matchingExtensions(ms, c, module, identifier) ==
    LET X == Last(c).exts
        Of(x) == FindModuleByPrefix(ms, c, x.st.pfx)
    IN  IF \E i \in DOMAIN X : Of(X[i]) = <<>> THEN [ok |-> FALSE, found |-> <<>>]
        ELSE [ok |-> TRUE, found |-> SelectSeq(X, LAMBDA x : Of(x)[1].name = module /\ x.st.kw = identifier)]

------------------------------------------------------------------------------
(* FindGrouping: from the node outwards its own groupings, those of the    *)
(* import whose prefix the name has, and those of includes not yet seen.   *)
RECURSIVE GroupingFrom(_, _, _, _)
FindGrouping(ms, c, name, seen) == GroupingFrom(ms, c, TrimPrefix(GetPrefix(RootNode(c)), name), seen)
GroupingFrom(ms, c, name, seen) ==
    LET n == Last(c)
        own == SelectSeq(kidsOf(n, "grouping"), LAMBDA g : g.name = name)
        imported(s, imp) ==
          LET local == TrimPrefix(Arg(imp, "prefix"), name)
              mod   == ModuleFor(ms, RootNode(c), "Modules", Referred(imp))
          IN  IF s.found # <<>> \/ local = name \/ mod = <<>> THEN s
              ELSE FindGrouping(ms, mod, local, s.seen)
        included(s, inc) ==
          LET mod == ModuleFor(ms, RootNode(c), "SubModules", Referred(inc)) IN
          IF s.found # <<>> \/ mod = <<>> \/ mod[1].id.of \in s.seen THEN s
          ELSE FindGrouping(ms, mod, name, s.seen \cup {mod[1].id.of})
        r == FoldLeft(included, FoldLeft(imported, [found |-> <<>>, seen |-> seen], kidsOf(n, "import")),
                      kidsOf(n, "include"))
    IN  IF own # <<>> THEN [found |-> Append(c, own[1]), seen |-> seen]
        ELSE IF r.found # <<>> \/ Len(c) = 1 THEN r
        ELSE GroupingFrom(ms, Front(c), name, r.seen)

------------------------------------------------------------------------------
(* Nodes by path.  A path is absolute or not and has its steps.            *)
Found(c) == [ok |-> TRUE, at |-> c, why |-> ""]
Lost(why) == [ok |-> FALSE, at |-> <<>>, why |-> why]

(* The module an absolute path starts in.  A submodule looks other prefixes*)
(* than its own up in the imports of its module.                           *)
RootOfPath(ms, c, prefix) ==
    LET self   == RootNode(c)
        parent == <<Arg(self, "belongs-to"), "">>
        has    == self.id.tree = "record" /\ Recorded(ms, "Modules", parent)
        mod    == IF isSubmodule(self) /\ prefix \notin {"", GetPrefix(self)}
                  THEN RecordTree(ms, ms.Modules[parent]) ELSE self
    IN  IF isSubmodule(self) /\ ~has THEN <<>>
        ELSE IF prefix \in {"", GetPrefix(mod)} THEN <<mod>> ELSE ModuleByImport(ms, mod, prefix)

(* ".." leaves choices, cases and leafs out.                               *)
RECURSIVE Outside(_)
Outside(c) ==
    IF Len(c) = 1 THEN <<>>
    ELSE IF c[Len(c) - 1].kind \in {"choice", "leaf", "case"} THEN Outside(Front(c)) ELSE Front(c)

(* nodeFromStatement: the keywords a node is made for.                     *)
nodeFromStatement ==
    Payload \cup {"action", "augment", "case", "deviation", "deviate", "extension", "feature", "grouping",
                  "identity", "input", "notification", "output", "rpc", "typedef", "uses"}

RECURSIVE ChildNode(_, _, _)
FindNode(ms, c, path) ==
    LET start == IF path.abs THEN RootOfPath(ms, c, splitPrefix(path.steps[1])[1]) ELSE c
        step(r, s) ==
          LET next == IF s = ".." THEN Outside(r.at) ELSE ChildNode(ms, r.at, splitPrefix(s)[2])
          IN  IF ~r.ok THEN r
              ELSE IF Last(r.at).kind = "rpc" THEN Lost("rpc is unsupported")
              ELSE IF next = <<>> THEN Lost("no such element") ELSE Found(next)
    IN  IF start = <<>> THEN Lost("unknown prefix") ELSE FoldLeft(step, Found(start), path.steps)

(* What a uses finds: the top-level node of its name, and the child there. *)
ThroughUses(ms, c, name) ==
    LET g == FindNode(ms, c, [abs |-> TRUE, steps |-> <<Last(c).name>>]) IN
    IF g.ok THEN ChildNode(ms, g.at, name) ELSE <<>>

FirstOf(chains) == LET S == SelectSeq(chains, LAMBDA c : c # <<>>) IN IF S = <<>> THEN <<>> ELSE S[1]

(* ChildNode: extensions, then the fields of the struct in their order,    *)
(* where a uses stands for the children of its grouping, then the statement*)
(* itself and the uses in it.                                              *)
ChildNode(ms, c, name) ==
    LET n == Last(c)
        at(i) == [n.id EXCEPT !.tree = "lookup", !.pos = Append(@, i)]
        extension(x) == IF x.st.arg # name THEN <<>>
                        ELSE Append(c, [id |-> at(x.at), parent |-> n.id, kind |-> "statement", name |-> name,
                                        source |-> x.st, exts |-> <<>>, kids |-> <<>>])
        extensions == [j \in DOMAIN n.exts |-> extension(n.exts[j])]
        field(k) == IF k.kind = "uses" THEN ThroughUses(ms, Append(c, k), name)
                    ELSE IF k.name = name THEN Append(c, k) ELSE <<>>
        fields == IF n.kind \notin DOMAIN fieldsOf THEN <<>>
                  ELSE Concat([f \in DOMAIN fieldsOf[n.kind] |->
                         LET K == kidsOf(n, fieldsOf[n.kind][f]) IN [j \in DOMAIN K |-> field(K[j])]])
        made(i) == NodeFrom(n.source.subs[i].kw, n.source.subs[i], at(i), n.id)
        sources == [i \in DOMAIN n.source.subs |->
                      IF n.source.subs[i].pfx = "" /\ n.source.subs[i].arg = name
                         /\ n.source.subs[i].kw \in nodeFromStatement
                      THEN Append(c, made(i)) ELSE <<>>]
        used == [i \in DOMAIN n.source.subs |->
                   IF n.source.subs[i].pfx = "" /\ n.source.subs[i].kw = "uses"
                   THEN ThroughUses(ms, Append(c, made(i)), name) ELSE <<>>]
        walked == FirstOf(extensions \o fields)
    IN  IF walked # <<>> THEN walked ELSE FirstOf(sources \o used)

------------------------------------------------------------------------------
(* The lookups, in the record's tree and in one made by hand.  A lookup has*)
(* what it looks for, the record and the node it starts at, and a path, a  *)
(* name or the module and the name of an extension.                        *)
RECURSIVE ChainAt(_, _)
ChainAt(c, pos) ==
    LET n == Last(c)
        K == UNION {ToSet(n.kids[kw]) : kw \in DOMAIN n.kids}
        next == CHOOSE k \in K : Last(k.id.pos) = pos[1]
    IN  IF pos = <<>> THEN c ELSE ChainAt(Append(c, next), Tail(pos))

NoReply == [ok |-> FALSE, at |-> <<>>, of |-> <<"", "">>, exts |-> <<>>]
Reply(c) == IF c = <<>> THEN NoReply
            ELSE [NoReply EXCEPT !.ok = TRUE, !.at = Last(c).id.pos, !.of = Last(c).id.of]
LookUpIn(ms, root, l) ==
    LET c == ChainAt(<<root>>, l.pos)
        x == matchingExtensions(ms, c, l.module, l.name)
    IN  CASE l.what = "node" -> Reply(FindNode(ms, c, l.path).at)
          [] l.what = "grouping" -> Reply(FindGrouping(ms, c, l.name, {}).found)
          [] l.what = "prefix" -> Reply(FindModuleByPrefix(ms, c, l.name))
          [] l.what = "extensions" -> [NoReply EXCEPT !.ok = x.ok, !.exts = x.found]

NoAst == [ms |-> NewModules, parsed |-> FALSE, asked |-> <<>>, record |-> NoReply, hand |-> NoReply]
AstIdle == ast = NoAst

AskAst == Unasked /\ \E P \in AstPrograms : Ask("ast", P) /\ UNCHANGED ast

ParseAll(texts) ==
    LET step(ms, t) == Compute("ParseText", <<ms, t, NoFile>>).ms IN FoldLeft(step, NewModules, texts)

ParseAst ==
    /\ Asked("ast") /\ ~ast.parsed
    /\ ast' = [ast EXCEPT !.ms = ParseAll(probe.question.texts), !.parsed = TRUE]
    /\ UNCHANGED probe

LookUp ==
    /\ Asked("ast") /\ ast.parsed /\ ast.asked = <<>>
    /\ \E l \in probe.question.lookups :
         ast' = [ast EXCEPT !.asked = <<l>>,
                            !.record = Compute("LookUpIn", <<ast.ms, RecordTree(ast.ms, l.rec), l>>),
                            !.hand = Compute("LookUpIn", <<ast.ms, HandMade(ast.ms, l.rec), l>>)]
    /\ UNCHANGED probe

AstNext == AskAst \/ ParseAst \/ LookUp

------------------------------------------------------------------------------
(* Properties.                                                             *)

(* Everything a statement says that its kind has a field for is in the     *)
(* node, under its parent; but of a uses only the last augment.            *)
RECURSIVE TreeSound(_)
TreeSound(n) ==
    /\ \A i \in DOMAIN n.source.subs :
         LET s == n.source.subs[i] IN
         s.pfx = "" /\ s.kw \in ToSet(fieldsOf[n.kind]) /\ n.kind # "value" =>
            \/ \E k \in ToSet(kidsOf(n, s.kw)) : k.id.pos = Append(n.id.pos, i) /\ k.source = s
            \/ /\ n.kind = "uses" /\ s.kw = "augment"
               /\ \E j \in DOMAIN n.source.subs : j > i /\ n.source.subs[j].kw = "augment"
    /\ \A kw \in DOMAIN n.kids : \A k \in ToSet(n.kids[kw]) :
         /\ k.parent = n.id /\ TreeSound(k)
         /\ (n.kind # "leaf-list" \/ kw # "default") => k.exts = extensionStatements(k.source)

(* A clone says what the original says, and its parents are clones.        *)
RECURSIVE CloneSound(_, _)
CloneSound(c, n) ==
    /\ c.id = [n.id EXCEPT !.tree = "clone"]
    /\ c.kind = n.kind /\ c.name = n.name /\ c.source = n.source /\ c.exts = n.exts
    /\ \A kw \in DOMAIN c.kids \cup DOMAIN n.kids :
         /\ Len(kidsOf(c, kw)) = Len(kidsOf(n, kw))
         /\ \A j \in DOMAIN kidsOf(c, kw) :
              c.kids[kw][j].parent = c.id /\ CloneSound(c.kids[kw][j], n.kids[kw][j])

(* Statements by module and position, and what a name may mean at one.     *)
TextOf(ms, key) == (CHOOSE r \in ToSet(ms.records) : <<r.name, latestRevision(r.revisions)>> = key)
RECURSIVE StatementAt(_, _)
StatementAt(st, pos) == IF pos = <<>> THEN st ELSE StatementAt(st.subs[pos[1]], Tail(pos))

NamesIn(ms, key, prefix) ==
    LET r == TextOf(ms, key)
        own == IF r.sub THEN r.belongsTo.prefix ELSE childArgument(r.source, "prefix")
        I == {i \in ToSet(r.imports) : i.prefix = prefix}
        Dates_(i) == {m[2] : m \in {m \in DOMAIN ms.Modules : m[1] = i.name}}
        Of(i) == IF i.date \in Dates_(i) THEN ms.Modules[<<i.name, i.date>>] ELSE ms.Modules[<<i.name, "">>]
        KeyOf(rec) == <<rec.name, latestRevision(rec.revisions)>>
    IN  IF prefix \in {"", own} THEN {key}
        ELSE {KeyOf(ms.records[Of(i)]) : i \in {i \in I : Dates_(i) # {}}}
StartsIn(ms, key, prefix) ==
    LET r == TextOf(ms, key)
        parent == <<r.belongsTo.name, "">>
        m == RecordAt(ms, "Modules", parent)
    IN  IF ~r.sub \/ prefix \in {"", r.belongsTo.prefix} THEN NamesIn(ms, key, prefix)
        ELSE IF Recorded(ms, "Modules", parent) THEN NamesIn(ms, <<m.name, latestRevision(m.revisions)>>, prefix)
        ELSE {}

RECURSIVE MayMean(_, _, _)
MayMean(ms, loc, name) ==
    LET st == StatementAt(TextOf(ms, loc[1]).source, loc[2])
        top(k, local) == LET S == TextOf(ms, k).source.subs IN
                         {<<k, <<i>>>> : i \in {i \in DOMAIN S : S[i].arg = local}}
        targets(q) == UNION {top(k, splitPrefix(q)[2]) : k \in StartsIn(ms, loc[1], splitPrefix(q)[1])}
        uses == {i \in DOMAIN st.subs : st.subs[i].kw = "uses"}
    IN  {<<loc[1], Append(loc[2], i)>> : i \in {i \in DOMAIN st.subs : st.subs[i].arg = name}}
        \cup UNION {UNION {MayMean(ms, g, name) : g \in targets(st.subs[i].arg)} : i \in uses}

(* The locations each step of a path may mean.                             *)
TrailOf(ms, l, key) ==
    LET start == IF l.path.abs
                 THEN {<<k, <<>>>> : k \in StartsIn(ms, key, splitPrefix(l.path.steps[1])[1])}
                 ELSE {<<key, l.pos>>}
        step(T, s) == Append(T, UNION {MayMean(ms, loc, splitPrefix(s)[2]) : loc \in Last(T)})
    IN  FoldLeft(step, <<start>>, SelectSeq(l.path.steps, LAMBDA s : s # ".."))

(* A path finds a node it may mean; it finds one if there is only one, and *)
(* so does the same path in a tree made by hand, inside one module.        *)
NodesExact(ms, l, r, h) ==
    LET rec  == ms.records[l.rec]
        key  == <<rec.name, latestRevision(rec.revisions)>>
        T    == TrailOf(ms, l, key)
        Kw(loc) == StatementAt(TextOf(ms, loc[1]).source, loc[2]).kw
        Clear(i) == Cardinality(T[i]) = 1
                    /\ \A loc \in T[i] : i = 1 \/ Kw(loc) \in nodeFromStatement \ (IF i < Len(T) THEN {"rpc"} ELSE {})
        Back(pos) == LET up == {n \in 0..(Len(pos) - 1) :
                                  StatementAt(TextOf(ms, r.of).source, SubSeq(pos, 1, n)).kw
                                    \notin {"choice", "case", "leaf"}}
                     IN  SubSeq(pos, 1, Max(up))
    IN  IF ".." \notin ToSet(l.path.steps)
        THEN /\ r.ok => <<r.of, r.at>> \in Last(T)
             /\ (\A i \in DOMAIN T : Clear(i)) => r.ok
             /\ (\A i \in DOMAIN T : Clear(i) /\ \A loc \in T[i] : loc[1] = key) /\ ~rec.sub =>
                   h.ok /\ h.at = r.at
        ELSE r.ok => \E loc \in Last(T) :
                       r.of = loc[1]
                       /\ r.at = FoldLeft(LAMBDA pos, s : Back(pos), loc[2], SelectSeq(l.path.steps, LAMBDA s : s = ".."))

(* A grouping is the innermost of its name around the node, or else one of *)
(* the module and the submodules it includes, or of an import of theirs.   *)
GroupingsExact(ms, l, r) ==
    LET rec  == ms.records[l.rec]
        key  == <<rec.name, latestRevision(rec.revisions)>>
        own  == IF rec.sub THEN rec.belongsTo.prefix ELSE childArgument(rec.source, "prefix")
        name == TrimPrefix(own, l.name)
        In(k, pos) == LET S == StatementAt(TextOf(ms, k).source, pos).subs IN
                      {<<k, Append(pos, i)>> : i \in {i \in DOMAIN S : S[i].kw = "grouping"
                                                       /\ S[i].arg = splitPrefix(name)[2]}}
        around == IF splitPrefix(name)[1] # "" THEN {}
                  ELSE {n \in 0..Len(l.pos) : In(key, SubSeq(l.pos, 1, n)) # {}}
        Parts(k) == {k} \cup {s \in {<<q.name, latestRevision(q.revisions)>> : q \in ToSet(ms.records)} :
                                 TextOf(ms, s).sub /\ \E i \in ToSet(TextOf(ms, k).includes) : i.name = s[1]}
        refs == UNION {NamesIn(ms, part, splitPrefix(name)[1]) : part \in Parts(key)}
        far == UNION {UNION {In(s, <<>>) : s \in Parts(k)} : k \in refs}
    IN  IF around # {}
        THEN r.ok /\ <<r.of, r.at>> \in In(key, SubSeq(l.pos, 1, Max(around)))
        ELSE (r.ok <=> far # {}) /\ (r.ok => <<r.of, r.at>> \in far)

(* Extensions are those of the module and name, whatever their prefix.     *)
ExtensionsExact(ms, l, r) ==
    LET rec == ms.records[l.rec]
        key == <<rec.name, latestRevision(rec.revisions)>>
        X   == {s \in ToSet(StatementAt(rec.source, l.pos).subs) : s.pfx # ""}
        Of(s) == NamesIn(ms, key, s.pfx)
    IN  /\ r.ok <=> \A s \in X : Of(s) # {}
        /\ r.ok => {x.st : x \in ToSet(r.exts)}
                    = {s \in X : s.kw = l.name /\ \E k \in Of(s) : k[1] = l.module}

PrefixesExact(ms, l, r) ==
    LET rec == ms.records[l.rec]
        H == NamesIn(ms, <<rec.name, latestRevision(rec.revisions)>>, l.name)
    IN  IF H = {} THEN ~r.ok ELSE r.ok /\ r.of \in H /\ r.at = <<>>

(* The trees say what the text says, clones are whole, and a lookup finds  *)
(* what the text means.                                                    *)
AstExact ==
    LET ms == ast.ms
        l  == ast.asked[1]
        r  == ast.record
    IN  IF ast.asked = <<>>
        THEN \A i \in DOMAIN ms.records :
               /\ Compute("TreeSound", <<RecordTree(ms, i)>>)
               /\ Compute("CloneSound", <<RootNode(<<HandMade(ms, i)>>), HandMade(ms, i)>>)
        ELSE CASE l.what = "node" -> Compute("NodesExact", <<ms, l, r, ast.hand>>)
               [] l.what = "grouping" -> Compute("GroupingsExact", <<ms, l, r>>)
               [] l.what = "extensions" -> Compute("ExtensionsExact", <<ms, l, r>>)
               [] l.what = "prefix" -> Compute("PrefixesExact", <<ms, l, r>>)
=============================================================================
