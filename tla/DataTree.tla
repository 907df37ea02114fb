------------------------------ MODULE DataTree ------------------------------
(***************************************************************************)
(* Data trees over one libyang context and the handles borrowed from them  *)
(* (go/libyangbackend over go/internal/libyang): who owns which chain of   *)
(* sibling nodes, which node a tree is anchored at, the mutation counter   *)
(* that invalidates handles, and the positional operations on the          *)
(* user-ordered lists.  A tree is used by one goroutine, so an operation   *)
(* is one step.                                                            *)
(*                                                                         *)
(* The schema is fixed: a top-level container (box) holds a leaf and a     *)
(* user-ordered list (entry), and every entry holds a user-ordered list    *)
(* (item).  A node stands for its instance path.                           *)
(***************************************************************************)
EXTENDS Integers, SequencesExt

CONSTANTS
    Boxes, Leaves, Entries, Items,  \* the data nodes that may exist
    Trees,          \* identities of DataTree objects
    Handles,        \* identities of handles borrowed from a tree
    Documents,      \* the documents to parse: [top, kids] without siblings
                    \* or children that are not in the document
    Nil,            \* the nil pointer
    MaxMutations,   \* bound on the generations of all trees together
    PartialFailure, \* TRUE: DiffApply may fail half way
    KeepConsumed    \* TRUE: a caller may keep the handles it borrowed from a
                    \* tree after giving the tree away as a list entry

Nodes == Boxes \cup Leaves \cup Entries \cup Items

ASSUME NilAssumption == Nil \notin Nodes \cup Trees
ASSUME KindsAssumption ==
    /\ Boxes \cap (Leaves \cup Entries \cup Items) = {}
    /\ Leaves \cap (Entries \cup Items) = {}
    /\ Entries \cap Items = {}
ASSUME MaxMutationsAssumption == MaxMutations \in Nat
ASSUME FlagAssumption == PartialFailure \in BOOLEAN /\ KeepConsumed \in BOOLEAN

VARIABLES
    tops,    \* the sibling chains that have no parent node
    kids,    \* children of every node, in sibling order
    val,     \* value of every leaf: "dflt" is the default value "a" with
             \* its default flag, "a" and "b" are explicit values
    owner,   \* DataTree: "none", "open", or "released" (closed, consumed)
    tree,    \* RawDataTree.tree, the node the tree is anchored at
    gen,     \* RawDataTree.gen
    list,    \* the handles, Nil when there is none: a UserOrderedList has
             \* a parent pointer and a list name; the name of a NodeRef,
             \* NodeSet, DataSiblings or UserOrderedView is "any"
    moved    \* history: the handles whose tree has changed since they were
             \* borrowed or last used with success

nodes == <<tops, kids, val>>
trees == <<owner, tree, gen>>
vars  == <<nodes, trees, list, moved>>

Values == {"dflt", "a", "b"}
----------------------------------------------------------------------------
(* The nodes.                                                              *)
Kind(n) == CASE n \in Boxes -> "box" [] n \in Leaves -> "leaf"
             [] n \in Entries -> "entry" [] OTHER -> "item"

(* The schema parent, and the schema order of the children of a box.       *)
ParentKind(k) == CASE k = "box" -> "none" [] k = "item" -> "entry" [] OTHER -> "box"
Rank(n) == IF Kind(n) = "leaf" THEN 1 ELSE 2

(* What a parser builds from a document.                                   *)
InDocument(d) == ToSet(d.top) \cup UNION {ToSet(d.kids[n]) : n \in DOMAIN d.kids}
WellFormed(d) ==
    /\ d.top \in Seq(Boxes) /\ IsInjective(d.top)
    /\ DOMAIN d.kids \subseteq InDocument(d)
    /\ \A m \in DOMAIN d.kids :
         /\ d.kids[m] \in Seq(Nodes) /\ IsInjective(d.kids[m])
         /\ \A n \in ToSet(d.kids[m]) :
              /\ ParentKind(Kind(n)) = Kind(m)
              /\ \A k \in DOMAIN d.kids : n \in ToSet(d.kids[k]) => k = m

ASSUME DocumentsAssumption == \A d \in Documents : WellFormed(d)

Subtree(n) == LET below(S) == UNION {ToSet(kids[m]) : m \in S}
              IN  {n} \cup below({n}) \cup below(below({n}))
InChain(c) == UNION {Subtree(n) : n \in ToSet(c)}
Allocated  == UNION {InChain(c) : c \in tops}

Siblings(t) == IF tree[t] = Nil THEN <<>>
               ELSE CHOOSE c \in tops : tree[t] \in ToSet(c)
Within(t)   == InChain(Siblings(t))

(* cam_lyd_parent: nil for a node of a parentless chain.                   *)
Parent(n) == IF \E c \in tops : n \in ToSet(c) THEN Nil
             ELSE CHOOSE m \in Nodes : n \in ToSet(kids[m])

(* What a reader of the tree sees: the node structure and the values.      *)
Content(t) == [top  |-> Siblings(t),
               kids |-> [n \in Within(t) |-> kids[n]],
               val  |-> [n \in Within(t) \cap Leaves |-> val[n]]]

(* lyd_insert_node: a new sibling goes behind the siblings of its rank.    *)
InSchemaOrder(s, n) ==
    LET before == {i \in DOMAIN s : Rank(s[i]) <= Rank(n)}
    IN  InsertAt(s, Cardinality(before) + 1, n)

(* lyd_unlink: the chains and the children without node n (and below it).  *)
Shortened(n) == {RemoveFirst(c, n) : c \in tops} \ {<<>>}
Detached(n)  == [m \in Nodes |-> RemoveFirst(kids[m], n)]
Freed(n)     == [m \in Nodes |-> IF m \in Subtree(n) THEN <<>> ELSE Detached(n)[m]]

----------------------------------------------------------------------------
Init ==
    /\ tops = {}
    /\ kids = [n \in Nodes |-> <<>>]
    /\ val = [n \in Leaves |-> "a"]
    /\ owner = [t \in Trees |-> "none"]
    /\ tree = [t \in Trees |-> Nil]
    /\ gen = [t \in Trees |-> 0]
    /\ list = [l \in Handles |-> Nil]
    /\ moved = {}

(* Context.NewData (the empty document) and Context.Parse.                 *)
NewTree(t, d) ==
    /\ owner[t] = "none"
    /\ InDocument(d) \cap Allocated = {}
    /\ owner' = [owner EXCEPT ![t] = "open"]
    /\ tops' = IF d.top = <<>> THEN tops ELSE tops \cup {d.top}
    /\ tree' = [tree EXCEPT ![t] = IF d.top = <<>> THEN Nil ELSE Head(d.top)]
    /\ kids' = [n \in Nodes |-> IF n \in DOMAIN d.kids THEN d.kids[n] ELSE kids[n]]
    /\ UNCHANGED <<val, gen, list>>

(* RawDataTree.incrementGen.                                               *)
incrementGen(t) ==
    /\ SumFunction(gen) < MaxMutations
    /\ gen' = [gen EXCEPT ![t] = @ + 1]

----------------------------------------------------------------------------
(* What libyang does to the nodes of a tree, and where the tree is         *)
(* anchored afterwards (lyd_first_sibling).                                *)

(* A new node: below its parent in schema order, or a box anywhere in the  *)
(* chain.  libyang refuses a box beside a detached entry.                  *)
Adds(t, n) ==
    /\ n \notin Allocated
    /\ owner[t] = "open"
    /\ \/ \E p \in Within(t) :
            /\ Kind(p) = ParentKind(Kind(n))
            /\ kids' = [kids EXCEPT ![p] = InSchemaOrder(@, n)]
            /\ UNCHANGED <<tops, tree>>
       \/ LET s == Siblings(t) IN
          /\ n \in Boxes /\ ToSet(s) \subseteq Boxes
          /\ \E i \in 1..Len(s) + 1 :
               LET c == InsertAt(s, i, n) IN
               /\ tops' = (tops \ {s}) \cup {c}
               /\ tree' = [tree EXCEPT ![t] = Head(c)]
          /\ UNCHANGED kids

(* Mutant: the anchor is not moved off the node that goes away.            *)
reanchorBeforeDetach_Never(t, n) == tree[t]

(* reanchorBeforeDetach.                                                   *)
reanchorBeforeDetach(t, n) ==
    LET s == Siblings(t) IN
    IF Head(s) # n THEN Head(s) ELSE IF Len(s) > 1 THEN s[2] ELSE Nil

Deletes(t, n) ==
    /\ n \in Within(t)
    /\ tree' = [tree EXCEPT ![t] = reanchorBeforeDetach(t, n)]
    /\ tops' = Shortened(n)
    /\ kids' = Freed(n)

Sets(t, n, v) ==
    /\ n \in Leaves \cap Within(t) /\ val[n] # v
    /\ val' = [val EXCEPT ![n] = v]
    /\ UNCHANGED <<tops, kids, tree>>

----------------------------------------------------------------------------
(* Mutations of a tree.                                                    *)

(* NewPath: creates a node, or with the update option sets a leaf.         *)
NewPath(t, n) ==
    /\ incrementGen(t)
    /\ \/ Adds(t, n) /\ val' = IF n \in Leaves THEN [val EXCEPT ![n] = "a"] ELSE val
       \/ \E v \in {"a", "b"} : Sets(t, n, v)
    /\ UNCHANGED <<owner, list>>

(* Mutant: the default flag is cleared without invalidating handles.       *)
SetValue_Default(t, n, v) ==
    /\ Sets(t, n, v)
    /\ IF val[n] = "dflt" /\ v = "a" THEN UNCHANGED gen ELSE incrementGen(t)
    /\ UNCHANGED <<owner, list>>

(* SetValue: an explicit value; setting the value a leaf already has is a  *)
(* no-op, but making a default explicit is a change.                       *)
SetValue(t, n, v) ==
    /\ incrementGen(t)
    /\ Sets(t, n, v)
    /\ UNCHANGED <<owner, list>>

(* Mutant: a removal that leaves the handles valid.                        *)
RemovePath_Silent(t, n) ==
    /\ Deletes(t, n)
    /\ UNCHANGED <<val, gen, owner, list>>

RemovePath(t, n) ==
    /\ incrementGen(t)
    /\ Deletes(t, n)
    /\ UNCHANGED <<val, owner, list>>

(* UnlinkPath: the subtree becomes tree d.                                 *)
UnlinkPath(t, n, d) ==
    /\ incrementGen(t)
    /\ n \in Within(t) /\ owner[d] = "none"
    /\ tree' = [tree EXCEPT ![t] = reanchorBeforeDetach(t, n), ![d] = n]
    /\ tops' = Shortened(n) \cup {<<n>>}
    /\ kids' = Detached(n)
    /\ owner' = [owner EXCEPT ![d] = "open"]
    /\ UNCHANGED <<val, list>>

(* AddDefaults: an implicit leaf or container, at any place of the chain.  *)
AddDefaults(t, n) ==
    /\ incrementGen(t)
    /\ Adds(t, n) /\ n \in Leaves \cup Boxes
    /\ val' = IF n \in Leaves THEN [val EXCEPT ![n] = "dflt"] ELSE val
    /\ UNCHANGED <<owner, list>>

(* Merge of another tree of the context: nodes are added and leaves take   *)
(* the value of the source, none is lost.                                  *)
Merge(t, s, n) ==
    /\ incrementGen(t)
    /\ s # t /\ owner[s] = "open" /\ tree[s] # Nil
    /\ \/ Adds(t, n) /\ UNCHANGED val
       \/ \E v \in {"a", "b"} : Sets(t, n, v)
    /\ UNCHANGED <<owner, list>>

(* DiffApply, one edit of the diff; lyd_diff_apply_all stops at an edit it *)
(* cannot apply, keeps the earlier ones, and the error returns before      *)
(* incrementGen.                                                           *)
DiffApply(t, n) ==
    /\ incrementGen(t) \/ (PartialFailure /\ UNCHANGED gen)
    /\ \/ Adds(t, n) /\ UNCHANGED val
       \/ Deletes(t, n) /\ UNCHANGED val
       \/ Sets(t, n, "b")
    /\ UNCHANGED <<owner, list>>

(* Validate (ValidateCollect): defaults are added and nodes whose when is  *)
(* false are deleted; the generation moves whatever the outcome, even if   *)
(* nothing changed.                                                        *)
Validate(t, n) ==
    /\ incrementGen(t)
    /\ \/ Adds(t, n) /\ n \in Leaves /\ val' = [val EXCEPT ![n] = "dflt"]
       \/ Deletes(t, n) /\ UNCHANGED val
       \/ owner[t] = "open" /\ UNCHANGED <<tops, kids, val, tree>>
    /\ UNCHANGED <<owner, list>>

(* RawDataTree.Close; a second Close only moves the generation.            *)
Close(t) ==
    /\ incrementGen(t)
    /\ owner[t] # "none"
    /\ tops' = tops \ {Siblings(t)}
    /\ kids' = [n \in Nodes |-> IF n \in Within(t) THEN <<>> ELSE kids[n]]
    /\ tree' = [tree EXCEPT ![t] = Nil]
    /\ owner' = [owner EXCEPT ![t] = "released"]
    /\ UNCHANGED <<val, list>>

----------------------------------------------------------------------------
(* Handles.                                                                *)
Fresh(h) == h # Nil /\ gen[h.of] = h.gen

FreshList(l) == Fresh(list[l]) /\ list[l].name # "any"

(* Get, Select, RootNodes, Children, Siblings, AsUserOrdered.              *)
Borrow(l, t) ==
    /\ owner[t] = "open"
    /\ list' = [list EXCEPT ![l] = [of |-> t, parent |-> Nil, name |-> "any",
                                    gen |-> gen[t]]]
    /\ UNCHANGED <<nodes, trees>>

(* Only entries of user-ordered lists are accepted.                        *)
UserOrderedListAt(l, t, n) ==
    /\ n \in Within(t) \cap (Entries \cup Items)
    /\ list' = [list EXCEPT ![l] = [of |-> t, parent |-> Parent(n), name |-> Kind(n),
                                    gen |-> gen[t]]]
    /\ UNCHANGED <<nodes, trees>>

(* Mutant: positions counted over all children of the parent.              *)
nth_Unfiltered(l, i) ==
    LET s == IF list[l].parent = Nil THEN <<>> ELSE kids[list[l].parent]
    IN  IF i < Len(s) THEN s[i + 1] ELSE Nil

(* The entry that i entries of the list precede.                           *)
nth(l, i) ==
    LET s == IF list[l].parent = Nil THEN <<>> ELSE kids[list[l].parent]
        entries(k) == {j \in 1..k : Kind(s[j]) = list[l].name}
        at == {k \in DOMAIN s : k \in entries(k) /\ Cardinality(entries(k - 1)) = i}
    IN  IF at = {} THEN Nil ELSE s[CHOOSE k \in at : TRUE]

(* A successful operation of a handle leaves the handle fresh.             *)
Refreshed(l) == [list[l] EXCEPT !.gen = gen'[list[l].of]]

PutBefore(s, x, n) == LET r == RemoveFirst(s, n)
                      IN  InsertAt(r, SelectInSeq(r, LAMBDA m : m = x), n)
PutAfter(s, x, n)  == LET r == RemoveFirst(s, n)
                      IN  InsertAt(r, SelectInSeq(r, LAMBDA m : m = x) + 1, n)

(* intoRaw: the entry tree gives its node away; its handles are not told.  *)
intoRaw(e) ==
    /\ owner[e] # "none"
    /\ tree' = [tree EXCEPT ![e] = Nil]
    /\ owner' = [owner EXCEPT ![e] = "released"]

Kept(e, h) == IF ~KeepConsumed /\ h # Nil /\ h.of = e THEN Nil ELSE h

(* Mutant: a node that libyang refuses is not freed.                       *)
Rejects_Leaks(l, e) ==
    /\ intoRaw(e)
    /\ list' = [k \in Handles |-> Kept(e, list[k])]
    /\ UNCHANGED <<nodes, gen>>

(* libyang refuses the node: it is freed and the tree is as before.        *)
Rejects(l, e) ==
    /\ intoRaw(e)
    /\ IF tree[e] = Nil THEN UNCHANGED <<tops, kids>>
       ELSE tops' = Shortened(tree[e]) /\ kids' = Freed(tree[e])
    /\ list' = [k \in Handles |-> Kept(e, list[k])]
    /\ UNCHANGED <<val, gen>>

(* libyang links the node; s are the children of the parent with it.       *)
Accepts(l, e, s) ==
    /\ intoRaw(e)
    /\ tops' = Shortened(tree[e])
    /\ kids' = [kids EXCEPT ![list[l].parent] = s]
    /\ UNCHANGED val
    /\ incrementGen(list[l].of)
    /\ list' = [k \in Handles |-> IF k = l THEN Refreshed(l) ELSE Kept(e, list[k])]

(* lyd_insert_child: any child of the parent, in schema order.             *)
AsChild(l, e) ==
    LET p == list[l].parent  n == tree[e] IN
    IF p # Nil /\ n # Nil /\ e # list[l].of /\ ParentKind(Kind(n)) = Kind(p)
    THEN Accepts(l, e, InSchemaOrder(kids[p], n))
    ELSE Rejects(l, e)

(* lyd_insert_before and lyd_insert_after: an instance of the same list.   *)
Beside(l, e, x, Put(_, _, _)) ==
    LET n == tree[e] IN
    IF n # Nil /\ Kind(n) = Kind(x) /\ n # x
    THEN Accepts(l, e, Put(kids[list[l].parent], x, n))
    ELSE Rejects(l, e)

InsertLast(l, e) == FreshList(l) /\ owner[e] # "none" /\ AsChild(l, e)

InsertFirst(l, e) ==
    /\ FreshList(l) /\ owner[e] # "none"
    /\ IF nth(l, 0) = Nil THEN AsChild(l, e) ELSE Beside(l, e, nth(l, 0), PutBefore)

(* An index out of range is an error that leaves the entry alone.          *)
InsertBefore(l, i, e) ==
    /\ FreshList(l) /\ owner[e] # "none" /\ nth(l, i) # Nil
    /\ Beside(l, e, nth(l, i), PutBefore)

InsertAfter(l, i, e) ==
    /\ FreshList(l) /\ owner[e] # "none" /\ nth(l, i) # Nil
    /\ Beside(l, e, nth(l, i), PutAfter)

Move(l, w, p, Put(_, _, _)) ==
    /\ FreshList(l) /\ nth(l, w) # Nil /\ nth(l, p) # Nil /\ nth(l, w) # nth(l, p)
    /\ kids' = [kids EXCEPT ![list[l].parent] = Put(@, nth(l, p), nth(l, w))]
    /\ incrementGen(list[l].of)
    /\ list' = [list EXCEPT ![l] = Refreshed(l)]
    /\ UNCHANGED <<tops, val, owner, tree>>

MoveBefore(l, w, p) == Move(l, w, p, PutBefore)
MoveAfter(l, w, p)  == Move(l, w, p, PutAfter)

----------------------------------------------------------------------------
Index == 0..Cardinality(Entries)

ListOp(l) ==
    \/ \E e \in Trees : InsertFirst(l, e) \/ InsertLast(l, e)
    \/ \E e \in Trees, i \in Index : InsertBefore(l, i, e) \/ InsertAfter(l, i, e)
    \/ \E w, p \in Index : MoveBefore(l, w, p) \/ MoveAfter(l, w, p)

TreeOp(t) ==
    \/ \E n \in Nodes \ Allocated :
         \/ NewPath(t, n) \/ AddDefaults(t, n) \/ DiffApply(t, n) \/ Validate(t, n)
         \/ \E s \in Trees : Merge(t, s, n)
    \/ \E n \in Within(t) :
         \/ NewPath(t, n) \/ RemovePath(t, n) \/ DiffApply(t, n) \/ Validate(t, n)
         \/ \E s \in Trees : UnlinkPath(t, n, s) \/ Merge(t, s, n)
         \/ \E v \in {"a", "b"} : SetValue(t, n, v)
    \/ Close(t)

Call ==
    \/ \E t \in Trees : TreeOp(t)
    \/ \E t \in Trees, d \in Documents : NewTree(t, d)
    \/ \E l \in Handles, t \in Trees :
         Borrow(l, t) \/ \E n \in Within(t) : UserOrderedListAt(l, t, n)
    \/ \E l \in Handles : ListOp(l)

Watch == moved' = {l \in Handles :
                     /\ list'[l] = list[l] /\ list[l] # Nil
                     /\ \/ l \in moved
                        \/ \E t \in Trees : t = list[l].of /\ Content(t) # Content(t)'}

Next == Call /\ Watch

Spec == Init /\ [][Next]_vars
----------------------------------------------------------------------------
(* Correctness.                                                            *)

(* reanchorBeforeDetach, intoRaw, finalize: whatever is inserted, unlinked *)
(* and removed, every node hangs in one place, every open tree is anchored *)
(* at the first node of a chain of its own, and every chain has a tree     *)
(* that frees it.  (Chains of boxes are excepted from the last: see the    *)
(* README on documents passed as list entries.)                            *)
SoleOwner ==
    /\ \A n \in Allocated :
         Cardinality({c \in tops : n \in ToSet(c)})
           + Cardinality({m \in Nodes : n \in ToSet(kids[m])}) = 1
    /\ \A t \in Trees : tree[t] # Nil =>
         /\ owner[t] = "open"
         /\ \E c \in tops : Head(c) = tree[t]
         /\ \A u \in Trees \ {t} : tree[u] # tree[t]
    /\ \A c \in tops : Head(c) \notin Boxes => \E t \in Trees : tree[t] = Head(c)

(* NodeRef.assertValid, UserOrderedList.fresh: "mutations to the tree      *)
(* invalidate previously borrowed handles"; a handle that is still         *)
(* accepted sees the tree it was borrowed from, unchanged.                 *)
FreshMeansUnchanged ==
    \A l \in Handles : Fresh(list[l]) => l \notin moved

(* UserOrderedList keeps a raw pointer to the parent of its entries: as    *)
(* long as the handle is accepted, the parent is a node of its tree.       *)
FreshListIsLinked ==
    \A l \in Handles : FreshList(l) /\ list[l].parent # Nil =>
        list[l].parent \in Within(list[l].of)

(* RawUserOrderedList.nth, Insert* and Move*: a position counts the        *)
(* entries of the list alone, the entry lands exactly there, the other     *)
(* entries keep their order, and the other children stay where they are.   *)
(* (Filtered is SelectSeq written as a recursive function.)                *)
Taken(q, e, W) == IF e \in W THEN Append(q, e) ELSE q
Filtered(s, W) ==
    LET f[i \in 0..Len(s)] == IF i = 0 THEN <<>> ELSE Taken(f[i - 1], s[i], W) IN f[Len(s)]

Listed(k) == {n \in Nodes : Kind(n) = k}
Children(l, W) == IF list[l].parent = Nil THEN <<>> ELSE Filtered(kids[list[l].parent], W)
Members(l) == Children(l, Listed(list[l].name))
Others(l)  == Children(l, Nodes \ Listed(list[l].name))
Done(l) == gen'[list[l].of] # gen[list[l].of]
InPosition(l) ==
    /\ \A e \in Trees, i \in Index :
         LET m == Members(l)  n == tree[e] IN
         /\ InsertBefore(l, i, e) =>
              Members(l)' = InsertAt(m, i + 1, n) /\ Others(l)' = Others(l)
         /\ InsertAfter(l, i, e) =>
              Members(l)' = InsertAt(m, i + 2, n) /\ Others(l)' = Others(l)
         /\ InsertFirst(l, e) /\ Kind(n) = list[l].name =>
              Members(l)' = <<n>> \o m /\ Others(l)' = Others(l)
         /\ InsertLast(l, e) /\ Kind(n) = list[l].name =>
              Members(l)' = Append(m, n) /\ Others(l)' = Others(l)
    /\ \A w, p \in Index :
         LET m == Members(l)  r == RemoveAt(m, w + 1)
             q == IF w < p THEN p ELSE p + 1 IN
         /\ MoveBefore(l, w, p) =>
              Members(l)' = InsertAt(r, q, m[w + 1]) /\ Others(l)' = Others(l)
         /\ MoveAfter(l, w, p) =>
              Members(l)' = InsertAt(r, q + 1, m[w + 1]) /\ Others(l)' = Others(l)
Positional ==
    [][\A l \in Handles :
         Nil \notin {list[l], list'[l]} /\ list[l] # list'[l] /\ Done(l) => InPosition(l)]_vars
=============================================================================
