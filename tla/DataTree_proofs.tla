--------------------------- MODULE DataTree_proofs ---------------------------
(***************************************************************************)
(* Proofs about DataTree, for any number of nodes, trees and handles: every*)
(* node has one owner, and a handle that is accepted sees the tree it was  *)
(* borrowed from.  DataTree_nodes has the facts about the structure of the *)
(* nodes; here they are put together with trees, generations and handles.  *)
(***************************************************************************)
EXTENDS DataTree_nodes

(* The inductive invariant, in parts.                                      *)
Types ==
    /\ owner \in [Trees -> {"none", "open", "released"}]
    /\ tree \in [Trees -> Nodes \cup {Nil}]
    /\ gen \in [Trees -> Nat]
    /\ val \in [Leaves -> Values]

Structure == Shaped(tops, kids)

(* A tree is anchored at the first node of a chain that is its own.        *)
Anchored ==
    /\ \A t \in Trees : tree[t] # Nil =>
         owner[t] = "open" /\ \E c \in tops : Head(c) = tree[t]
    /\ \A t, u \in Trees : tree[t] # Nil /\ tree[t] = tree[u] => t = u

Owned == \A c \in tops : Head(c) \notin Boxes => \E t \in Trees : tree[t] = Head(c)

TreeInv == Types /\ Structure /\ Anchored /\ Owned

Handle == [of : Trees, parent : Nodes \cup {Nil}, gen : Nat,
           name : {"any", "entry", "item"}]

(* A handle was borrowed from a tree that exists, at a generation that has *)
(* passed or is the present one.                                           *)
HandleInv ==
    /\ list \in [Handles -> Handle \cup {Nil}]
    /\ \A l \in Handles : list[l] # Nil =>
         owner[list[l].of] # "none" /\ list[l].gen <= gen[list[l].of]

IInv == TreeInv /\ HandleInv /\ FreshListIsLinked

----------------------------------------------------------------------------
(* The operators of the model in terms of DataTree_nodes.                  *)
NodesView ==
    Structure =>
      /\ \A n \in Nodes : Subtree(n) = Below(kids, n)
      /\ \A c \in tops : InChain(c) = InChainOf(kids, c)
      /\ InChain(<<>>) = {}
      /\ \A x \in Nodes : x \in Allocated <=> Linked(tops, kids, x)
      /\ Allocated \subseteq Nodes

LEMMA NodesViewHolds == NodesView
<1> SUFFICES ASSUME Structure PROVE NodesView
  BY DEF NodesView
<1>1. \A m \in Nodes : ToSet(kids[m]) \subseteq Nodes
  BY Levels DEF Structure
<1>2. \A n \in Nodes : Subtree(n) = Below(kids, n)
  BY <1>1 DEF Subtree, Below
<1>3. \A c \in tops : ToSet(c) \subseteq Nodes
  BY Levels DEF Structure
<1>4. \A c \in tops : InChain(c) = InChainOf(kids, c)
  BY <1>2, <1>3 DEF InChain, InChainOf
<1>5. InChain(<<>>) = {}
  BY DEF InChain, ToSet
<1>6. \A c \in tops : InChainOf(kids, c) \subseteq Nodes
  BY ClosedTree DEF Structure
<1>7. \A x \in Nodes : Linked(tops, kids, x) <=> \E c \in tops : x \in InChainOf(kids, c)
  BY LinkedInChain DEF Structure
<1>8. Allocated = UNION {InChainOf(kids, c) : c \in tops}
  BY <1>4 DEF Allocated
<1> QED
  BY <1>2, <1>4, <1>5, <1>6, <1>7, <1>8 DEF NodesView

LEMMA NodesViewNext == NodesView'
  BY NodesViewHolds, PTL

(* The chain of a tree.                                                    *)
TreesView ==
    Types /\ Structure /\ Anchored =>
      \A t \in Trees :
        /\ tree[t] = Nil => Siblings(t) = <<>> /\ Within(t) = {}
        /\ tree[t] # Nil => /\ Siblings(t) \in tops /\ Head(Siblings(t)) = tree[t]
                            /\ tree[t] \in ToSet(Siblings(t))
                            /\ Within(t) = InChainOf(kids, Siblings(t))
        /\ \A c \in tops : tree[t] # Nil /\ tree[t] \in ToSet(c) => Siblings(t) = c
        /\ Within(t) \subseteq Nodes
        /\ \A x \in Within(t) : Linked(tops, kids, x)

LEMMA TreesViewHolds == TreesView
<1> SUFFICES ASSUME Types, Structure, Anchored, NEW t \in Trees
             PROVE  /\ tree[t] = Nil => Siblings(t) = <<>> /\ Within(t) = {}
                    /\ tree[t] # Nil => /\ Siblings(t) \in tops /\ Head(Siblings(t)) = tree[t]
                                        /\ tree[t] \in ToSet(Siblings(t))
                                        /\ Within(t) = InChainOf(kids, Siblings(t))
                    /\ \A c \in tops : tree[t] # Nil /\ tree[t] \in ToSet(c) => Siblings(t) = c
                    /\ Within(t) \subseteq Nodes
                    /\ \A x \in Within(t) : Linked(tops, kids, x)
  BY DEF TreesView
<1>1. \A c \in tops : c \in Seq(Nodes) /\ c # <<>> /\ Head(c) \in ToSet(c)
  BY Members_ToSet DEF Structure, Shaped, ChainOK
<1>2. CASE tree[t] = Nil
  BY <1>2, NodesViewHolds DEF NodesView, Siblings, Within
<1>3. CASE tree[t] # Nil
  <2>1. PICK c \in tops : Head(c) = tree[t]
    BY <1>3 DEF Anchored
  <2>2. \A d \in tops : tree[t] \in ToSet(d) <=> d = c
    BY <1>1, <2>1 DEF Structure, Shaped
  <2>3. Siblings(t) = c
    BY <1>3, <2>2 DEF Siblings
  <2>4. Within(t) = InChainOf(kids, c) /\ InChainOf(kids, c) \subseteq Nodes
    BY <2>3, NodesViewHolds, ClosedTree DEF NodesView, Within, Structure
  <2>5. \A x \in Within(t) : Linked(tops, kids, x)
    BY <2>4, LinkedInChain DEF Structure
  <2> QED BY <1>3, <2>1, <2>2, <2>3, <2>4, <2>5
<1> QED
  BY <1>2, <1>3

LEMMA TreesViewNext == TreesView'
  BY TreesViewHolds, PTL

(* Two trees share no node.                                                *)
LEMMA TreesApart ==
  ASSUME TreeInv, NEW t \in Trees, NEW u \in Trees, t # u, tree[u] # Nil
  PROVE  /\ Siblings(u) \in tops /\ Siblings(u) # Siblings(t)
         /\ \A x \in InChainOf(kids, Siblings(u)) :
              x \in Nodes /\ x \notin Within(t) /\ x \notin ToSet(Siblings(t)) /\ Linked(tops, kids, x)
<1>1. Types /\ Structure /\ Anchored
  BY DEF TreeInv
<1>2. Siblings(u) \in tops /\ Head(Siblings(u)) = tree[u] /\ Siblings(u) # <<>>
  BY <1>1, TreesViewHolds DEF TreesView, Structure, Shaped, ChainOK
<1>3. Siblings(t) # Siblings(u)
  BY <1>1, <1>2, TreesViewHolds DEF TreesView, Anchored
<1>4. ASSUME NEW x \in InChainOf(kids, Siblings(u))
      PROVE x \in Nodes /\ x \notin Within(t) /\ x \notin ToSet(Siblings(t)) /\ Linked(tops, kids, x)
  <2>1. x \in Nodes /\ Linked(tops, kids, x)
    BY <1>1, <1>2, ClosedTree, LinkedInChain DEF Structure
  <2>2. CASE tree[t] = Nil
    BY <1>1, <2>1, <2>2, TreesViewHolds DEF TreesView, ToSet
  <2>3. CASE tree[t] # Nil
    <3>1. Siblings(t) \in tops /\ Within(t) = InChainOf(kids, Siblings(t))
      BY <1>1, <2>3, TreesViewHolds DEF TreesView
    <3>2. ToSet(Siblings(t)) \subseteq InChainOf(kids, Siblings(t))
      BY <1>1, <3>1, InChainOfMembers DEF Structure
    <3> QED BY <1>1, <1>2, <1>3, <2>1, <3>1, <3>2, Separate DEF Structure
  <2> QED BY <2>2, <2>3
<1> QED
  BY <1>2, <1>3, <1>4

----------------------------------------------------------------------------
(* A tree that an action leaves alone.                                     *)
Frame(u) ==
    /\ tree'[u] = tree[u]
    /\ tree[u] # Nil =>
         /\ Siblings(u) \in tops'
         /\ \A x \in InChainOf(kids, Siblings(u)) :
              kids'[x] = kids[x] /\ (x \in Leaves => val'[x] = val[x])

LEMMA FrameContent ==
  ASSUME TreeInv, TreeInv', NEW u \in Trees, Frame(u)
  PROVE  Content(u)' = Content(u) /\ Within(u)' = Within(u)
<1>1. Types /\ Structure /\ Anchored /\ Types' /\ Structure' /\ Anchored'
  BY DEF TreeInv
<1>2. CASE tree[u] = Nil
  <2>1. Siblings(u) = <<>> /\ Within(u) = {} /\ Siblings(u)' = <<>> /\ Within(u)' = {}
    BY <1>1, <1>2, TreesViewHolds, TreesViewNext DEF TreesView, Frame
  <2> QED BY <2>1 DEF Content
<1>3. CASE tree[u] # Nil
  <2> DEFINE c == Siblings(u)
  <2>1. /\ c \in tops /\ tree[u] \in ToSet(c) /\ Within(u) = InChainOf(kids, c)
        /\ c \in tops' /\ tree'[u] \in ToSet(c) /\ tree'[u] # Nil
    BY <1>1, <1>3, TreesViewHolds DEF TreesView, Frame
  <2>2. \A x \in InChainOf(kids, c) : kids'[x] = kids[x] /\ (x \in Leaves => val'[x] = val[x])
    BY <1>3 DEF Frame
  <2> HIDE DEF c
  <2>3. Siblings(u)' = c /\ Within(u)' = InChainOf(kids', c)
    BY <1>1, <2>1, TreesViewNext DEF TreesView
  <2>4. InChainOf(kids', c) = InChainOf(kids, c)
    BY <1>1, <2>1, <2>2, SameTree DEF Structure
  <2>5. /\ [n \in Within(u)' |-> kids'[n]] = [n \in Within(u) |-> kids[n]]
        /\ [n \in Within(u)' \cap Leaves |-> val'[n]] = [n \in Within(u) \cap Leaves |-> val[n]]
    BY <2>1, <2>2, <2>3, <2>4
  <2>6. Siblings(u)' = Siblings(u) /\ Within(u)' = Within(u)
    BY <2>1, <2>3, <2>4 DEF c
  <2> QED BY <2>5, <2>6 DEF Content
<1> QED
  BY <1>2, <1>3

----------------------------------------------------------------------------
(* What happens to the nodes, operation by operation: the invariant holds  *)
(* again, and every tree not concerned is left alone.                      *)
OtherTrees(T) == \A u \in Trees \ T : Frame(u)

(* NewPath, AddDefaults, Merge, DiffApply, Validate: a new node.           *)
LEMMA AddsStep ==
  ASSUME TreeInv, NEW t \in Trees, NEW n \in Nodes, Adds(t, n), owner' = owner,
         \A x \in Leaves \ {n} : val'[x] = val[x]
  PROVE  /\ Structure' /\ Anchored' /\ Owned' /\ tree' \in [Trees -> Nodes \cup {Nil}]
         /\ OtherTrees({t})
<1>1. Types /\ Structure /\ Anchored
  BY DEF TreeInv
<1>2. ~Linked(tops, kids, n) /\ owner[t] = "open"
  BY <1>1, NodesViewHolds DEF Adds, NodesView
<1>3. ASSUME NEW u \in Trees \ {t}, tree[u] # Nil, NEW x \in InChainOf(kids, Siblings(u))
      PROVE  x \in Leaves => val'[x] = val[x]
  <2>1. x # n
    BY <1>1, <1>2, <1>3, TreesApart
  <2> QED BY <2>1
<1>4. CASE \E p \in Within(t) :
             /\ Kind(p) = ParentKind(Kind(n))
             /\ kids' = [kids EXCEPT ![p] = InSchemaOrder(@, n)]
             /\ UNCHANGED <<tops, tree>>
  <2>1. PICK p \in Within(t) : /\ Kind(p) = ParentKind(Kind(n))
                               /\ kids' = [kids EXCEPT ![p] = InSchemaOrder(kids[p], n)]
                               /\ UNCHANGED <<tops, tree>>
    BY <1>4
  <2>2. p \in Nodes /\ Linked(tops, kids, p)
    BY <1>1, <2>1, TreesViewHolds DEF TreesView
  <2>3. kids[p] \in Seq(Nodes) /\ IsInjective(kids[p]) /\ n \notin ToSet(kids[p])
    BY <1>1, <1>2, <2>2 DEF Structure, Shaped, Linked
  <2>4. /\ InSchemaOrder(kids[p], n) \in Seq(Nodes) /\ IsInjective(InSchemaOrder(kids[p], n))
        /\ ToSet(InSchemaOrder(kids[p], n)) = ToSet(kids[p]) \cup {n}
    BY <2>3, Placed
  <2>5. Structure'
    BY <1>1, <1>2, <2>1, <2>2, <2>4, AddChild DEF Structure
  <2>6. Anchored' /\ Owned' /\ tree' \in [Trees -> Nodes \cup {Nil}]
    BY <2>1 DEF TreeInv, Types, Anchored, Owned
  <2>7. ASSUME NEW u \in Trees \ {t} PROVE Frame(u)
    <3> SUFFICES ASSUME tree[u] # Nil PROVE Frame(u)
      BY <2>1 DEF Frame
    <3>1. Siblings(u) \in tops /\ \A x \in InChainOf(kids, Siblings(u)) : x \in Nodes /\ x # p
      BY <1>1, <2>1, TreesApart
    <3> QED BY <1>1, <1>3, <2>1, <3>1 DEF Frame, Structure, Shaped
  <2> QED BY <2>5, <2>6, <2>7 DEF OtherTrees
<1>5. CASE LET s == Siblings(t) IN
           /\ n \in Boxes /\ ToSet(s) \subseteq Boxes
           /\ \E i \in 1..Len(s) + 1 :
                LET c == InsertAt(s, i, n) IN
                /\ tops' = (tops \ {s}) \cup {c}
                /\ tree' = [tree EXCEPT ![t] = Head(c)]
           /\ UNCHANGED kids
  <2> DEFINE s == Siblings(t)
  <2>1. PICK i \in 1..Len(s) + 1 :
               /\ tops' = (tops \ {s}) \cup {InsertAt(s, i, n)}
               /\ tree' = [tree EXCEPT ![t] = Head(InsertAt(s, i, n))]
    BY <1>5
  <2> DEFINE c == InsertAt(s, i, n)
  <2>2. n \in Boxes /\ ToSet(s) \subseteq Boxes /\ kids' = kids
    BY <1>5
  <2>3. s \in Seq(Nodes) /\ IsInjective(s) /\ n \notin ToSet(s) /\ (s \in tops \/ s = <<>>)
    <3>1. CASE tree[t] = Nil
      <4>1. s = <<>>
        BY <1>1, <3>1, TreesViewHolds DEF TreesView
      <4> QED BY <4>1 DEF IsInjective, ToSet
    <3>2. CASE tree[t] # Nil
      <4>1. s \in tops
        BY <1>1, <3>2, TreesViewHolds DEF TreesView
      <4> QED BY <1>1, <1>2, <4>1 DEF Structure, Shaped, ChainOK, Linked
    <3> QED BY <3>1, <3>2
  <2> HIDE DEF s
  <2>4. c \in Seq(Nodes) /\ IsInjective(c) /\ c # <<>> /\ ToSet(c) = ToSet(s) \cup {n}
    <3>1. n \in Nodes \ ToSet(s)
      BY <2>3
    <3> QED BY <2>3, <3>1, Inserted
  <2>5. tops' = (tops \ {s}) \cup {c} /\ tree' = [tree EXCEPT ![t] = Head(c)]
    BY <2>1
  <2> HIDE DEF c
  <2>6. ChainOK(c) /\ Head(c) \in ToSet(c) /\ ToSet(c) \subseteq Boxes /\ Head(c) \in Nodes
    BY <2>2, <2>4, Members_ToSet DEF ChainOK
  <2>7. s \in tops \/ ToSet(s) = {}
    BY <2>3 DEF ToSet
  <2>8. Structure'
    BY <1>1, <1>2, <2>2, <2>4, <2>5, <2>6, <2>7, AddTop DEF Structure
  <2>9. Head(c) # Nil /\ tree'[t] = Head(c) /\ \A u \in Trees \ {t} : tree'[u] = tree[u]
    BY <1>1, <2>5, <2>6, NilAssumption DEF Types
  <2>10. ASSUME NEW u \in Trees \ {t}, tree[u] # Nil
         PROVE  Siblings(u) \in tops' /\ Head(Siblings(u)) = tree[u] /\ tree[u] # Head(c)
    <3>1. Siblings(u) \in tops /\ Siblings(u) # s
      BY <2>10, TreesApart DEF s
    <3>2. Head(Siblings(u)) = tree[u] /\ tree[u] \in ToSet(Siblings(u))
      BY <1>1, <2>10, TreesViewHolds DEF TreesView
    <3>3. tree[u] # n
      BY <1>2, <3>1, <3>2 DEF Linked
    <3>4. tree[u] \notin ToSet(s)
      <4>1. CASE s = <<>>
        BY <4>1 DEF ToSet
      <4>2. CASE s \in tops
        BY <1>1, <3>1, <3>2, <4>2 DEF Structure, Shaped
      <4> QED BY <2>3, <4>1, <4>2
    <3> QED BY <2>4, <2>5, <2>6, <3>1, <3>2, <3>3, <3>4
  <2>11. Anchored'
    <3>1. \A u \in Trees : tree'[u] # Nil =>
            owner'[u] = "open" /\ \E d \in tops' : Head(d) = tree'[u]
      BY <1>1, <1>2, <2>5, <2>9, <2>10 DEF Anchored
    <3>2. \A u, v \in Trees : tree'[u] # Nil /\ tree'[u] = tree'[v] => u = v
      BY <1>1, <2>9, <2>10 DEF Anchored
    <3> QED BY <3>1, <3>2 DEF Anchored
  <2>12. Owned'
    <3> SUFFICES ASSUME NEW d \in tops', Head(d) \notin Boxes PROVE \E u \in Trees : tree'[u] = Head(d)
      BY DEF Owned
    <3>1. d # c
      BY <2>6
    <3>2. d \in tops /\ d # s
      BY <2>5, <3>1
    <3>3. PICK u \in Trees : tree[u] = Head(d)
      BY <3>2 DEF TreeInv, Owned
    <3>4. u # t
      <4>1. Head(d) \in ToSet(d) /\ Head(d) \in Nodes
        BY <1>1, <3>2, Members_ToSet DEF Structure, Shaped, ChainOK
      <4>2. ASSUME u = t PROVE d = s
        BY <1>1, <3>2, <3>3, <4>1, <4>2, NilAssumption, TreesViewHolds DEF TreesView, s
      <4> QED BY <3>2, <4>2
    <3> QED BY <2>9, <3>3, <3>4
  <2>13. ASSUME NEW u \in Trees \ {t} PROVE Frame(u)
    BY <1>3, <2>2, <2>9, <2>10, <2>13 DEF Frame
  <2>14. tree' \in [Trees -> Nodes \cup {Nil}]
    BY <1>1, <2>5, <2>6 DEF Types
  <2> QED BY <2>8, <2>11, <2>12, <2>13, <2>14 DEF OtherTrees
<1> QED
  BY <1>4, <1>5 DEF Adds

(* What is left of the trees when node n leaves tree t: the other trees    *)
(* keep all, and the anchor of t is the head of what is left of its chain. *)
LEMMA CutFrame ==
  ASSUME TreeInv, NEW t \in Trees, NEW n \in Within(t),
         NEW u \in Trees, t # u, tree[u] # Nil
  PROVE  /\ Siblings(u) \in Shorter(tops, n) /\ Head(Siblings(u)) = tree[u] /\ tree[u] # n
         /\ \A x \in InChainOf(kids, Siblings(u)) :
              x \in Nodes /\ x \notin Below(kids, n) /\ RemoveFirst(kids[x], n) = kids[x]
<1>1. Types /\ Structure /\ Anchored
  BY DEF TreeInv
<1> DEFINE c == Siblings(u)
<1>2. /\ c \in tops /\ Head(c) = tree[u] /\ tree[u] \in ToSet(c)
      /\ \A x \in InChainOf(kids, c) : x \in Nodes /\ x \notin Within(t)
  BY <1>1, TreesApart, TreesViewHolds DEF TreesView
<1>3. tree[t] # Nil /\ Siblings(t) \in tops /\ Within(t) = InChainOf(kids, Siblings(t)) /\ n \in Nodes
  BY <1>1, TreesViewHolds DEF TreesView
<1> HIDE DEF c
<1>4. ToSet(c) \subseteq InChainOf(kids, c)
  BY <1>1, <1>2, InChainOfMembers DEF Structure
<1>5. n \notin ToSet(c)
  BY <1>2, <1>4
<1>6. c \in Shorter(tops, n)
  BY <1>1, <1>2, <1>5, ShorterChains DEF Structure
<1>7. Below(kids, n) \subseteq Within(t)
  <2>1. ToSet(kids[n]) \subseteq Nodes
    BY <1>1, <1>3, Levels DEF Structure
  <2> QED BY <1>1, <1>3, <2>1, ClosedTree DEF Structure, Below
<1>8. ASSUME NEW x \in InChainOf(kids, c) PROVE RemoveFirst(kids[x], n) = kids[x]
  <2>1. n \notin ToSet(kids[x])
    BY <1>1, <1>2, <1>8, ClosedTree DEF Structure
  <2> QED BY <1>1, <1>2, <2>1, Removed DEF Structure, Shaped
<1>9. tree[u] # n
  BY <1>2, <1>5
<1> QED
  BY <1>2, <1>6, <1>7, <1>8, <1>9 DEF c

LEMMA Reanchor ==
  ASSUME TreeInv, NEW t \in Trees, NEW n \in Within(t)
  PROVE  LET a == reanchorBeforeDetach(t, n)  r == RemoveFirst(Siblings(t), n) IN
         /\ \/ a = Nil /\ r = <<>>
            \/ a \in Nodes /\ a # n /\ r \in Shorter(tops, n) /\ Head(r) = a
         /\ n \notin ToSet(Siblings(t)) => a = tree[t]
<1>1. Types /\ Structure /\ Anchored
  BY DEF TreeInv
<1> DEFINE s == Siblings(t)
           a == reanchorBeforeDetach(t, n)
           r == RemoveFirst(s, n)
<1>2. s \in tops /\ Head(s) = tree[t] /\ tree[t] \in ToSet(s)
  BY <1>1, TreesViewHolds DEF TreesView
<1>3. a = IF Head(s) # n THEN Head(s) ELSE IF Len(s) > 1 THEN s[2] ELSE Nil
  BY DEF reanchorBeforeDetach
<1>4. s \in Seq(Nodes) /\ s # <<>> /\ IsInjective(s)
  BY <1>1, <1>2 DEF Structure, Shaped, ChainOK
<1> HIDE DEF s, a
<1>5. Len(s) > 1 \/ Len(s) = 1
  <2>1. Len(s) \in Nat /\ Len(s) >= 1
    BY <1>4, Members_ToSet
  <2>2. \A k \in Nat : k >= 1 => k > 1 \/ k = 1
    OBVIOUS
  <2> QED BY <2>1, <2>2
<1>6. /\ r \in Seq(Nodes) /\ ToSet(r) = ToSet(s) \ {n}
      /\ Head(s) # n => r # <<>> /\ Head(r) = Head(s)
      /\ Head(s) = n /\ Len(s) > 1 => r # <<>> /\ Head(r) = s[2]
      /\ Head(s) = n /\ Len(s) = 1 => r = <<>>
  BY <1>4, Removed
<1> HIDE DEF r
<1>7. (a = Nil /\ r = <<>>) \/ (r # <<>> /\ Head(r) = a)
  BY <1>3, <1>5, <1>6
<1>8. ASSUME r # <<>>, Head(r) = a PROVE a \in Nodes /\ a # n /\ r \in Shorter(tops, n)
  <2>1. a \in ToSet(r) /\ a \in Nodes
    BY <1>6, <1>8, Members_ToSet
  <2>2. r \in {RemoveFirst(c, n) : c \in tops}
    BY <1>2 DEF r
  <2> QED BY <1>6, <1>8, <2>1, <2>2 DEF Shorter
<1>9. n \notin ToSet(s) => a = tree[t]
  BY <1>2, <1>3
<1> QED
  BY <1>7, <1>8, <1>9 DEF a, r, s

(* A chain that is not of containers goes away whole or stays as it is.    *)
LEMMA OwnedCut ==
  ASSUME TreeInv, NEW n \in Nodes, NEW e \in Shorter(tops, n), Head(e) \notin Boxes
  PROVE  e \in tops /\ n \notin ToSet(e) /\ Head(e) \in ToSet(e)
<1>1. Structure
  BY DEF TreeInv
<1>2. PICK c \in tops : e = RemoveFirst(c, n) /\ ToSet(e) = ToSet(c) \ {n}
  BY <1>1, ShorterChains DEF Structure
<1>3. ChainOK(e) /\ n \notin ToSet(e)
  BY <1>1, ShorterChains DEF Structure
<1>4. Head(e) \in ToSet(e)
  BY <1>3, Members_ToSet DEF ChainOK
<1>5. c \in Seq(Nodes) /\ IsInjective(c) /\ (ToSet(c) \subseteq Boxes \/ Len(c) = 1)
  BY <1>1 DEF Structure, Shaped, ChainOK
<1>6. Len(c) = 1
  BY <1>2, <1>4, <1>5
<1>7. n \notin ToSet(c)
  <2>1. n \in ToSet(c) => Len(e) = 0
    BY <1>2, <1>5, <1>6, Removed
  <2> QED BY <1>3, <2>1, EmptySeq DEF ChainOK
<1>8. e = c
  BY <1>2, <1>5, <1>7, Removed
<1> QED
  BY <1>3, <1>4, <1>8

(* The operators that take nodes away, in terms of DataTree_nodes.         *)
LEMMA CutView ==
  ASSUME Structure, NEW n \in Nodes
  PROVE  /\ Shortened(n) = Shorter(tops, n)
         /\ Freed(n) = Pruned(kids, n)
         /\ Detached(n) = [m \in Nodes |-> RemoveFirst(kids[m], n)]
<1>1. Subtree(n) = Below(kids, n)
  BY NodesViewHolds DEF NodesView
<1> QED
  BY <1>1 DEF Shortened, Shorter, Freed, Pruned, Detached

(* RemovePath, DiffApply, Validate: a node goes with all that is below it. *)
LEMMA DeletesStep ==
  ASSUME TreeInv, NEW t \in Trees, NEW n, Deletes(t, n), owner' = owner, val' = val
  PROVE  /\ Structure' /\ Anchored' /\ Owned' /\ tree' \in [Trees -> Nodes \cup {Nil}]
         /\ OtherTrees({t})
<1>1. Types /\ Structure /\ Anchored /\ Owned
  BY DEF TreeInv
<1> DEFINE a == reanchorBeforeDetach(t, n)
           r == RemoveFirst(Siblings(t), n)
<1>2. n \in Within(t) /\ n \in Nodes
  BY <1>1, TreesViewHolds DEF Deletes, TreesView
<1>3. tree' = [tree EXCEPT ![t] = a] /\ tops' = Shorter(tops, n) /\ kids' = Pruned(kids, n)
  BY <1>1, <1>2, CutView DEF Deletes
<1>4. /\ (a = Nil /\ r = <<>>) \/ (a \in Nodes /\ a # n /\ r \in Shorter(tops, n) /\ Head(r) = a)
      /\ n \notin ToSet(Siblings(t)) => a = tree[t]
  BY <1>2, Reanchor
<1> HIDE DEF a, r
<1>5. Structure'
  BY <1>1, <1>2, <1>3, Prune DEF Structure
<1>6. tree' \in [Trees -> Nodes \cup {Nil}]
  BY <1>1, <1>3, <1>4 DEF Types
<1>7. tree'[t] = a /\ \A u \in Trees \ {t} : tree'[u] = tree[u]
  BY <1>1, <1>3 DEF Types
<1>8. tree[t] # Nil /\ owner[t] = "open" /\ Siblings(t) \in tops /\ tree[t] \in ToSet(Siblings(t))
  BY <1>1, <1>2, TreesViewHolds DEF TreesView, Anchored
<1>9. ASSUME NEW u \in Trees \ {t} PROVE Frame(u)
  <2> SUFFICES ASSUME tree[u] # Nil PROVE Frame(u)
    BY <1>7 DEF Frame
  <2>1. /\ Siblings(u) \in Shorter(tops, n)
        /\ \A x \in InChainOf(kids, Siblings(u)) :
              x \in Nodes /\ x \notin Below(kids, n) /\ RemoveFirst(kids[x], n) = kids[x]
    BY <1>2, CutFrame
  <2>2. \A x \in InChainOf(kids, Siblings(u)) : kids'[x] = kids[x]
    BY <1>3, <2>1 DEF Pruned
  <2> QED BY <1>3, <1>7, <2>1, <2>2 DEF Frame
<1>10. ASSUME NEW u \in Trees \ {t}, tree[u] # Nil
       PROVE  \E c \in tops' : Head(c) = tree[u]
  BY <1>2, <1>3, <1>10, CutFrame
<1>11. ASSUME NEW u \in Trees \ {t}, tree[u] # Nil PROVE tree[u] # a
  <2>1. CASE n \notin ToSet(Siblings(t))
    BY <1>1, <1>4, <1>11, <2>1 DEF Anchored
  <2>2. CASE n \in ToSet(Siblings(t))
    <3>1. Siblings(u) \in tops /\ Siblings(u) # Siblings(t) /\ tree[u] \in ToSet(Siblings(u))
      BY <1>1, <1>11, TreesApart, TreesViewHolds DEF TreesView
    <3>2. tree[u] \notin ToSet(Siblings(t))
      BY <1>1, <1>8, <3>1 DEF Structure, Shaped
    <3>3. a = Nil \/ a \in ToSet(Siblings(t))
      <4>1. /\ r \in Shorter(tops, n) => r \in Seq(Nodes) /\ r # <<>>
            /\ ToSet(r) = ToSet(Siblings(t)) \ {n}
        BY <1>1, <1>8, ShorterChains DEF r, Structure, ChainOK
      <4>2. r \in Shorter(tops, n) => Head(r) \in ToSet(r)
        BY <4>1, Members_ToSet
      <4> QED BY <1>4, <4>1, <4>2
    <3> QED BY <1>11, <3>2, <3>3
  <2> QED BY <2>1, <2>2
<1>12. Anchored'
  <2>1. \A u \in Trees : tree'[u] # Nil =>
          owner'[u] = "open" /\ \E c \in tops' : Head(c) = tree'[u]
    BY <1>1, <1>3, <1>4, <1>7, <1>8, <1>10 DEF Anchored
  <2>2. \A u, v \in Trees : tree'[u] # Nil /\ tree'[u] = tree'[v] => u = v
    BY <1>1, <1>7, <1>11 DEF Anchored
  <2> QED BY <2>1, <2>2 DEF Anchored
<1>13. Owned'
  <2> SUFFICES ASSUME NEW e \in tops', Head(e) \notin Boxes PROVE \E v \in Trees : tree'[v] = Head(e)
    BY DEF Owned
  <2>1. e \in tops /\ n \notin ToSet(e) /\ Head(e) \in ToSet(e)
    BY <1>2, <1>3, OwnedCut
  <2>2. PICK v \in Trees : tree[v] = Head(e)
    BY <1>1, <2>1 DEF Owned
  <2>3. CASE v = t
    <3>1. Siblings(t) = e
      BY <1>1, <1>8, <2>1, <2>2, <2>3, TreesViewHolds DEF TreesView
    <3> QED BY <1>4, <1>7, <2>1, <2>2, <2>3, <3>1
  <2>4. CASE v # t
    BY <1>7, <2>2, <2>4
  <2> QED BY <2>3, <2>4
<1> QED
  BY <1>5, <1>6, <1>9, <1>12, <1>13 DEF OtherTrees

(* UnlinkPath: the node and all that is below it become tree d.            *)
LEMMA UnlinkStep ==
  ASSUME TreeInv, NEW t \in Trees, NEW n \in Nodes, NEW d \in Trees, UnlinkPath(t, n, d)
  PROVE  /\ Structure' /\ Anchored' /\ Owned' /\ tree' \in [Trees -> Nodes \cup {Nil}]
         /\ OtherTrees({t, d}) /\ d # t
<1>1. Types /\ Structure /\ Anchored /\ Owned
  BY DEF TreeInv
<1> DEFINE a == reanchorBeforeDetach(t, n)
           r == RemoveFirst(Siblings(t), n)
<1>2. n \in Within(t) /\ n \in Nodes /\ n # Nil /\ owner[d] = "none"
  BY NilAssumption DEF UnlinkPath
<1>3. /\ tree' = [tree EXCEPT ![t] = a, ![d] = n]
      /\ tops' = Shorter(tops, n) \cup {<<n>>}
      /\ kids' = [m \in Nodes |-> RemoveFirst(kids[m], n)]
      /\ owner' = [owner EXCEPT ![d] = "open"] /\ val' = val
  BY <1>1, <1>2, CutView DEF UnlinkPath
<1>4. /\ (a = Nil /\ r = <<>>) \/ (a \in Nodes /\ a # n /\ r \in Shorter(tops, n) /\ Head(r) = a)
      /\ n \notin ToSet(Siblings(t)) => a = tree[t]
  BY <1>2, Reanchor
<1> HIDE DEF a, r
<1>5. Structure'
  BY <1>1, <1>2, <1>3, Unlink DEF Structure
<1>6. tree' \in [Trees -> Nodes \cup {Nil}]
  BY <1>1, <1>2, <1>3, <1>4 DEF Types
<1>7. tree[t] # Nil /\ owner[t] = "open" /\ Siblings(t) \in tops /\ tree[t] \in ToSet(Siblings(t))
  BY <1>1, <1>2, TreesViewHolds DEF TreesView, Anchored
<1>8. tree[d] = Nil /\ d # t
  BY <1>1, <1>2, <1>7 DEF Anchored
<1>9. /\ tree'[t] = a /\ tree'[d] = n /\ owner'[d] = "open"
      /\ \A u \in Trees \ {t, d} : tree'[u] = tree[u]
      /\ \A u \in Trees \ {d} : owner'[u] = owner[u]
  BY <1>1, <1>3, <1>8 DEF Types
<1>10. ASSUME NEW u \in Trees \ {t, d} PROVE Frame(u)
  <2> SUFFICES ASSUME tree[u] # Nil PROVE Frame(u)
    BY <1>9 DEF Frame
  <2>1. /\ Siblings(u) \in Shorter(tops, n)
        /\ \A x \in InChainOf(kids, Siblings(u)) : x \in Nodes /\ RemoveFirst(kids[x], n) = kids[x]
    BY <1>2, CutFrame
  <2> QED BY <1>3, <1>9, <2>1 DEF Frame
<1>11. ASSUME NEW u \in Trees \ {t, d}, tree[u] # Nil
       PROVE  (\E c \in tops' : Head(c) = tree[u]) /\ tree[u] # n
  BY <1>2, <1>3, <1>11, CutFrame
<1>12. ASSUME NEW u \in Trees \ {t, d}, tree[u] # Nil PROVE tree[u] # a
  <2>1. CASE n \notin ToSet(Siblings(t))
    BY <1>1, <1>4, <1>12, <2>1 DEF Anchored
  <2>2. CASE n \in ToSet(Siblings(t))
    <3>1. Siblings(u) \in tops /\ Siblings(u) # Siblings(t) /\ tree[u] \in ToSet(Siblings(u))
      BY <1>1, <1>12, TreesApart, TreesViewHolds DEF TreesView
    <3>2. tree[u] \notin ToSet(Siblings(t))
      BY <1>1, <1>7, <3>1 DEF Structure, Shaped
    <3>3. a = Nil \/ a \in ToSet(Siblings(t))
      <4>1. /\ r \in Shorter(tops, n) => r \in Seq(Nodes) /\ r # <<>>
            /\ ToSet(r) = ToSet(Siblings(t)) \ {n}
        BY <1>1, <1>7, ShorterChains DEF r, Structure, ChainOK
      <4>2. r \in Shorter(tops, n) => Head(r) \in ToSet(r)
        BY <4>1, Members_ToSet
      <4> QED BY <1>4, <4>1, <4>2
    <3> QED BY <1>12, <3>2, <3>3
  <2> QED BY <2>1, <2>2
<1>13. Anchored'
  <2>1. <<n>> \in tops' /\ Head(<<n>>) = n
    BY <1>3
  <2>2. a # Nil => owner'[t] = "open" /\ \E c \in tops' : Head(c) = a
    BY <1>3, <1>4, <1>7, <1>8, <1>9
  <2>3. \A u \in Trees : tree'[u] # Nil =>
          owner'[u] = "open" /\ \E c \in tops' : Head(c) = tree'[u]
    BY <1>1, <1>9, <1>11, <2>1, <2>2 DEF Anchored
  <2>4. a # n
    BY <1>2, <1>4
  <2>5. \A u, v \in Trees : tree'[u] # Nil /\ tree'[u] = tree'[v] => u = v
    BY <1>1, <1>9, <1>11, <1>12, <2>4 DEF Anchored
  <2> QED BY <2>3, <2>5 DEF Anchored
<1>14. Owned'
  <2> SUFFICES ASSUME NEW e \in tops', Head(e) \notin Boxes PROVE \E v \in Trees : tree'[v] = Head(e)
    BY DEF Owned
  <2>1. CASE e = <<n>>
    BY <1>9, <2>1
  <2>2. CASE e \in Shorter(tops, n)
    <3>1. e \in tops /\ n \notin ToSet(e) /\ Head(e) \in ToSet(e) /\ Head(e) \in Nodes
      BY <1>1, <1>2, <2>2, OwnedCut, Levels DEF Structure
    <3>2. PICK v \in Trees : tree[v] = Head(e)
      BY <1>1, <3>1 DEF Owned
    <3>3. v # d
      BY <1>8, <3>1, <3>2, NilAssumption
    <3>4. CASE v = t
      <4>1. Siblings(t) = e
        BY <1>1, <1>7, <3>1, <3>2, <3>4, TreesViewHolds DEF TreesView
      <4> QED BY <1>4, <1>9, <3>1, <3>2, <3>4, <4>1
    <3>5. CASE v # t
      BY <1>9, <3>2, <3>3, <3>5
    <3> QED BY <3>4, <3>5
  <2> QED BY <1>3, <2>1, <2>2
<1> QED
  BY <1>5, <1>6, <1>8, <1>10, <1>13, <1>14 DEF OtherTrees

(* SetValue and the other ways to give a leaf a value.                     *)
LEMMA SetsStep ==
  ASSUME TreeInv, NEW t \in Trees, NEW n, NEW v \in Values, Sets(t, n, v), owner' = owner
  PROVE  /\ Structure' /\ Anchored' /\ Owned' /\ tree' \in [Trees -> Nodes \cup {Nil}]
         /\ val' \in [Leaves -> Values] /\ OtherTrees({t})
<1>1. Types /\ Structure /\ Anchored /\ Owned
  BY DEF TreeInv
<1>2. UNCHANGED <<tops, kids, tree, owner>> /\ n \in Leaves /\ n \in Within(t)
  BY DEF Sets
<1>3. val' = [val EXCEPT ![n] = v]
  BY DEF Sets
<1>4. Structure' /\ Anchored' /\ Owned' /\ tree' \in [Trees -> Nodes \cup {Nil}]
  BY <1>1, <1>2 DEF Structure, Anchored, Owned, Types
<1>5. val' \in [Leaves -> Values]
  BY <1>1, <1>3 DEF Types
<1>6. ASSUME NEW u \in Trees \ {t} PROVE Frame(u)
  <2> SUFFICES ASSUME tree[u] # Nil PROVE Frame(u)
    BY <1>2 DEF Frame
  <2>1. Siblings(u) \in tops /\ \A x \in InChainOf(kids, Siblings(u)) : x # n
    BY <1>2, TreesApart
  <2> QED BY <1>1, <1>2, <1>3, <2>1 DEF Frame, Types
<1> QED
  BY <1>4, <1>5, <1>6 DEF OtherTrees

(* Close: the whole chain goes.                                            *)
LEMMA CloseStep ==
  ASSUME TreeInv, NEW t \in Trees, Close(t)
  PROVE  /\ Structure' /\ Anchored' /\ Owned' /\ tree' \in [Trees -> Nodes \cup {Nil}]
         /\ OtherTrees({t})
<1>1. Types /\ Structure /\ Anchored /\ Owned
  BY DEF TreeInv
<1> DEFINE s == Siblings(t)
<1>2. /\ tops' = tops \ {s}
      /\ kids' = [n \in Nodes |-> IF n \in Within(t) THEN <<>> ELSE kids[n]]
      /\ tree' = [tree EXCEPT ![t] = Nil]
      /\ owner' = [owner EXCEPT ![t] = "released"] /\ val' = val
  BY DEF Close
<1>3. /\ tree'[t] = Nil
      /\ \A u \in Trees \ {t} : tree'[u] = tree[u] /\ owner'[u] = owner[u]
      /\ tree' \in [Trees -> Nodes \cup {Nil}]
  BY <1>1, <1>2 DEF Types
<1>4. Within(t) = InChainOf(kids, s) /\ (s \in tops \/ InChainOf(kids, s) = {})
  <2>1. CASE tree[t] = Nil
    <3>1. s = <<>> /\ Within(t) = {}
      BY <1>1, <2>1, TreesViewHolds DEF TreesView
    <3> QED BY <3>1 DEF InChainOf, ToSet
  <2>2. CASE tree[t] # Nil
    BY <1>1, <2>2, TreesViewHolds DEF TreesView
  <2> QED BY <2>1, <2>2
<1>5. ASSUME NEW u \in Trees \ {t}, tree[u] # Nil
      PROVE  Siblings(u) \in tops' /\ Head(Siblings(u)) = tree[u] /\ Frame(u)
  <2>1. /\ Siblings(u) \in tops /\ Siblings(u) # s /\ Head(Siblings(u)) = tree[u]
        /\ \A x \in InChainOf(kids, Siblings(u)) : x \in Nodes /\ x \notin Within(t)
    BY <1>1, <1>5, TreesApart, TreesViewHolds DEF TreesView
  <2> QED BY <1>2, <1>3, <2>1 DEF Frame
<1> HIDE DEF s
<1>6. Structure'
  <2>1. kids' = [n \in Nodes |-> IF n \in InChainOf(kids, s) THEN <<>> ELSE kids[n]]
    BY <1>2, <1>4
  <2> QED BY <1>1, <1>2, <1>4, <2>1, Drop DEF Structure
<1>7. Anchored'
  <2>1. \A u \in Trees : tree'[u] # Nil =>
          owner'[u] = "open" /\ \E c \in tops' : Head(c) = tree'[u]
    BY <1>1, <1>3, <1>5 DEF Anchored
  <2>2. \A u, v \in Trees : tree'[u] # Nil /\ tree'[u] = tree'[v] => u = v
    BY <1>1, <1>3 DEF Anchored
  <2> QED BY <2>1, <2>2 DEF Anchored
<1>8. Owned'
  <2> SUFFICES ASSUME NEW e \in tops', Head(e) \notin Boxes PROVE \E v \in Trees : tree'[v] = Head(e)
    BY DEF Owned
  <2>1. e \in tops /\ e # s
    BY <1>2
  <2>2. PICK v \in Trees : tree[v] = Head(e)
    BY <1>1, <2>1 DEF Owned
  <2>3. v # t
    <3>1. Head(e) \in ToSet(e) /\ Head(e) \in Nodes
      BY <1>1, <2>1, Members_ToSet DEF Structure, Shaped, ChainOK
    <3>2. v = t => e = s
      BY <1>1, <2>1, <2>2, <3>1, NilAssumption, TreesViewHolds DEF TreesView, s
    <3> QED BY <2>1, <3>2
  <2> QED BY <1>3, <2>2, <2>3
<1>9. ASSUME NEW u \in Trees \ {t} PROVE Frame(u)
  BY <1>3, <1>5 DEF Frame
<1> QED
  BY <1>3, <1>6, <1>7, <1>8, <1>9 DEF OtherTrees

(* NewData and Parse: a document of nodes that were nowhere.               *)
LEMMA NewTreeStep ==
  ASSUME TreeInv, NEW t \in Trees, NEW d \in Documents, NewTree(t, d)
  PROVE  /\ Structure' /\ Anchored' /\ Owned' /\ tree' \in [Trees -> Nodes \cup {Nil}]
         /\ OtherTrees({t})
<1>1. Types /\ Structure /\ Anchored /\ Owned
  BY DEF TreeInv
<1>2. WellFormed(d)
  BY DocumentsAssumption
<1>3. /\ owner[t] = "none" /\ InDocument(d) \cap Allocated = {}
      /\ owner' = [owner EXCEPT ![t] = "open"] /\ val' = val
      /\ tops' = IF d.top = <<>> THEN tops ELSE tops \cup {d.top}
      /\ tree' = [tree EXCEPT ![t] = IF d.top = <<>> THEN Nil ELSE Head(d.top)]
      /\ kids' = [n \in Nodes |-> IF n \in DOMAIN d.kids THEN d.kids[n] ELSE kids[n]]
  BY DEF NewTree
<1>4. /\ d.top \in Seq(Boxes) /\ ToSet(d.top) \subseteq InDocument(d)
      /\ DOMAIN d.kids \subseteq InDocument(d)
      /\ \A m \in DOMAIN d.kids : d.kids[m] \in Seq(Nodes) /\ ToSet(d.kids[m]) \subseteq InDocument(d)
  BY <1>2 DEF WellFormed, InDocument
<1>5. InDocument(d) \subseteq Nodes
  <2>1. \A m \in DOMAIN d.kids : ToSet(d.kids[m]) \subseteq Nodes
    BY <1>4, Members_ToSet
  <2>2. ToSet(d.top) \subseteq Nodes
    BY <1>4, Members_ToSet DEF Nodes
  <2> QED BY <2>1, <2>2 DEF InDocument
<1>6. \A x \in InDocument(d) : ~Linked(tops, kids, x)
  BY <1>1, <1>3, <1>5, NodesViewHolds DEF NodesView
<1>7. Structure'
  BY <1>1, <1>2, <1>3, <1>6, NewDocument DEF Structure
<1> DEFINE a == IF d.top = <<>> THEN Nil ELSE Head(d.top)
<1>8. d.top # <<>> => a \in ToSet(d.top) /\ a \in Boxes /\ a # Nil /\ ToSet(d.top) \subseteq Boxes
  <2>1. d.top # <<>> => Head(d.top) \in ToSet(d.top) /\ ToSet(d.top) \subseteq Boxes
    BY <1>4, Members_ToSet
  <2> QED BY <2>1, NilAssumption DEF Nodes
<1>9. a \in Nodes \cup {Nil} /\ (d.top = <<>> => a = Nil) /\ (d.top # <<>> => a = Head(d.top))
  BY <1>8 DEF Nodes
<1>10. tree' = [tree EXCEPT ![t] = a]
  BY <1>3
<1> HIDE DEF a
<1>11. tree[t] = Nil
  BY <1>1, <1>3 DEF Anchored
<1>12. /\ tree'[t] = a /\ owner'[t] = "open" /\ tree' \in [Trees -> Nodes \cup {Nil}]
       /\ \A u \in Trees \ {t} : tree'[u] = tree[u] /\ owner'[u] = owner[u]
  BY <1>1, <1>3, <1>9, <1>10 DEF Types
<1>13. \A c \in tops : c \in tops'
  BY <1>3
<1>14. ASSUME NEW u \in Trees \ {t}, tree[u] # Nil
       PROVE  /\ Siblings(u) \in tops' /\ tree[u] \notin InDocument(d)
              /\ \A x \in InChainOf(kids, Siblings(u)) : kids'[x] = kids[x]
  <2>1. /\ Siblings(u) \in tops /\ tree[u] \in ToSet(Siblings(u))
        /\ \A x \in InChainOf(kids, Siblings(u)) : x \in Nodes /\ Linked(tops, kids, x)
    BY <1>1, <1>14, <1>11, TreesApart, TreesViewHolds DEF TreesView
  <2>2. \A x \in InChainOf(kids, Siblings(u)) : x \notin DOMAIN d.kids
    BY <1>4, <1>6, <2>1
  <2>3. tree[u] \notin InDocument(d)
    BY <1>6, <2>1 DEF Linked
  <2> QED BY <1>3, <1>13, <2>1, <2>2, <2>3
<1>15. Anchored'
  <2>1. a # Nil => \E c \in tops' : Head(c) = a
    BY <1>3, <1>9
  <2>2. \A u \in Trees : tree'[u] # Nil =>
          owner'[u] = "open" /\ \E c \in tops' : Head(c) = tree'[u]
    BY <1>1, <1>12, <1>13, <2>1 DEF Anchored
  <2>3. a # Nil => a \in InDocument(d)
    BY <1>4, <1>8, <1>9
  <2>4. \A u, v \in Trees : tree'[u] # Nil /\ tree'[u] = tree'[v] => u = v
    BY <1>1, <1>12, <1>14, <2>3 DEF Anchored
  <2> QED BY <2>2, <2>4 DEF Anchored
<1>16. Owned'
  <2> SUFFICES ASSUME NEW e \in tops', Head(e) \notin Boxes PROVE \E v \in Trees : tree'[v] = Head(e)
    BY DEF Owned
  <2>1. e \in tops
    BY <1>3, <1>8, <1>9
  <2>2. PICK v \in Trees : tree[v] = Head(e)
    BY <1>1, <2>1 DEF Owned
  <2>3. v # t
    <3>1. Head(e) \in Nodes
      BY <1>1, <2>1, Members_ToSet DEF Structure, Shaped, ChainOK
    <3> QED BY <1>11, <2>2, <3>1, NilAssumption
  <2> QED BY <1>12, <2>2, <2>3
<1>17. ASSUME NEW u \in Trees \ {t} PROVE Frame(u)
  BY <1>3, <1>12, <1>14 DEF Frame
<1> QED
  BY <1>7, <1>12, <1>15, <1>16, <1>17 DEF OtherTrees

(* The first node of a tree goes away and the tree with it: a rejected     *)
(* node is freed, an accepted one becomes a child of another tree.         *)
LEMMA GivenAway ==
  ASSUME TreeInv, NEW e \in Trees, tree[e] # Nil,
         tops' = Shorter(tops, tree[e]), tree' = [tree EXCEPT ![e] = Nil],
         owner' = [owner EXCEPT ![e] = "released"]
  PROVE  Anchored' /\ Owned'
<1>1. Types /\ Structure /\ Anchored /\ Owned
  BY DEF TreeInv
<1>2. tree[e] \in Within(e) /\ tree[e] \in Nodes
  <2>1. /\ Siblings(e) \in tops /\ tree[e] \in ToSet(Siblings(e))
        /\ Within(e) = InChainOf(kids, Siblings(e)) /\ Within(e) \subseteq Nodes
    BY <1>1, TreesViewHolds DEF TreesView
  <2> QED BY <1>1, <2>1, InChainOfMembers DEF Structure
<1>3. /\ tree'[e] = Nil
      /\ \A u \in Trees \ {e} : tree'[u] = tree[u] /\ owner'[u] = owner[u]
  BY <1>1 DEF Types
<1>4. ASSUME NEW u \in Trees \ {e}, tree[u] # Nil PROVE \E c \in tops' : Head(c) = tree[u]
  BY <1>2, <1>4, CutFrame
<1>5. Anchored'
  <2>1. \A u \in Trees : tree'[u] # Nil =>
          owner'[u] = "open" /\ \E c \in tops' : Head(c) = tree'[u]
    BY <1>1, <1>3, <1>4 DEF Anchored
  <2>2. \A u, v \in Trees : tree'[u] # Nil /\ tree'[u] = tree'[v] => u = v
    BY <1>1, <1>3 DEF Anchored
  <2> QED BY <2>1, <2>2 DEF Anchored
<1>6. Owned'
  <2> SUFFICES ASSUME NEW c \in tops', Head(c) \notin Boxes PROVE \E v \in Trees : tree'[v] = Head(c)
    BY DEF Owned
  <2>1. c \in tops /\ tree[e] \notin ToSet(c) /\ Head(c) \in ToSet(c)
    BY <1>2, OwnedCut
  <2>2. PICK v \in Trees : tree[v] = Head(c)
    BY <1>1, <2>1 DEF Owned
  <2> QED BY <1>3, <2>1, <2>2
<1> QED
  BY <1>5, <1>6

(* Insert*: the node is refused and freed.                                 *)
LEMMA RejectsStep ==
  ASSUME TreeInv, NEW l, NEW e \in Trees, Rejects(l, e)
  PROVE  /\ Structure' /\ Anchored' /\ Owned' /\ tree' \in [Trees -> Nodes \cup {Nil}]
         /\ OtherTrees({e})
<1>1. Types /\ Structure /\ Anchored /\ Owned
  BY DEF TreeInv
<1>2. /\ tree' = [tree EXCEPT ![e] = Nil] /\ owner' = [owner EXCEPT ![e] = "released"]
      /\ val' = val
      /\ tree[e] = Nil => UNCHANGED <<tops, kids>>
      /\ tree[e] # Nil => tops' = Shortened(tree[e]) /\ kids' = Freed(tree[e])
  BY DEF Rejects, intoRaw
<1>3. /\ \A u \in Trees \ {e} : tree'[u] = tree[u] /\ owner'[u] = owner[u]
      /\ tree'[e] = Nil /\ tree' \in [Trees -> Nodes \cup {Nil}]
  BY <1>1, <1>2 DEF Types
<1>4. CASE tree[e] = Nil
  <2>1. Structure'
    BY <1>1, <1>2, <1>4 DEF Structure
  <2>2. tree' = tree
    BY <1>1, <1>2, <1>4 DEF Types
  <2>3. \A u \in Trees : tree[u] # Nil => u # e
    BY <1>4
  <2>4. Anchored'
    BY <1>1, <1>2, <1>3, <1>4, <2>2, <2>3 DEF Anchored
  <2>5. Owned'
    BY <1>1, <1>2, <1>4, <2>2 DEF Owned
  <2>6. ASSUME NEW u \in Trees \ {e} PROVE Frame(u)
    <3>1. tree[u] # Nil => Siblings(u) \in tops
      BY <1>1, TreesViewHolds DEF TreesView
    <3> QED BY <1>2, <1>3, <1>4, <3>1 DEF Frame
  <2> QED BY <1>3, <2>1, <2>4, <2>5, <2>6 DEF OtherTrees
<1>5. CASE tree[e] # Nil
  <2>1. tree[e] \in Nodes /\ tree[e] \in Within(e)
    <3>1. /\ Siblings(e) \in tops /\ tree[e] \in ToSet(Siblings(e))
          /\ Within(e) = InChainOf(kids, Siblings(e)) /\ Within(e) \subseteq Nodes
      BY <1>1, <1>5, TreesViewHolds DEF TreesView
    <3> QED BY <1>1, <3>1, InChainOfMembers DEF Structure
  <2>2. tops' = Shorter(tops, tree[e]) /\ kids' = Pruned(kids, tree[e])
    BY <1>1, <1>2, <1>5, <2>1, CutView
  <2>3. Structure'
    BY <1>1, <2>1, <2>2, Prune DEF Structure
  <2>4. Anchored' /\ Owned'
    BY <1>2, <1>5, <2>2, GivenAway
  <2>5. ASSUME NEW u \in Trees \ {e} PROVE Frame(u)
    <3> SUFFICES ASSUME tree[u] # Nil PROVE Frame(u)
      BY <1>3 DEF Frame
    <3>1. /\ Siblings(u) \in Shorter(tops, tree[e])
          /\ \A x \in InChainOf(kids, Siblings(u)) :
                x \in Nodes /\ x \notin Below(kids, tree[e]) /\ RemoveFirst(kids[x], tree[e]) = kids[x]
      BY <2>1, CutFrame
    <3>2. \A x \in InChainOf(kids, Siblings(u)) : kids'[x] = kids[x]
      BY <2>2, <3>1 DEF Pruned
    <3> QED BY <1>2, <1>3, <2>2, <3>1, <3>2 DEF Frame
  <2> QED BY <1>3, <2>3, <2>4, <2>5 DEF OtherTrees
<1> QED
  BY <1>4, <1>5

(* The entries of a list are children of its parent, of one kind.          *)
LEMMA nthMember ==
  ASSUME Structure, NEW l, NEW i, list[l].parent \in Nodes \cup {Nil}, nth(l, i) # Nil
  PROVE  /\ list[l].parent \in Nodes
         /\ nth(l, i) \in ToSet(kids[list[l].parent]) /\ Kind(nth(l, i)) = list[l].name
<1> DEFINE s == IF list[l].parent = Nil THEN <<>> ELSE kids[list[l].parent]
           entries(k) == {j \in 1..k : Kind(s[j]) = list[l].name}
           at == {k \in DOMAIN s : k \in entries(k) /\ Cardinality(entries(k - 1)) = i}
<1>1. nth(l, i) = IF at = {} THEN Nil ELSE s[CHOOSE k \in at : TRUE]
  BY DEF nth
<1>2. at # {}
  BY <1>1
<1>3. PICK k \in at : nth(l, i) = s[k]
  BY <1>1, <1>2
<1>4. k \in DOMAIN s /\ Kind(s[k]) = list[l].name
  OBVIOUS
<1>5. s # <<>>
  BY <1>4
<1>6. list[l].parent \in Nodes /\ s = kids[list[l].parent]
  BY <1>5
<1>7. kids[list[l].parent] \in Seq(Nodes)
  BY <1>6 DEF Structure, Shaped
<1>8. s[k] \in ToSet(s)
  BY <1>4 DEF ToSet
<1> QED
  BY <1>3, <1>4, <1>6, <1>8

(* Insert*: the node of tree e becomes a child of the parent of the list.  *)
LEMMA AcceptsStep ==
  ASSUME TreeInv, NEW l, NEW e \in Trees, NEW t \in Trees, NEW p \in Within(t),
         NEW q \in Seq(Nodes), Accepts(l, e, q), list[l].of = t, list[l].parent = p, t # e,
         tree[e] # Nil, ParentKind(Kind(tree[e])) = Kind(p),
         IsInjective(q), ToSet(q) = ToSet(kids[p]) \cup {tree[e]}
  PROVE  TreeInv' /\ OtherTrees({e, t}) /\ p \in Within(t)'
<1>1. Types /\ Structure /\ Anchored /\ Owned
  BY DEF TreeInv
<1> DEFINE n == tree[e]
<1>2. t # e /\ p \in Within(t) /\ ParentKind(Kind(n)) = Kind(p)
  OBVIOUS
<1>3. /\ tree' = [tree EXCEPT ![e] = Nil] /\ owner' = [owner EXCEPT ![e] = "released"]
      /\ tops' = Shortened(n) /\ kids' = [kids EXCEPT ![p] = q] /\ val' = val
      /\ gen' = [gen EXCEPT ![t] = @ + 1]
  BY DEF Accepts, intoRaw, incrementGen
<1>4. q \in Seq(Nodes) /\ IsInjective(q) /\ ToSet(q) = ToSet(kids[p]) \cup {n}
  OBVIOUS
<1>5. /\ Siblings(e) \in tops /\ n \in ToSet(Siblings(e)) /\ n \in Nodes
      /\ Within(e) = InChainOf(kids, Siblings(e))
  BY <1>1, TreesViewHolds DEF TreesView, Types
<1>6. n \in Within(e)
  BY <1>1, <1>5, InChainOfMembers DEF Structure
<1>7. /\ tree[t] # Nil /\ Siblings(t) \in tops /\ tree[t] \in ToSet(Siblings(t))
      /\ Within(t) = InChainOf(kids, Siblings(t)) /\ p \in Nodes /\ Linked(tops, kids, p)
  BY <1>1, <1>2, TreesViewHolds DEF TreesView
<1>8. p \notin Within(e)
  BY <1>2, <1>7, TreesApart
<1>9. p # n
  BY <1>6, <1>8
<1>10. tops' = Shorter(tops, n)
  BY <1>1, <1>3, <1>5, CutView
<1>11. Structure'
  <2>1. Shaped(tops, kids) /\ Linked(tops, kids, p) /\ p \in Nodes /\ p # n
    BY <1>1, <1>7, <1>9 DEF Structure
  <2>2. Shaped(Shorter(tops, n), [kids EXCEPT ![p] = q])
    BY <1>2, <1>4, <1>5, <2>1, Adopt
  <2> QED BY <1>3, <1>10, <2>2 DEF Structure
<1>12. Anchored' /\ Owned'
  BY <1>3, <1>10, GivenAway
<1>13. Types'
  BY <1>1, <1>3 DEF Types
<1>14. \A m \in Nodes : (m # p => kids'[m] = kids[m]) /\ ToSet(kids[m]) \subseteq ToSet(kids'[m])
  BY <1>1, <1>3, <1>4, <1>7 DEF Structure, Shaped
<1>15. \A u \in Trees \ {e} : tree'[u] = tree[u]
  BY <1>1, <1>3 DEF Types
<1>16. ASSUME NEW u \in Trees \ {e, t} PROVE Frame(u)
  <2> SUFFICES ASSUME tree[u] # Nil PROVE Frame(u)
    BY <1>15 DEF Frame
  <2>1. Siblings(u) \in Shorter(tops, n)
    BY <1>6, CutFrame
  <2>2. \A x \in InChainOf(kids, Siblings(u)) : x \in Nodes /\ x # p
    BY <1>2, TreesApart
  <2>3. \A x \in InChainOf(kids, Siblings(u)) : kids'[x] = kids[x]
    BY <1>14, <2>2
  <2> QED BY <1>3, <1>10, <1>15, <2>1, <2>3 DEF Frame
<1>17. p \in Within(t)'
  <2> DEFINE c == Siblings(t)
  <2>1. c \in tops /\ c \in Shorter(tops, n) /\ p \in InChainOf(kids, c) /\ tree[t] \in ToSet(c)
    BY <1>2, <1>6, <1>7, CutFrame
  <2> HIDE DEF c
  <2>2. c \in tops' /\ tree'[t] # Nil /\ tree'[t] \in ToSet(c)
    BY <1>2, <1>7, <1>10, <1>15, <2>1
  <2>3. Within(t)' = InChainOf(kids', c)
    BY <1>2, <1>11, <1>12, <1>13, <2>2, TreesViewNext DEF TreesView
  <2>4. /\ ToSet(c) \subseteq Nodes /\ \A x \in ToSet(c) : ToSet(kids[x]) \subseteq Nodes
    BY <1>1, <2>1, Levels DEF Structure
  <2>5. \/ p \in ToSet(c)
        \/ \E x \in ToSet(c) : p \in ToSet(kids[x])
        \/ \E x \in ToSet(c) : \E m \in ToSet(kids[x]) : p \in ToSet(kids[m])
    BY <1>1, <2>1, InChainOfMembers DEF Structure
  <2>6. \/ p \in ToSet(c)
        \/ \E x \in ToSet(c) : p \in ToSet(kids'[x])
        \/ \E x \in ToSet(c) : \E m \in ToSet(kids'[x]) : p \in ToSet(kids'[m])
    BY <1>14, <2>4, <2>5
  <2> QED BY <1>11, <2>2, <2>3, <2>6, InChainOfMembers DEF Structure
<1> QED
  BY <1>11, <1>12, <1>13, <1>16, <1>17 DEF TreeInv, OtherTrees

(* Move*: the children of the parent of the list in another order.         *)
LEMMA MoveStep ==
  ASSUME TreeInv, NEW t \in Trees, NEW p \in Within(t), NEW q \in Seq(Nodes),
         UNCHANGED <<tops, val, owner, tree>>, gen' = [gen EXCEPT ![t] = @ + 1],
         kids' = [kids EXCEPT ![p] = q], IsInjective(q), ToSet(q) = ToSet(kids[p])
  PROVE  TreeInv' /\ OtherTrees({t}) /\ p \in Within(t)'
<1>1. Types /\ Structure /\ Anchored /\ Owned
  BY DEF TreeInv
<1>2. /\ t \in Trees /\ p \in Within(t) /\ kids' = [kids EXCEPT ![p] = q]
      /\ q \in Seq(Nodes) /\ IsInjective(q) /\ ToSet(q) = ToSet(kids[p])
      /\ gen' = [gen EXCEPT ![t] = @ + 1]
  OBVIOUS
<1>3. /\ tree[t] # Nil /\ Siblings(t) \in tops /\ tree[t] \in ToSet(Siblings(t))
      /\ Within(t) = InChainOf(kids, Siblings(t)) /\ p \in Nodes
  BY <1>1, <1>2, TreesViewHolds DEF TreesView
<1>4. Structure'
  <2>1. Shaped(tops, [kids EXCEPT ![p] = q])
    BY <1>1, <1>2, <1>3, Reordered DEF Structure
  <2> QED BY <1>2, <2>1 DEF Structure
<1>5. Anchored' /\ Owned'
  BY <1>1 DEF Anchored, Owned
<1>6. Types'
  BY <1>1, <1>2 DEF Types
<1>7. \A m \in Nodes : (m # p => kids'[m] = kids[m]) /\ ToSet(kids[m]) = ToSet(kids'[m])
  BY <1>1, <1>2, <1>3 DEF Structure, Shaped
<1>8. ASSUME NEW u \in Trees \ {t} PROVE Frame(u)
  <2> SUFFICES ASSUME tree[u] # Nil PROVE Frame(u)
    BY DEF Frame
  <2>1. Siblings(u) \in tops /\ \A x \in InChainOf(kids, Siblings(u)) : x \in Nodes /\ x # p
    BY <1>2, TreesApart
  <2> QED BY <1>7, <2>1 DEF Frame
<1>9. p \in Within(t)'
  <2> DEFINE c == Siblings(t)
  <2>1. c \in tops /\ p \in InChainOf(kids, c) /\ tree[t] \in ToSet(c)
    BY <1>2, <1>3
  <2> HIDE DEF c
  <2>2. c \in tops' /\ tree'[t] # Nil /\ tree'[t] \in ToSet(c)
    BY <1>3, <2>1
  <2>3. Within(t)' = InChainOf(kids', c)
    BY <1>2, <1>4, <1>5, <1>6, <2>2, TreesViewNext DEF TreesView
  <2>4. /\ ToSet(c) \subseteq Nodes /\ \A x \in ToSet(c) : ToSet(kids[x]) \subseteq Nodes
    BY <1>1, <2>1, Levels DEF Structure
  <2>5. \/ p \in ToSet(c)
        \/ \E x \in ToSet(c) : p \in ToSet(kids[x])
        \/ \E x \in ToSet(c) : \E m \in ToSet(kids[x]) : p \in ToSet(kids[m])
    BY <1>1, <2>1, InChainOfMembers DEF Structure
  <2>6. \/ p \in ToSet(c)
        \/ \E x \in ToSet(c) : p \in ToSet(kids'[x])
        \/ \E x \in ToSet(c) : \E m \in ToSet(kids'[x]) : p \in ToSet(kids'[m])
    BY <1>7, <2>4, <2>5
  <2>7. Shaped(tops', kids')
    BY <1>4 DEF Structure
  <2>8. p \in InChainOf(kids', c)
    BY <2>2, <2>6, <2>7, InChainOfMembers
  <2> QED BY <2>3, <2>8
<1> QED
  BY <1>4, <1>5, <1>6, <1>8, <1>9 DEF TreeInv, OtherTrees

----------------------------------------------------------------------------
(* Every call, as trees and handles see it: a tree is left alone, or its   *)
(* generation moves, or no handle on it remains; a handle stays, goes, or  *)
(* is a current one whose parent is in its tree.                           *)
Current(h, t) == /\ h.of = t /\ owner'[t] # "none" /\ h.gen = gen'[t]
                 /\ h.name # "any" /\ h.parent # Nil => h.parent \in Within(t)'

Step ==
    /\ TreeInv'
    /\ \A t \in Trees : gen[t] <= gen'[t] /\ (owner[t] # "none" => owner'[t] # "none")
    /\ list' \in [Handles -> Handle \cup {Nil}]
    /\ \A t \in Trees : \/ Frame(t)
                        \/ gen[t] < gen'[t]
                        \/ \A l \in Handles : list'[l] # Nil => list'[l].of # t
    /\ \A l \in Handles : \/ list'[l] = list[l] \/ list'[l] = Nil
                          \/ \E t \in Trees : Current(list'[l], t)

(* An operation that moves the generation of the only tree it changes.     *)
LEMMA Mutates ==
  ASSUME IInv, NEW t \in Trees, Structure', Anchored', Owned',
         tree' \in [Trees -> Nodes \cup {Nil}], val' \in [Leaves -> Values],
         OtherTrees({t}), owner' = owner, list' = list, incrementGen(t)
  PROVE  Step
<1>1. TreeInv /\ Types /\ list \in [Handles -> Handle \cup {Nil}]
  BY DEF IInv, TreeInv, HandleInv
<1>2. gen' = [gen EXCEPT ![t] = gen[t] + 1]
  BY DEF incrementGen
<1>3. gen' \in [Trees -> Nat] /\ gen'[t] = gen[t] + 1 /\ \A u \in Trees \ {t} : gen'[u] = gen[u]
  BY <1>1, <1>2 DEF Types
<1>4. gen[t] < gen'[t] /\ \A u \in Trees : gen[u] <= gen'[u]
  BY <1>1, <1>3 DEF Types
<1>5. Types'
  BY <1>1, <1>3 DEF Types
<1>6. TreeInv'
  BY <1>5 DEF TreeInv
<1> QED
  BY <1>1, <1>4, <1>6 DEF Step, OtherTrees

(* The mutations that change one tree.                                     *)
LEMMA EditStep ==
  ASSUME IInv, ~PartialFailure, NEW t \in Trees, NEW n \in Nodes,
         \/ NewPath(t, n) \/ AddDefaults(t, n) \/ DiffApply(t, n) \/ Validate(t, n)
         \/ RemovePath(t, n) \/ \E s \in Trees : Merge(t, s, n)
         \/ \E v \in {"a", "b"} : SetValue(t, n, v)
  PROVE  Step
<1>1. TreeInv /\ Types
  BY DEF IInv, TreeInv
<1>2. owner' = owner /\ list' = list /\ incrementGen(t)
  BY DEF NewPath, AddDefaults, DiffApply, Validate, RemovePath, Merge, SetValue
<1>3. \/ Adds(t, n) /\ val' = val
      \/ Adds(t, n) /\ n \in Leaves /\ \E v \in Values : val' = [val EXCEPT ![n] = v]
      \/ Deletes(t, n) /\ val' = val
      \/ \E v \in Values : Sets(t, n, v)
      \/ UNCHANGED <<tops, kids, val, tree>>
  BY DEF NewPath, AddDefaults, DiffApply, Validate, RemovePath, Merge, SetValue, Values
<1>4. CASE Adds(t, n) /\ val' = val
  <2>1. /\ Structure' /\ Anchored' /\ Owned' /\ tree' \in [Trees -> Nodes \cup {Nil}]
        /\ OtherTrees({t})
    BY <1>1, <1>2, <1>4, AddsStep
  <2> QED BY <1>1, <1>2, <1>4, <2>1, Mutates DEF Types
<1>5. CASE Adds(t, n) /\ n \in Leaves /\ \E v \in Values : val' = [val EXCEPT ![n] = v]
  <2>1. val' \in [Leaves -> Values] /\ \A x \in Leaves \ {n} : val'[x] = val[x]
    BY <1>1, <1>5 DEF Types
  <2>2. /\ Structure' /\ Anchored' /\ Owned' /\ tree' \in [Trees -> Nodes \cup {Nil}]
        /\ OtherTrees({t})
    BY <1>1, <1>2, <1>5, <2>1, AddsStep
  <2> QED BY <1>2, <2>1, <2>2, Mutates
<1>6. CASE Deletes(t, n) /\ val' = val
  <2>1. /\ Structure' /\ Anchored' /\ Owned' /\ tree' \in [Trees -> Nodes \cup {Nil}]
        /\ OtherTrees({t})
    BY <1>1, <1>2, <1>6, DeletesStep
  <2> QED BY <1>1, <1>2, <1>6, <2>1, Mutates DEF Types
<1>7. CASE \E v \in Values : Sets(t, n, v)
  <2>1. /\ Structure' /\ Anchored' /\ Owned' /\ tree' \in [Trees -> Nodes \cup {Nil}]
        /\ val' \in [Leaves -> Values] /\ OtherTrees({t})
    BY <1>1, <1>2, <1>7, SetsStep
  <2> QED BY <1>2, <2>1, Mutates
<1>8. CASE UNCHANGED <<tops, kids, val, tree>>
  <2>1. Structure' /\ Anchored' /\ Owned' /\ tree' \in [Trees -> Nodes \cup {Nil}]
    BY <1>1, <1>2, <1>8 DEF TreeInv, Structure, Anchored, Owned, Types
  <2>2. ASSUME NEW u \in Trees PROVE Frame(u)
    <3>1. tree[u] # Nil => Siblings(u) \in tops
      BY <1>1, TreesViewHolds DEF TreesView, TreeInv
    <3> QED BY <1>8, <3>1 DEF Frame
  <2> QED BY <1>1, <1>2, <1>8, <2>1, <2>2, Mutates DEF Types, OtherTrees
<1> QED
  BY <1>3, <1>4, <1>5, <1>6, <1>7, <1>8

LEMMA UnlinkPathStep ==
  ASSUME IInv, NEW t \in Trees, NEW n \in Nodes, NEW d \in Trees, UnlinkPath(t, n, d)
  PROVE  Step
<1>1. TreeInv /\ Types /\ HandleInv
  BY DEF IInv, TreeInv
<1>2. /\ Structure' /\ Anchored' /\ Owned' /\ tree' \in [Trees -> Nodes \cup {Nil}]
      /\ OtherTrees({t, d}) /\ d # t
  BY <1>1, UnlinkStep
<1>3. /\ owner[d] = "none" /\ owner' = [owner EXCEPT ![d] = "open"]
      /\ gen' = [gen EXCEPT ![t] = gen[t] + 1] /\ UNCHANGED <<val, list>>
  BY DEF UnlinkPath, incrementGen
<1>4. gen' \in [Trees -> Nat] /\ gen'[t] = gen[t] + 1 /\ \A u \in Trees \ {t} : gen'[u] = gen[u]
  BY <1>1, <1>3 DEF Types
<1>5. gen[t] < gen'[t] /\ \A u \in Trees : gen[u] <= gen'[u]
  BY <1>1, <1>4 DEF Types
<1>6. owner' \in [Trees -> {"none", "open", "released"}] /\ \A u \in Trees : owner[u] # "none" => owner'[u] # "none"
  BY <1>1, <1>3 DEF Types
<1>7. TreeInv'
  BY <1>1, <1>2, <1>3, <1>4, <1>6 DEF TreeInv, Types
<1>8. \A l \in Handles : list'[l] # Nil => list'[l].of # d
  BY <1>1, <1>3 DEF HandleInv
<1> QED
  BY <1>1, <1>2, <1>3, <1>5, <1>6, <1>7, <1>8 DEF Step, OtherTrees, HandleInv

LEMMA ClosesStep ==
  ASSUME IInv, NEW t \in Trees, Close(t)
  PROVE  Step
<1>1. TreeInv /\ Types /\ HandleInv
  BY DEF IInv, TreeInv
<1>2. /\ Structure' /\ Anchored' /\ Owned' /\ tree' \in [Trees -> Nodes \cup {Nil}]
      /\ OtherTrees({t})
  BY <1>1, CloseStep
<1>3. /\ owner' = [owner EXCEPT ![t] = "released"]
      /\ gen' = [gen EXCEPT ![t] = gen[t] + 1] /\ UNCHANGED <<val, list>>
  BY DEF Close, incrementGen
<1>4. gen' \in [Trees -> Nat] /\ gen'[t] = gen[t] + 1 /\ \A u \in Trees \ {t} : gen'[u] = gen[u]
  BY <1>1, <1>3 DEF Types
<1>5. gen[t] < gen'[t] /\ \A u \in Trees : gen[u] <= gen'[u]
  BY <1>1, <1>4 DEF Types
<1>6. owner' \in [Trees -> {"none", "open", "released"}] /\ \A u \in Trees : owner[u] # "none" => owner'[u] # "none"
  BY <1>1, <1>3 DEF Types
<1>7. TreeInv'
  BY <1>1, <1>2, <1>3, <1>4, <1>6 DEF TreeInv, Types
<1> QED
  BY <1>1, <1>2, <1>3, <1>5, <1>6, <1>7 DEF Step, OtherTrees, HandleInv

LEMMA ParsesStep ==
  ASSUME IInv, NEW t \in Trees, NEW d \in Documents, NewTree(t, d)
  PROVE  Step
<1>1. TreeInv /\ Types /\ HandleInv
  BY DEF IInv, TreeInv
<1>2. /\ Structure' /\ Anchored' /\ Owned' /\ tree' \in [Trees -> Nodes \cup {Nil}]
      /\ OtherTrees({t})
  BY <1>1, NewTreeStep
<1>3. owner[t] = "none" /\ owner' = [owner EXCEPT ![t] = "open"] /\ UNCHANGED <<val, gen, list>>
  BY DEF NewTree
<1>4. owner' \in [Trees -> {"none", "open", "released"}] /\ \A u \in Trees : owner[u] # "none" => owner'[u] # "none"
  BY <1>1, <1>3 DEF Types
<1>5. TreeInv'
  BY <1>1, <1>2, <1>3, <1>4 DEF TreeInv, Types
<1>6. \A l \in Handles : list'[l] # Nil => list'[l].of # t
  BY <1>1, <1>3 DEF HandleInv
<1>7. \A u \in Trees : gen[u] <= gen'[u]
  BY <1>1, <1>3 DEF Types
<1> QED
  BY <1>1, <1>2, <1>3, <1>4, <1>5, <1>6, <1>7 DEF Step, OtherTrees, HandleInv

(* Get, Children, UserOrderedListAt...: no node or tree changes.           *)
LEMMA BorrowStep ==
  ASSUME IInv, NEW l \in Handles, NEW t \in Trees,
         Borrow(l, t) \/ \E n \in Within(t) : UserOrderedListAt(l, t, n)
  PROVE  Step
<1>1. TreeInv /\ Types /\ Structure /\ Anchored /\ Owned /\ HandleInv
  BY DEF IInv, TreeInv
<1>2. UNCHANGED <<tops, kids, val, owner, tree, gen>>
  BY DEF Borrow, UserOrderedListAt, nodes, trees
<1>3. TreeInv'
  BY <1>1, <1>2 DEF TreeInv, Types, Structure, Anchored, Owned
<1>4. ASSUME NEW u \in Trees PROVE Frame(u) /\ Within(u)' = Within(u)
  <2>1. tree[u] # Nil => Siblings(u) \in tops
    BY <1>1, TreesViewHolds DEF TreesView
  <2>2. Frame(u)
    BY <1>2, <2>1 DEF Frame
  <2> QED BY <1>1, <1>3, <2>2, FrameContent
<1>5. ASSUME NEW h \in Handle, list' = [list EXCEPT ![l] = h], Current(h, t)
      PROVE  Step
  <2>1. list' \in [Handles -> Handle \cup {Nil}] /\ list'[l] = h /\ \A k \in Handles \ {l} : list'[k] = list[k]
    BY <1>1, <1>5 DEF HandleInv
  <2>2. \A u \in Trees : gen[u] <= gen'[u] /\ (owner[u] # "none" => owner'[u] # "none")
    BY <1>1, <1>2 DEF Types
  <2> QED BY <1>3, <1>4, <1>5, <2>1, <2>2 DEF Step
<1>6. CASE Borrow(l, t)
  <2> DEFINE h == [of |-> t, parent |-> Nil, name |-> "any", gen |-> gen[t]]
  <2>1. list' = [list EXCEPT ![l] = h] /\ owner[t] = "open"
    BY <1>6 DEF Borrow
  <2>2. h \in Handle
    BY <1>1 DEF Handle, Types
  <2>3. Current(h, t)
    BY <1>2, <2>1 DEF Current
  <2> QED BY <1>5, <2>1, <2>2, <2>3
<1>7. CASE \E n \in Within(t) : UserOrderedListAt(l, t, n)
  <2>1. PICK n \in Within(t) : UserOrderedListAt(l, t, n)
    BY <1>7
  <2> DEFINE h == [of |-> t, parent |-> Parent(n), name |-> Kind(n), gen |-> gen[t]]
  <2>2. list' = [list EXCEPT ![l] = h]
    BY <2>1 DEF UserOrderedListAt
  <2>3. /\ n \in Nodes /\ Linked(tops, kids, n) /\ tree[t] # Nil
        /\ Siblings(t) \in tops /\ Within(t) = InChainOf(kids, Siblings(t))
    BY <1>1, <2>1, TreesViewHolds DEF TreesView
  <2>4. owner[t] = "open"
    BY <1>1, <2>3 DEF Anchored
  <2>5. Parent(n) # Nil => Parent(n) \in Nodes /\ Parent(n) \in Within(t)
    <3>1. CASE \E c \in tops : n \in ToSet(c)
      BY <3>1 DEF Parent
    <3>2. CASE ~\E c \in tops : n \in ToSet(c)
      <4>1. \E m \in Nodes : n \in ToSet(kids[m])
        BY <2>3, <3>2 DEF Linked
      <4>2. Parent(n) \in Nodes /\ n \in ToSet(kids[Parent(n)])
        BY <3>2, <4>1 DEF Parent
      <4> QED BY <1>1, <2>1, <2>3, <4>2, ClosedTree DEF Structure
    <3> QED BY <3>1, <3>2
  <2>6. Kind(n) \in {"any", "entry", "item"}
    BY <2>1, <2>3, Kinds DEF UserOrderedListAt
  <2>7. h \in Handle
    BY <1>1, <2>5, <2>6 DEF Handle, Types
  <2>8. Current(h, t)
    BY <1>2, <1>4, <2>4, <2>5 DEF Current
  <2> QED BY <1>5, <2>2, <2>7, <2>8
<1> QED
  BY <1>6, <1>7

(* The parent of a list that is accepted.                                  *)
LEMMA ParentOfList ==
  ASSUME IInv, NEW l \in Handles, FreshList(l)
  PROVE  /\ list[l] \in Handle /\ list[l].of \in Trees
         /\ list[l].parent \in Nodes \cup {Nil}
         /\ list[l].parent # Nil => list[l].parent \in Within(list[l].of)
<1>1. list[l] # Nil
  BY DEF FreshList, Fresh
<1>2. list[l] \in Handle
  BY <1>1 DEF IInv, HandleInv
<1>3. list[l].parent # Nil => list[l].parent \in Within(list[l].of)
  BY DEF IInv, FreshListIsLinked
<1> QED
  BY <1>2, <1>3 DEF Handle

(* Insert*, refused: no handle on the entry tree remains.                  *)
LEMMA RefusedStep ==
  ASSUME IInv, ~KeepConsumed, NEW l \in Handles, NEW e \in Trees, Rejects(l, e)
  PROVE  Step
<1>1. TreeInv /\ Types /\ HandleInv
  BY DEF IInv, TreeInv
<1>2. /\ Structure' /\ Anchored' /\ Owned' /\ tree' \in [Trees -> Nodes \cup {Nil}]
      /\ OtherTrees({e})
  BY <1>1, RejectsStep
<1>3. /\ owner' = [owner EXCEPT ![e] = "released"] /\ UNCHANGED <<val, gen>>
      /\ list' = [k \in Handles |-> Kept(e, list[k])]
  BY DEF Rejects, intoRaw
<1>4. owner' \in [Trees -> {"none", "open", "released"}] /\ \A u \in Trees : owner[u] # "none" => owner'[u] # "none"
  BY <1>1, <1>3 DEF Types
<1>5. TreeInv'
  BY <1>1, <1>2, <1>3, <1>4 DEF TreeInv, Types
<1>6. \A k \in Handles : \/ list'[k] = Nil
                         \/ list'[k] = list[k] /\ list[k].of # e
  BY <1>3 DEF Kept
<1>7. list' \in [Handles -> Handle \cup {Nil}]
  BY <1>1, <1>3, <1>6 DEF HandleInv
<1>8. \A u \in Trees : gen[u] <= gen'[u]
  BY <1>1, <1>3 DEF Types
<1> QED
  BY <1>2, <1>4, <1>5, <1>6, <1>7, <1>8 DEF Step, OtherTrees

(* Insert*, accepted: the list moves on with its tree.                     *)
LEMMA AcceptedStep ==
  ASSUME IInv, ~KeepConsumed, NEW l \in Handles, FreshList(l), NEW e \in Trees,
         NEW q \in Seq(Nodes), Accepts(l, e, q), list[l].of # e, list[l].parent # Nil,
         tree[e] # Nil, ParentKind(Kind(tree[e])) = Kind(list[l].parent),
         IsInjective(q), ToSet(q) = ToSet(kids[list[l].parent]) \cup {tree[e]}
  PROVE  Step
<1>1. TreeInv /\ Types /\ HandleInv
  BY DEF IInv, TreeInv
<1>2. list[l] \in Handle /\ list[l].of \in Trees /\ list[l].parent \in Within(list[l].of)
  BY ParentOfList
<1>3. PICK t \in Trees : t = list[l].of
  BY <1>2
<1>4. PICK p \in Within(t) : p = list[l].parent
  BY <1>2, <1>3
<1>5. TreeInv' /\ OtherTrees({e, t}) /\ p \in Within(t)'
  BY <1>1, <1>3, <1>4, AcceptsStep
<1>6. /\ owner' = [owner EXCEPT ![e] = "released"]
      /\ gen' = [gen EXCEPT ![t] = gen[t] + 1]
      /\ list' = [k \in Handles |-> IF k = l THEN [list[l] EXCEPT !.gen = gen'[t]] ELSE Kept(e, list[k])]
  BY <1>3 DEF Accepts, intoRaw, incrementGen, Refreshed
<1>7. gen' \in [Trees -> Nat] /\ gen'[t] = gen[t] + 1 /\ \A u \in Trees \ {t} : gen'[u] = gen[u]
  BY <1>1, <1>6 DEF Types
<1>8. gen[t] < gen'[t] /\ \A u \in Trees : gen[u] <= gen'[u]
  BY <1>1, <1>7 DEF Types
<1>9. \A u \in Trees : owner[u] # "none" => owner'[u] # "none"
  BY <1>1, <1>6 DEF Types
<1>10. \A k \in Handles \ {l} : \/ list'[k] = Nil
                                \/ list'[k] = list[k] /\ list[k].of # e
  BY <1>6 DEF Kept
<1>11. /\ list'[l] \in Handle /\ list'[l].of = t /\ list'[l].parent = p
       /\ list'[l].gen = gen'[t]
  BY <1>2, <1>3, <1>4, <1>6, <1>7 DEF Handle
<1>12. Current(list'[l], t)
  <2>1. owner'[t] # "none"
    BY <1>1, <1>3, <1>9 DEF HandleInv, FreshList, Fresh
  <2> QED BY <1>5, <1>11, <2>1 DEF Current
<1>13. list' \in [Handles -> Handle \cup {Nil}]
  <2>1. \A k \in Handles : list'[k] \in Handle \cup {Nil}
    BY <1>1, <1>10, <1>11 DEF HandleInv
  <2> QED BY <1>6, <2>1
<1>14. \A u \in Trees : \/ Frame(u)
                        \/ gen[u] < gen'[u]
                        \/ \A k \in Handles : list'[k] # Nil => list'[k].of # u
  <2>1. \A k \in Handles : list'[k] # Nil => list'[k].of # e
    BY <1>3, <1>10, <1>11
  <2> QED BY <1>5, <1>8, <2>1 DEF OtherTrees
<1> QED
  BY <1>5, <1>8, <1>9, <1>10, <1>12, <1>13, <1>14 DEF Step

(* InsertLast, and InsertFirst into an empty list.                         *)
LEMMA AsChildStep ==
  ASSUME IInv, ~KeepConsumed, NEW l \in Handles, FreshList(l), NEW e \in Trees, AsChild(l, e)
  PROVE  Step
<1> DEFINE p == list[l].parent
           n == tree[e]
<1>1. CASE Rejects(l, e)
  BY <1>1, RefusedStep
<1>2. CASE /\ p # Nil /\ n # Nil /\ e # list[l].of /\ ParentKind(Kind(n)) = Kind(p)
           /\ Accepts(l, e, InSchemaOrder(kids[p], n))
  <2>1. Types /\ Structure /\ Anchored
    BY DEF IInv, TreeInv
  <2>2. p \in Nodes /\ n \in Nodes
    BY <1>2, <2>1, ParentOfList DEF Types
  <2>3. n \notin ToSet(kids[p]) /\ kids[p] \in Seq(Nodes) /\ IsInjective(kids[p])
    <3>1. Siblings(e) \in tops /\ n \in ToSet(Siblings(e))
      BY <1>2, <2>1, TreesViewHolds DEF TreesView
    <3> QED BY <2>1, <2>2, <3>1 DEF Structure, Shaped
  <2> DEFINE q == InSchemaOrder(kids[p], n)
  <2>4. q \in Seq(Nodes) /\ IsInjective(q) /\ ToSet(q) = ToSet(kids[p]) \cup {n}
    BY <2>2, <2>3, Placed
  <2>5. Accepts(l, e, q) /\ list[l].of # e
    BY <1>2
  <2> HIDE DEF q
  <2> QED BY <1>2, <2>4, <2>5, AcceptedStep
<1> QED
  BY <1>1, <1>2 DEF AsChild

(* InsertFirst, InsertBefore and InsertAfter an entry x of the list: a     *)
(* tree is not inserted into itself, an entry has no entry below it.       *)
LEMMA BesideStep ==
  ASSUME IInv, ~KeepConsumed, NEW l \in Handles, FreshList(l), NEW e \in Trees, NEW i,
         nth(l, i) # Nil,
         Beside(l, e, nth(l, i), PutBefore) \/ Beside(l, e, nth(l, i), PutAfter)
  PROVE  Step
<1> DEFINE p == list[l].parent
           n == tree[e]
           x == nth(l, i)
<1>1. CASE Rejects(l, e)
  BY <1>1, RefusedStep
<1>2. ASSUME NEW q, n # Nil, Kind(n) = Kind(x), n # x, Accepts(l, e, q),
             q = PutBefore(kids[p], x, n) \/ q = PutAfter(kids[p], x, n)
      PROVE  Step
  <2>1. TreeInv /\ Types /\ Structure /\ Anchored
    BY DEF IInv, TreeInv
  <2>2. p \in Nodes \cup {Nil} /\ list[l].of \in Trees /\ (p # Nil => p \in Within(list[l].of))
    BY ParentOfList
  <2>3. p \in Nodes /\ x \in ToSet(kids[p])
    BY <2>1, <2>2, nthMember
  <2> HIDE DEF x
  <2>4. n \in Nodes /\ Siblings(e) \in tops /\ n \in ToSet(Siblings(e))
        /\ Within(e) = InChainOf(kids, Siblings(e))
    BY <1>2, <2>1, TreesViewHolds DEF TreesView, Types
  <2>5. kids[p] \in Seq(Nodes) /\ IsInjective(kids[p]) /\ ParentKind(Kind(x)) = Kind(p) /\ x \in Nodes
    BY <2>1, <2>3, Levels DEF Structure, Shaped
  <2>6. q \in Seq(Nodes) /\ IsInjective(q) /\ ToSet(q) = ToSet(kids[p]) \cup {n}
    <3>1. x \in ToSet(kids[p]) \ {n}
      BY <1>2, <2>3
    <3> QED BY <1>2, <2>4, <2>5, <3>1, Placed
  <2>7. list[l].of # e
    <3> SUFFICES ASSUME list[l].of = e PROVE FALSE
      OBVIOUS
    <3>1. p \in InChainOf(kids, Siblings(e))
      BY <2>2, <2>3, <2>4, NilAssumption
    <3>2. x \in InChainOf(kids, Siblings(e))
      BY <2>1, <2>3, <2>4, <3>1, ClosedTree DEF Structure
    <3>3. n \notin Boxes
      <4>1. x \notin Boxes
        BY <2>1, <2>3, Levels DEF Structure
      <4> QED BY <1>2, <2>4, <2>5, <4>1, Kinds
    <3>4. \A y \in ToSet(Siblings(e)) : y = n
      <4>1. Len(Siblings(e)) = 1 /\ Siblings(e) \in Seq(Nodes)
        BY <2>1, <2>4, <3>3 DEF Structure, Shaped, ChainOK
      <4> QED BY <2>4, <4>1, Members_ToSet
    <3>5. x # n /\ x \notin ToSet(Siblings(e))
      BY <1>2, <3>4
    <3>6. \/ x \in ToSet(kids[n])
          \/ \E m \in ToSet(kids[n]) : x \in ToSet(kids[m])
      BY <2>1, <2>4, <3>2, <3>4, <3>5, InChainOfMembers DEF Structure
    <3>7. ASSUME NEW m \in ToSet(kids[n]) PROVE m \in Nodes /\ ParentKind(Kind(m)) = Kind(n) /\ Kind(n) # Kind(m)
      <4>1. m \in Nodes /\ ParentKind(Kind(m)) = Kind(n)
        BY <2>1, <2>4, Levels DEF Structure, Shaped
      <4> QED BY <4>1, Kinds DEF ParentKind
    <3>8. ASSUME NEW m \in ToSet(kids[n]), x \in ToSet(kids[m]) PROVE FALSE
      <4>1. ParentKind(Kind(x)) = Kind(m)
        BY <2>1, <3>7, <3>8 DEF Structure, Shaped
      <4> QED BY <1>2, <2>4, <3>7, <4>1, Kinds DEF ParentKind
    <3> QED BY <1>2, <3>6, <3>7, <3>8
  <2>8. ParentKind(Kind(n)) = Kind(p) /\ p # Nil
    BY <1>2, <2>3, <2>5, NilAssumption
  <2> QED BY <1>2, <2>6, <2>7, <2>8, AcceptedStep
<1> QED
  BY <1>1, <1>2 DEF Beside

(* MoveBefore and MoveAfter.                                               *)
LEMMA MovesStep ==
  ASSUME IInv, NEW l \in Handles, NEW w, NEW k, MoveBefore(l, w, k) \/ MoveAfter(l, w, k)
  PROVE  Step
<1> DEFINE n == nth(l, w)
           x == nth(l, k)
<1>1. TreeInv /\ Types /\ Structure /\ Anchored /\ HandleInv
  BY DEF IInv, TreeInv
<1>2. /\ FreshList(l) /\ n # Nil /\ x # Nil /\ n # x
      /\ \/ kids' = [kids EXCEPT ![list[l].parent] = PutBefore(kids[list[l].parent], x, n)]
         \/ kids' = [kids EXCEPT ![list[l].parent] = PutAfter(kids[list[l].parent], x, n)]
      /\ gen' = [gen EXCEPT ![list[l].of] = @ + 1]
      /\ list' = [list EXCEPT ![l] = [list[l] EXCEPT !.gen = gen'[list[l].of]]]
      /\ UNCHANGED <<tops, val, owner, tree>>
  BY DEF MoveBefore, MoveAfter, Move, incrementGen, Refreshed
<1>3. /\ list[l] \in Handle /\ list[l].of \in Trees /\ list[l].parent \in Nodes \cup {Nil}
      /\ list[l].parent # Nil => list[l].parent \in Within(list[l].of)
  BY <1>2, ParentOfList
<1>4. /\ list[l].parent \in Nodes
      /\ n \in ToSet(kids[list[l].parent]) /\ x \in ToSet(kids[list[l].parent])
  BY <1>1, <1>2, <1>3, nthMember
<1> HIDE DEF n, x
<1>5. PICK t \in Trees : t = list[l].of
  BY <1>3
<1>6. PICK p \in Within(t) : p = list[l].parent
  BY <1>3, <1>4, <1>5, NilAssumption
<1>7. kids[p] \in Seq(Nodes) /\ IsInjective(kids[p]) /\ n \in Nodes
  BY <1>1, <1>4, <1>6, Levels DEF Structure, Shaped
<1>8. PICK q : q \in {PutBefore(kids[p], x, n), PutAfter(kids[p], x, n)} /\ kids' = [kids EXCEPT ![p] = q]
  BY <1>2, <1>6
<1>9. q \in Seq(Nodes) /\ IsInjective(q) /\ ToSet(q) = ToSet(kids[p])
  <2>1. x \in ToSet(kids[p]) \ {n} /\ ToSet(kids[p]) \cup {n} = ToSet(kids[p])
    BY <1>2, <1>4, <1>6
  <2>2. /\ PutBefore(kids[p], x, n) \in Seq(Nodes) /\ IsInjective(PutBefore(kids[p], x, n))
        /\ PutAfter(kids[p], x, n) \in Seq(Nodes) /\ IsInjective(PutAfter(kids[p], x, n))
        /\ ToSet(PutBefore(kids[p], x, n)) = ToSet(kids[p])
        /\ ToSet(PutAfter(kids[p], x, n)) = ToSet(kids[p])
    <3> DEFINE s == kids[p]
    <3>1. s \in Seq(Nodes) /\ IsInjective(s) /\ x \in ToSet(s) \ {n} /\ ToSet(s) \cup {n} = ToSet(s)
      BY <1>7, <2>1
    <3> HIDE DEF s
    <3>2. /\ PutBefore(s, x, n) \in Seq(Nodes) /\ IsInjective(PutBefore(s, x, n))
          /\ PutAfter(s, x, n) \in Seq(Nodes) /\ IsInjective(PutAfter(s, x, n))
          /\ ToSet(PutBefore(s, x, n)) = ToSet(s) \cup {n}
          /\ ToSet(PutAfter(s, x, n)) = ToSet(s) \cup {n}
      BY <1>7, <3>1, Placed
    <3> QED BY <3>1, <3>2 DEF s
  <2> QED BY <1>8, <2>2
<1>10. gen' = [gen EXCEPT ![t] = @ + 1]
  BY <1>2, <1>5
<1>11. TreeInv' /\ OtherTrees({t}) /\ p \in Within(t)'
  BY <1>1, <1>2, <1>8, <1>9, <1>10, MoveStep
<1>12. gen' \in [Trees -> Nat] /\ gen'[t] = gen[t] + 1 /\ \A u \in Trees \ {t} : gen'[u] = gen[u]
  BY <1>1, <1>10 DEF Types
<1>13. gen[t] < gen'[t] /\ \A u \in Trees : gen[u] <= gen'[u]
  BY <1>1, <1>12 DEF Types
<1>14. /\ list'[l] \in Handle /\ list'[l].of = t /\ list'[l].parent = p
       /\ list'[l].gen = gen'[t] /\ \A j \in Handles \ {l} : list'[j] = list[j]
       /\ list' \in [Handles -> Handle \cup {Nil}]
  <2>1. [list[l] EXCEPT !.gen = gen'[t]] \in Handle
    BY <1>3, <1>12 DEF Handle
  <2> QED BY <1>1, <1>2, <1>3, <1>5, <1>6, <2>1 DEF HandleInv, Handle
<1>15. Current(list'[l], t)
  <2>1. owner'[t] # "none"
    BY <1>1, <1>2, <1>5 DEF HandleInv, FreshList, Fresh
  <2> QED BY <1>11, <1>14, <2>1 DEF Current
<1> QED
  BY <1>2, <1>11, <1>13, <1>14, <1>15 DEF Step, OtherTrees

(* Every call is such a step, when DiffApply does not fail half way and no *)
(* handle on a tree that was given away is kept.                           *)
LEMMA CallStep ==
  ASSUME IInv, ~PartialFailure, ~KeepConsumed, Call
  PROVE  Step
<1>1. \A t \in Trees : Within(t) \subseteq Nodes
  BY TreesViewHolds DEF TreesView, IInv, TreeInv
<1>2. CASE \E t \in Trees : TreeOp(t)
  <2>1. PICK t \in Trees : TreeOp(t)
    BY <1>2
  <2>2. \/ Close(t)
        \/ \E n \in Nodes, d \in Trees : UnlinkPath(t, n, d)
        \/ \E n \in Nodes :
             \/ NewPath(t, n) \/ AddDefaults(t, n) \/ DiffApply(t, n) \/ Validate(t, n)
             \/ RemovePath(t, n) \/ \E s \in Trees : Merge(t, s, n)
             \/ \E v \in {"a", "b"} : SetValue(t, n, v)
    BY <1>1, <2>1 DEF TreeOp
  <2> QED BY <2>2, ClosesStep, UnlinkPathStep, EditStep
<1>3. CASE \E t \in Trees, d \in Documents : NewTree(t, d)
  BY <1>3, ParsesStep
<1>4. CASE \E l \in Handles, t \in Trees :
             Borrow(l, t) \/ \E n \in Within(t) : UserOrderedListAt(l, t, n)
  BY <1>4, BorrowStep
<1>5. CASE \E l \in Handles : ListOp(l)
  <2>1. PICK l \in Handles : ListOp(l)
    BY <1>5
  <2>2. \/ \E w, k \in Index : MoveBefore(l, w, k) \/ MoveAfter(l, w, k)
        \/ FreshList(l) /\ \E e \in Trees : AsChild(l, e)
        \/ FreshList(l) /\ \E e \in Trees, i \in Index \cup {0} :
              /\ nth(l, i) # Nil
              /\ Beside(l, e, nth(l, i), PutBefore) \/ Beside(l, e, nth(l, i), PutAfter)
    BY <2>1 DEF ListOp, InsertFirst, InsertLast, InsertBefore, InsertAfter
  <2> QED BY <2>2, MovesStep, AsChildStep, BesideStep
<1> QED
  BY <1>2, <1>3, <1>4, <1>5 DEF Call

(* What such a step means for the handles.                                 *)
LEMMA StepKeepsHandles ==
  ASSUME IInv, Step
  PROVE  HandleInv' /\ FreshListIsLinked'
<1>1. TreeInv /\ TreeInv' /\ HandleInv /\ FreshListIsLinked
  BY DEF IInv, Step
<1>2. gen \in [Trees -> Nat] /\ gen' \in [Trees -> Nat]
  BY <1>1 DEF TreeInv, Types
<1>3. ASSUME NEW l \in Handles, list'[l] # Nil, NEW t \in Trees, list'[l].of = t
      PROVE  owner'[t] # "none" /\ list'[l].gen <= gen'[t]
  <2>1. CASE list'[l] = list[l]
    <3>1. owner[t] # "none" /\ list[l].gen <= gen[t] /\ list[l].gen \in Nat /\ gen[t] <= gen'[t]
      BY <1>1, <1>3, <2>1 DEF HandleInv, Handle, Step
    <3> QED BY <1>2, <1>3, <2>1, <3>1 DEF Step
  <2>2. CASE Current(list'[l], t)
    BY <1>2, <2>2 DEF Current
  <2>3. \/ list'[l] = list[l] \/ \E u \in Trees : Current(list'[l], u)
    BY <1>3 DEF Step
  <2> QED BY <1>3, <2>1, <2>2, <2>3 DEF Current
<1>4. HandleInv'
  <2>1. list' \in [Handles -> Handle \cup {Nil}]
    BY DEF Step
  <2>2. \A l \in Handles : list'[l] # Nil => list'[l].of \in Trees
    BY <2>1 DEF Handle
  <2> QED BY <1>3, <2>1, <2>2 DEF HandleInv
<1>5. ASSUME NEW l \in Handles, FreshList(l)', list'[l].parent # Nil
      PROVE  (list[l].parent \in Within(list[l].of))'
  <2>1. list'[l] # Nil /\ list'[l].name # "any" /\ gen'[list'[l].of] = list'[l].gen
    BY <1>5 DEF FreshList, Fresh
  <2>2. list'[l] \in Handle
    BY <2>1 DEF Step
  <2>3. CASE list'[l] = list[l]
    <3>1. PICK t \in Trees : t = list[l].of
      BY <2>2, <2>3 DEF Handle
    <3>2. list[l].gen <= gen[t] /\ gen[t] <= gen'[t] /\ gen'[t] = list[l].gen
      BY <1>1, <2>1, <2>3, <3>1 DEF HandleInv, Step
    <3>3. gen[t] = list[l].gen /\ gen'[t] = gen[t]
      BY <1>2, <2>2, <2>3, <3>2 DEF Handle
    <3>4. FreshList(l)
      BY <2>1, <2>3, <3>1, <3>3 DEF FreshList, Fresh
    <3>5. Frame(t)
      <4>1. ~(gen[t] < gen'[t])
        BY <1>2, <3>3
      <4>2. ~\A k \in Handles : list'[k] # Nil => list'[k].of # t
        BY <2>1, <2>3, <3>1
      <4> QED BY <4>1, <4>2 DEF Step
    <3>6. Within(t)' = Within(t)
      BY <1>1, <3>5, FrameContent
    <3>7. list[l].parent \in Within(t)
      BY <1>1, <1>5, <2>3, <3>1, <3>4 DEF FreshListIsLinked
    <3>8. list'[l].of = t
      BY <2>3, <3>1
    <3> QED BY <2>3, <3>6, <3>7, <3>8
  <2>4. CASE \E t \in Trees : Current(list'[l], t)
    BY <1>5, <2>1, <2>4 DEF Current
  <2> QED BY <2>1, <2>3, <2>4 DEF Step
<1>6. FreshListIsLinked'
  BY <1>5 DEF FreshListIsLinked
<1> QED
  BY <1>4, <1>6

LEMMA StepKeepsContent ==
  ASSUME IInv, Step, Watch, FreshMeansUnchanged
  PROVE  FreshMeansUnchanged'
<1>1. TreeInv /\ TreeInv' /\ HandleInv
  BY DEF IInv, Step
<1>2. gen \in [Trees -> Nat] /\ gen' \in [Trees -> Nat]
  BY <1>1 DEF TreeInv, Types
<1>3. ASSUME NEW l \in Handles, Fresh(list[l])', l \in moved' PROVE FALSE
  <2>1. list'[l] # Nil /\ gen'[list'[l].of] = list'[l].gen
    BY <1>3 DEF Fresh
  <2>2. /\ list'[l] = list[l] /\ list[l] # Nil
        /\ \/ l \in moved
           \/ \E t \in Trees : t = list[l].of /\ Content(t) # Content(t)'
    BY <1>3 DEF Watch
  <2>3. list[l] \in Handle
    BY <1>1, <2>2 DEF HandleInv
  <2>4. PICK t \in Trees : t = list[l].of
    BY <2>3 DEF Handle
  <2>5. list[l].gen <= gen[t] /\ gen[t] <= gen'[t] /\ gen'[t] = list[l].gen
    BY <1>1, <2>1, <2>2, <2>4 DEF HandleInv, Step
  <2>6. gen[t] = list[l].gen /\ gen'[t] = gen[t]
    BY <1>2, <2>3, <2>5 DEF Handle
  <2>7. l \notin moved
    BY <2>2, <2>4, <2>6 DEF FreshMeansUnchanged, Fresh
  <2>8. Frame(t)
    <3>1. ~(gen[t] < gen'[t])
      BY <1>2, <2>6
    <3>2. ~\A k \in Handles : list'[k] # Nil => list'[k].of # t
      BY <2>1, <2>2, <2>4
    <3> QED BY <3>1, <3>2 DEF Step
  <2>9. Content(t)' = Content(t)
    BY <1>1, <2>8, FrameContent
  <2> QED BY <2>2, <2>4, <2>7, <2>9
<1> QED
  BY <1>3 DEF FreshMeansUnchanged

----------------------------------------------------------------------------
(* The invariant, from the empty context on.                               *)
LEMMA InitInv == Init => IInv /\ FreshMeansUnchanged
<1> SUFFICES ASSUME Init PROVE IInv /\ FreshMeansUnchanged
  OBVIOUS
<1>1. Types
  BY DEF Init, Types, Values
<1>2. Structure
  <2>1. <<>> \in Seq(Nodes) /\ IsInjective(<<>>) /\ ToSet(<<>>) = {}
    BY DEF IsInjective, ToSet
  <2> QED BY <2>1 DEF Init, Structure, Shaped
<1>3. Anchored /\ Owned
  BY DEF Init, Anchored, Owned
<1>4. \A l \in Handles : list[l] = Nil
  BY DEF Init
<1>5. HandleInv
  BY <1>4 DEF Init, HandleInv
<1>6. FreshListIsLinked /\ FreshMeansUnchanged
  BY <1>4 DEF FreshListIsLinked, FreshMeansUnchanged, FreshList, Fresh
<1> QED
  BY <1>1, <1>2, <1>3, <1>5, <1>6 DEF IInv, TreeInv

LEMMA NextInv ==
  ASSUME IInv, FreshMeansUnchanged, ~PartialFailure, ~KeepConsumed, [Next]_vars
  PROVE  IInv' /\ FreshMeansUnchanged'
<1>1. CASE Next
  <2>1. Step
    BY <1>1, CallStep DEF Next
  <2>2. Watch
    BY <1>1 DEF Next
  <2> QED BY <2>1, <2>2, StepKeepsHandles, StepKeepsContent DEF IInv, Step
<1>2. CASE UNCHANGED vars
  <2>1. UNCHANGED <<tops, kids, val, owner, tree, gen, list, moved>>
    BY <1>2 DEF vars, nodes, trees
  <2>2. TreeInv' /\ HandleInv'
    BY <2>1 DEF IInv, TreeInv, Types, Structure, Anchored, Owned, HandleInv
  <2>3. \A t \in Trees : Within(t)' = Within(t)
    BY <2>1 DEF Within, InChain, Subtree, Siblings
  <2>4. FreshListIsLinked'
    <3>1. \A l \in Handles : FreshList(l)' = FreshList(l)
      BY <2>1 DEF FreshList, Fresh
    <3>2. \A l \in Handles : FreshList(l) => list[l].of \in Trees
      BY ParentOfList
    <3> QED BY <2>1, <2>3, <3>1, <3>2 DEF FreshListIsLinked, IInv
  <2>5. FreshMeansUnchanged'
    BY <2>1 DEF FreshMeansUnchanged, Fresh
  <2> QED BY <2>2, <2>4, <2>5 DEF IInv
<1> QED
  BY <1>1, <1>2

----------------------------------------------------------------------------
(* The positional operations of a user-ordered list.                       *)

(* The member that nth finds, among the children of the parent.            *)
LEMMA nthMet ==
  ASSUME Structure, NEW l, NEW i, list[l].parent \in Nodes \cup {Nil}, nth(l, i) # Nil
  PROVE  /\ list[l].parent \in Nodes
         /\ \E k \in 1..Len(kids[list[l].parent]) :
              /\ kids[list[l].parent][k] = nth(l, i) /\ nth(l, i) \in Listed(list[l].name)
              /\ Cardinality(Met(kids[list[l].parent], k - 1, Listed(list[l].name))) = i
<1> DEFINE s == IF list[l].parent = Nil THEN <<>> ELSE kids[list[l].parent]
           entries(k) == {j \in 1..k : Kind(s[j]) = list[l].name}
           at == {k \in DOMAIN s : k \in entries(k) /\ Cardinality(entries(k - 1)) = i}
<1>1. nth(l, i) = IF at = {} THEN Nil ELSE s[CHOOSE k \in at : TRUE]
  BY DEF nth
<1>2. PICK k \in at : nth(l, i) = s[k]
  BY <1>1
<1>3. k \in DOMAIN s /\ Kind(s[k]) = list[l].name /\ Cardinality(entries(k - 1)) = i
  OBVIOUS
<1>4. list[l].parent \in Nodes /\ s = kids[list[l].parent]
  BY <1>3
<1>5. s \in Seq(Nodes) /\ DOMAIN s = 1..Len(s) /\ Len(s) \in Nat /\ \A j \in 1..Len(s) : s[j] \in Nodes
  BY <1>4, LenProperties, ElementOfSeq DEF Structure, Shaped
<1>6. entries(k - 1) = Met(s, k - 1, Listed(list[l].name))
  <2>1. \A j \in 1..k-1 : j \in 1..Len(s)
    BY <1>3, <1>5
  <2> HIDE DEF s
  <2> QED BY <1>5, <2>1 DEF Met, Listed
<1>7. nth(l, i) \in Listed(list[l].name)
  BY <1>2, <1>3, <1>5 DEF Listed
<1> QED
  BY <1>2, <1>3, <1>4, <1>5, <1>6, <1>7

(* A list without a first entry has no entries.                            *)
LEMMA NoneListed ==
  ASSUME Structure, NEW l, list[l].parent \in Nodes, nth(l, 0) = Nil
  PROVE  Members(l) = <<>>
<1> DEFINE s == kids[list[l].parent]
           W == Listed(list[l].name)
           entries(k) == {j \in 1..k : Kind(s[j]) = list[l].name}
           at == {k \in DOMAIN s : k \in entries(k) /\ Cardinality(entries(k - 1)) = 0}
<1>1. list[l].parent # Nil
  BY NilAssumption
<1>2. nth(l, 0) = IF at = {} THEN Nil ELSE s[CHOOSE k \in at : TRUE]
  BY <1>1 DEF nth
<1>3. s \in Seq(Nodes) /\ DOMAIN s = 1..Len(s) /\ Len(s) \in Nat /\ \A j \in 1..Len(s) : s[j] \in Nodes
  BY LenProperties, ElementOfSeq DEF Structure, Shaped
<1>4. at = {}
  <2> SUFFICES ASSUME at # {} PROVE FALSE
    OBVIOUS
  <2>1. PICK k \in at : nth(l, 0) = s[k]
    BY <1>2
  <2>2. s[k] \in Nodes
    BY <1>3
  <2> QED BY <2>1, <2>2, NilAssumption
<1>5. ASSUME NEW k \in 1..Len(s), s[k] \in W PROVE Cardinality(Met(s, k - 1, W)) # 0
  <2>1. entries(k - 1) = Met(s, k - 1, W)
    <3>1. \A j \in 1..k-1 : j \in 1..Len(s)
      BY <1>3
    <3> HIDE DEF s
    <3> QED BY <1>3, <3>1 DEF Met, Listed
  <2>2. k \in DOMAIN s /\ k \in entries(k)
    BY <1>3, <1>5 DEF Listed
  <2> QED BY <1>4, <2>1, <2>2
<1> HIDE DEF s, W
<1>6. Filtered(s, W) = <<>>
  BY <1>3, <1>5, FilteredNone
<1> QED
  BY <1>1, <1>6 DEF Members, Children, s, W

(* In schema order an entry or an item is last.                            *)
LEMMA LastInOrder ==
  ASSUME NEW s \in Seq(Nodes), NEW n \in Nodes, Kind(n) # "leaf"
  PROVE  InSchemaOrder(s, n) = InsertAt(s, Len(s) + 1, n)
<1> DEFINE before == {i \in DOMAIN s : Rank(s[i]) <= Rank(n)}
<1>1. before = 1..Len(s) /\ Len(s) \in Nat
  <2>1. DOMAIN s = 1..Len(s) /\ Len(s) \in Nat
    BY LenProperties
  <2>2. \A i \in DOMAIN s : Rank(s[i]) <= Rank(n)
    BY DEF Rank
  <2> QED BY <2>1, <2>2
<1> HIDE DEF before
<1>2. Cardinality(before) = Len(s)
  <2>1. Cardinality(1..Len(s)) = Len(s)
    BY <1>1, FS_Interval
  <2> QED BY <1>1, <2>1
<1> QED
  BY <1>2 DEF InSchemaOrder, before

(* An entry that was accepted: the children of the parent are q, and the   *)
(* list names the same entries as before.                                  *)
LEMMA AfterAccepts ==
  ASSUME IInv, NEW l \in Handles, FreshList(l), NEW e, NEW q, Accepts(l, e, q),
         list[l].parent # Nil
  PROVE  /\ Members(l) = Filtered(kids[list[l].parent], Listed(list[l].name))
         /\ Others(l) = Filtered(kids[list[l].parent], Nodes \ Listed(list[l].name))
         /\ Members(l)' = Filtered(q, Listed(list[l].name))
         /\ Others(l)' = Filtered(q, Nodes \ Listed(list[l].name))
<1>1. list[l] \in Handle /\ list[l].parent \in Nodes
  BY ParentOfList
<1>2. kids' = [kids EXCEPT ![list[l].parent] = q] /\ kids \in [Nodes -> Seq(Nodes)]
  BY DEF Accepts, IInv, TreeInv, Structure, Shaped
<1>3. kids'[list[l].parent] = q
  BY <1>1, <1>2
<1>4. list'[l] = [list[l] EXCEPT !.gen = gen'[list[l].of]]
  BY DEF Accepts, Refreshed
<1>5. list'[l].parent = list[l].parent /\ list'[l].name = list[l].name
  BY <1>1, <1>4 DEF Handle
<1> QED
  BY <1>3, <1>5 DEF Members, Others, Children, Listed

(* InsertLast: the entry is the last one.                                  *)
LEMMA PositionLast ==
  ASSUME IInv, NEW l \in Handles, NEW e \in Trees, FreshList(l), AsChild(l, e), Done(l),
         Kind(tree[e]) = list[l].name
  PROVE  /\ Members(l)' = Append(Members(l), tree[e]) /\ Others(l)' = Others(l)
         /\ nth(l, 0) = Nil => Members(l) = <<>>
<1> DEFINE p == list[l].parent
           n == tree[e]
           s == kids[p]
           W == Listed(list[l].name)
           V == Nodes \ Listed(list[l].name)
           k == Len(s) + 1
<1>1. Types /\ Structure /\ Anchored
  BY DEF IInv, TreeInv
<1>2. gen'[list[l].of] # gen[list[l].of]
  BY DEF Done
<1>3. /\ p # Nil /\ n # Nil /\ ParentKind(Kind(n)) = Kind(p)
      /\ Accepts(l, e, InSchemaOrder(s, n))
  BY <1>2 DEF AsChild, Rejects
<1>4. list[l] \in Handle /\ p \in Nodes /\ n \in Nodes
  BY <1>1, <1>3, ParentOfList DEF Types
<1>5. Kind(n) # "leaf"
  BY <1>4 DEF Handle
<1>6. s \in Seq(Nodes) /\ k \in 1..Len(s)+1 /\ k - 1 = Len(s)
  BY <1>1, <1>4, LenProperties DEF Structure, Shaped
<1>7. n \in W /\ n \notin V
  BY <1>4 DEF Listed
<1>8. /\ Members(l) = Filtered(s, W) /\ Others(l) = Filtered(s, V)
      /\ Members(l)' = Filtered(InsertAt(s, k, n), W) /\ Others(l)' = Filtered(InsertAt(s, k, n), V)
  <2>1. InSchemaOrder(s, n) = InsertAt(s, k, n)
    BY <1>4, <1>5, <1>6, LastInOrder
  <2> QED BY <1>3, <2>1, AfterAccepts
<1>9. nth(l, 0) = Nil => Members(l) = <<>>
  BY <1>1, <1>4, NoneListed
<1> HIDE DEF p, n, s, W, V, k
<1>10. Filtered(InsertAt(s, k, n), V) = Filtered(s, V)
  BY <1>4, <1>6, <1>7, FilteredInsert
<1>11. /\ Filtered(s, W) \in Seq(Nodes)
       /\ Cardinality(Met(s, k - 1, W)) = Len(Filtered(s, W))
       /\ Filtered(InsertAt(s, k, n), W) = InsertAt(Filtered(s, W), Cardinality(Met(s, k - 1, W)) + 1, n)
  <2>1. k = Len(s) + 1
    BY DEF k
  <2> QED BY <1>4, <1>6, <1>7, <2>1, FilteredInsert
<1>12. Filtered(InsertAt(s, k, n), W) = Append(Filtered(s, W), n)
  <2> DEFINE m == Filtered(s, W)
  <2>1. m \in Seq(Nodes) /\ n \in Nodes
    BY <1>4, <1>11
  <2> HIDE DEF m
  <2>2. InsertAt(m, Len(m) + 1, n) = Append(m, n)
    BY <2>1, InsertEnds
  <2> QED BY <1>11, <2>2 DEF m
<1> QED
  BY <1>8, <1>9, <1>10, <1>12 DEF n

(* InsertFirst, InsertBefore and InsertAfter beside entry i.               *)
LEMMA PositionBeside ==
  ASSUME IInv, NEW l \in Handles, NEW e \in Trees, NEW i, FreshList(l), nth(l, i) # Nil, Done(l)
  PROVE  /\ i \in Nat /\ Members(l) \in Seq(Nodes)
         /\ Beside(l, e, nth(l, i), PutBefore) =>
              Members(l)' = InsertAt(Members(l), i + 1, tree[e]) /\ Others(l)' = Others(l)
         /\ Beside(l, e, nth(l, i), PutAfter) =>
              Members(l)' = InsertAt(Members(l), i + 2, tree[e]) /\ Others(l)' = Others(l)
         /\ Beside(l, e, nth(l, i), PutBefore) \/ Beside(l, e, nth(l, i), PutAfter) => tree[e] \in Nodes
<1> DEFINE p == list[l].parent
           n == tree[e]
           x == nth(l, i)
           s == kids[p]
           W == Listed(list[l].name)
           V == Nodes \ Listed(list[l].name)
<1>1. Types /\ Structure /\ Anchored
  BY DEF IInv, TreeInv
<1>2. gen'[list[l].of] # gen[list[l].of]
  BY DEF Done
<1>3. p \in Nodes \cup {Nil}
  BY ParentOfList
<1>4. p \in Nodes /\ p # Nil /\ \E k \in 1..Len(s) :
        s[k] = x /\ x \in W /\ Cardinality(Met(s, k - 1, W)) = i
  BY <1>1, <1>3, nthMet, NilAssumption
<1>5. PICK k \in 1..Len(s) : s[k] = x /\ x \in W /\ Cardinality(Met(s, k - 1, W)) = i
  BY <1>4
<1>6. s \in Seq(Nodes) /\ IsInjective(s) /\ Len(s) \in Nat
  BY <1>1, <1>4, LenProperties DEF Structure, Shaped
<1>7. i \in Nat
  <2>1. k - 1 \in 0..Len(s)
    BY <1>6
  <2> HIDE DEF s, W, x
  <2> QED BY <1>5, <1>6, <2>1, MetMore
<1>8. Members(l) = Filtered(s, W) /\ Others(l) = Filtered(s, V)
  BY <1>4 DEF Members, Others, Children
<1>9. ASSUME NEW q, n # Nil, Kind(n) = Kind(x), n # x, Accepts(l, e, q)
      PROVE  /\ n \in Nodes \ ToSet(s) /\ n \in W /\ n \notin V
             /\ Members(l)' = Filtered(q, W) /\ Others(l)' = Filtered(q, V)
  <2>1. n \in Nodes /\ Siblings(e) \in tops /\ n \in ToSet(Siblings(e))
    BY <1>1, <1>9, TreesViewHolds DEF TreesView, Types
  <2>2. n \notin ToSet(s)
    BY <1>1, <1>4, <2>1 DEF Structure, Shaped
  <2>3. n \in W
    BY <1>5, <1>9, <2>1 DEF Listed
  <2>4. Members(l)' = Filtered(q, W) /\ Others(l)' = Filtered(q, V)
    BY <1>4, <1>9, AfterAccepts
  <2> QED BY <2>1, <2>2, <2>3, <2>4
<1>10. ASSUME n \in Nodes \ ToSet(s), n \in W, n \notin V
       PROVE  /\ Filtered(PutBefore(s, x, n), W) = InsertAt(Filtered(s, W), i + 1, n)
              /\ Filtered(PutAfter(s, x, n), W) = InsertAt(Filtered(s, W), i + 2, n)
              /\ Filtered(PutBefore(s, x, n), V) = Filtered(s, V)
              /\ Filtered(PutAfter(s, x, n), V) = Filtered(s, V)
  <2>1. k \in 1..Len(s) /\ s[k] = x /\ x \in W /\ Cardinality(Met(s, k - 1, W)) = i
    BY <1>5
  <2> HIDE DEF p, n, x, s, W
  <2>2. /\ Filtered(PutBefore(s, s[k], n), W) = InsertAt(Filtered(s, W), Cardinality(Met(s, k - 1, W)) + 1, n)
        /\ Filtered(PutAfter(s, s[k], n), W) = InsertAt(Filtered(s, W), Cardinality(Met(s, k - 1, W)) + 2, n)
    BY <1>6, <1>10, <2>1, FilteredBeside
  <2>3. PutBefore(s, s[k], n) = InsertAt(s, k, n) /\ PutAfter(s, s[k], n) = InsertAt(s, k + 1, n)
    BY <1>6, <1>10, <2>1, BesideAt
  <2> DEFINE j == k + 1
  <2>4. k \in 1..Len(s)+1 /\ j \in 1..Len(s)+1 /\ n \in Nodes
    BY <1>6, <1>10, <2>1
  <2> HIDE DEF j, V
  <2>5. Filtered(InsertAt(s, k, n), V) = Filtered(s, V)
    BY <1>6, <1>10, <2>4, FilteredInsert
  <2>6. Filtered(InsertAt(s, j, n), V) = Filtered(s, V)
    BY <1>6, <1>10, <2>4, FilteredInsert
  <2> QED BY <2>1, <2>2, <2>3, <2>5, <2>6 DEF j
<1>11. ASSUME Beside(l, e, x, PutBefore)
       PROVE  /\ n \in Nodes
              /\ Members(l)' = InsertAt(Members(l), i + 1, n) /\ Others(l)' = Others(l)
  <2>1. n # Nil /\ Kind(n) = Kind(x) /\ n # x /\ Accepts(l, e, PutBefore(s, x, n))
    BY <1>2, <1>11 DEF Beside, Rejects
  <2> HIDE DEF p, x, s, W, V
  <2> QED BY <1>8, <1>9, <1>10, <2>1
<1>12. ASSUME Beside(l, e, x, PutAfter)
       PROVE  /\ n \in Nodes
              /\ Members(l)' = InsertAt(Members(l), i + 2, n) /\ Others(l)' = Others(l)
  <2>1. n # Nil /\ Kind(n) = Kind(x) /\ n # x /\ Accepts(l, e, PutAfter(s, x, n))
    BY <1>2, <1>12 DEF Beside, Rejects
  <2> HIDE DEF p, x, s, W, V
  <2> QED BY <1>8, <1>9, <1>10, <2>1
<1>13. Members(l) \in Seq(Nodes)
  <2> HIDE DEF s, W
  <2>1. PICK f \in Filters(Nodes, s, W) : Filtered(s, W) = f[Len(s)]
    BY <1>6, FilterExists
  <2>2. Len(s) \in 0..Len(s)
    BY <1>6
  <2>3. f[Len(s)] \in Seq(Nodes)
    BY <1>6, <2>1, <2>2, FilterCount
  <2> QED BY <1>8, <2>1, <2>3
<1> QED
  BY <1>7, <1>11, <1>12, <1>13

(* MoveBefore and MoveAfter: entry i goes beside entry j.                  *)
LEMMA PositionMoved ==
  ASSUME IInv, NEW l \in Handles, NEW i, NEW j,
         MoveBefore(l, i, j) \/ MoveAfter(l, i, j)
  PROVE  LET m == Members(l)  r == RemoveAt(m, i + 1)
             q == IF i < j THEN j ELSE j + 1 IN
         /\ MoveBefore(l, i, j) => Members(l)' = InsertAt(r, q, m[i + 1])
         /\ MoveAfter(l, i, j) => Members(l)' = InsertAt(r, q + 1, m[i + 1])
         /\ Others(l)' = Others(l)
<1> DEFINE p == list[l].parent
           n == nth(l, i)
           x == nth(l, j)
           s == kids[p]
           W == Listed(list[l].name)
           V == Nodes \ Listed(list[l].name)
           m == Members(l)
           r == RemoveAt(m, i + 1)
           q == IF i < j THEN j ELSE j + 1
<1>1. Types /\ Structure /\ Anchored
  BY DEF IInv, TreeInv
<1>2. /\ FreshList(l) /\ n # Nil /\ x # Nil /\ n # x
      /\ MoveBefore(l, i, j) => kids' = [kids EXCEPT ![p] = PutBefore(s, x, n)]
      /\ MoveAfter(l, i, j) => kids' = [kids EXCEPT ![p] = PutAfter(s, x, n)]
      /\ list' = [list EXCEPT ![l] = [list[l] EXCEPT !.gen = gen'[list[l].of]]]
  BY DEF MoveBefore, MoveAfter, Move, Refreshed
<1>3. list[l] \in Handle /\ p \in Nodes \cup {Nil}
  BY <1>2, ParentOfList
<1>4. p \in Nodes /\ p # Nil
      /\ \E a \in 1..Len(s) : s[a] = n /\ n \in W /\ Cardinality(Met(s, a - 1, W)) = i
  BY <1>1, <1>2, <1>3, nthMet, NilAssumption
<1>5. \E b \in 1..Len(s) : s[b] = x /\ x \in W /\ Cardinality(Met(s, b - 1, W)) = j
  BY <1>1, <1>2, <1>3, nthMet
<1>6. PICK a \in 1..Len(s) : s[a] = n /\ n \in W /\ Cardinality(Met(s, a - 1, W)) = i
  BY <1>4
<1>7. PICK b \in 1..Len(s) : s[b] = x /\ x \in W /\ Cardinality(Met(s, b - 1, W)) = j
  BY <1>5
<1>8. s \in Seq(Nodes) /\ IsInjective(s) /\ a # b
  BY <1>1, <1>2, <1>4, <1>6, <1>7 DEF Structure, Shaped
<1>9. m = Filtered(s, W) /\ Others(l) = Filtered(s, V) /\ n \notin V /\ x \notin V
  BY <1>4, <1>6, <1>7 DEF Members, Others, Children
<1>10. ASSUME NEW z, kids' = [kids EXCEPT ![p] = z]
       PROVE  Members(l)' = Filtered(z, W) /\ Others(l)' = Filtered(z, V)
  <2>1. kids'[p] = z
    BY <1>1, <1>4, <1>10 DEF Structure, Shaped
  <2>2. list'[l] = [list[l] EXCEPT !.gen = gen'[list[l].of]]
    BY <1>2 DEF IInv, HandleInv
  <2>3. list'[l].parent = p /\ list'[l].name = list[l].name
    BY <1>3, <2>2 DEF Handle
  <2> QED BY <1>4, <2>1, <2>3 DEF Members, Others, Children, Listed
<1>11. /\ s[a] = n /\ s[b] = x /\ n \in W /\ x \in W
       /\ Cardinality(Met(s, a - 1, W)) = i /\ Cardinality(Met(s, b - 1, W)) = j
  BY <1>6, <1>7
<1> HIDE DEF p, n, x, s, W, V, m, r
<1>12. /\ Filtered(PutBefore(s, s[b], s[a]), W) =
            InsertAt(RemoveAt(Filtered(s, W), Cardinality(Met(s, a - 1, W)) + 1),
                     IF Cardinality(Met(s, a - 1, W)) < Cardinality(Met(s, b - 1, W))
                     THEN Cardinality(Met(s, b - 1, W)) ELSE Cardinality(Met(s, b - 1, W)) + 1,
                     Filtered(s, W)[Cardinality(Met(s, a - 1, W)) + 1])
       /\ Filtered(PutAfter(s, s[b], s[a]), W) =
            InsertAt(RemoveAt(Filtered(s, W), Cardinality(Met(s, a - 1, W)) + 1),
                     (IF Cardinality(Met(s, a - 1, W)) < Cardinality(Met(s, b - 1, W))
                      THEN Cardinality(Met(s, b - 1, W)) ELSE Cardinality(Met(s, b - 1, W)) + 1) + 1,
                     Filtered(s, W)[Cardinality(Met(s, a - 1, W)) + 1])
  BY <1>8, <1>11, FilteredMove
<1>13. /\ Filtered(PutBefore(s, s[b], s[a]), V) = Filtered(s, V)
       /\ Filtered(PutAfter(s, s[b], s[a]), V) = Filtered(s, V)
  BY <1>8, <1>9, <1>11, FilteredMove
<1>14. /\ Filtered(PutBefore(s, x, n), W) = InsertAt(r, q, m[i + 1])
       /\ Filtered(PutAfter(s, x, n), W) = InsertAt(r, q + 1, m[i + 1])
       /\ Filtered(PutBefore(s, x, n), V) = Filtered(s, V)
       /\ Filtered(PutAfter(s, x, n), V) = Filtered(s, V)
  BY <1>9, <1>11, <1>12, <1>13 DEF r
<1>15. CASE MoveBefore(l, i, j) /\ MoveAfter(l, i, j)
  BY <1>2, <1>9, <1>10, <1>14, <1>15 DEF m, r
<1>16. CASE MoveBefore(l, i, j) /\ ~MoveAfter(l, i, j)
  BY <1>2, <1>9, <1>10, <1>14, <1>16 DEF m, r
<1>17. CASE ~MoveBefore(l, i, j) /\ MoveAfter(l, i, j)
  BY <1>2, <1>9, <1>10, <1>14, <1>17 DEF m, r
<1> QED
  BY <1>15, <1>16, <1>17 DEF m, r

(* Every operation of a list does what Positional says.                    *)
LEMMA PositionalStep ==
  ASSUME IInv, NEW l \in Handles, Done(l)
  PROVE  InPosition(l)
<1>1. ASSUME NEW e \in Trees, NEW i \in Index, InsertBefore(l, i, e)
      PROVE  Members(l)' = InsertAt(Members(l), i + 1, tree[e]) /\ Others(l)' = Others(l)
  BY <1>1, PositionBeside DEF InsertBefore
<1>2. ASSUME NEW e \in Trees, NEW i \in Index, InsertAfter(l, i, e)
      PROVE  Members(l)' = InsertAt(Members(l), i + 2, tree[e]) /\ Others(l)' = Others(l)
  BY <1>2, PositionBeside DEF InsertAfter
<1>3. ASSUME NEW e \in Trees, InsertLast(l, e), Kind(tree[e]) = list[l].name
      PROVE  Members(l)' = Append(Members(l), tree[e]) /\ Others(l)' = Others(l)
  BY <1>3, PositionLast DEF InsertLast
<1>4. ASSUME NEW e \in Trees, InsertFirst(l, e), Kind(tree[e]) = list[l].name
      PROVE  Members(l)' = <<tree[e]>> \o Members(l) /\ Others(l)' = Others(l)
  <2>1. CASE nth(l, 0) = Nil
    <3>1. /\ Members(l)' = Append(Members(l), tree[e]) /\ Others(l)' = Others(l)
          /\ Members(l) = <<>>
      BY <1>4, <2>1, PositionLast DEF InsertFirst
    <3>2. Append(<<>>, tree[e]) = <<tree[e]>> \o <<>>
      OBVIOUS
    <3> QED BY <3>1, <3>2
  <2>2. CASE nth(l, 0) # Nil
    <3>1. /\ Members(l)' = InsertAt(Members(l), 0 + 1, tree[e]) /\ Others(l)' = Others(l)
          /\ Members(l) \in Seq(Nodes) /\ tree[e] \in Nodes
      BY <1>4, <2>2, PositionBeside DEF InsertFirst
    <3>2. InsertAt(Members(l), 1, tree[e]) = <<tree[e]>> \o Members(l)
      BY <3>1, InsertEnds
    <3> QED BY <3>1, <3>2
  <2> QED BY <2>1, <2>2
<1>5. ASSUME NEW w \in Index, NEW p \in Index, MoveBefore(l, w, p) \/ MoveAfter(l, w, p)
      PROVE  LET m == Members(l)  r == RemoveAt(m, w + 1)
                 q == IF w < p THEN p ELSE p + 1 IN
             /\ MoveBefore(l, w, p) => Members(l)' = InsertAt(r, q, m[w + 1])
             /\ MoveAfter(l, w, p) => Members(l)' = InsertAt(r, q + 1, m[w + 1])
             /\ Others(l)' = Others(l)
  BY <1>5, PositionMoved
<1> QED
  BY <1>1, <1>2, <1>3, <1>4, <1>5 DEF InPosition

----------------------------------------------------------------------------
(* The structure says what SoleOwner says.                                 *)
LEMMA OneOwner ==
  ASSUME TreeInv
  PROVE  SoleOwner
<1>1. Types /\ Structure /\ Anchored /\ Owned
  BY DEF TreeInv
<1>2. ASSUME NEW n \in Allocated
      PROVE  Cardinality({c \in tops : n \in ToSet(c)})
               + Cardinality({m \in Nodes : n \in ToSet(kids[m])}) = 1
  <2> DEFINE A == {c \in tops : n \in ToSet(c)}
             B == {m \in Nodes : n \in ToSet(kids[m])}
  <2> SUFFICES Cardinality(A) + Cardinality(B) = 1
    OBVIOUS
  <2>1. Linked(tops, kids, n)
    BY <1>1, NodesViewHolds DEF NodesView
  <2>2. CASE \E c \in tops : n \in ToSet(c)
    <3>1. PICK c \in tops : n \in ToSet(c)
      BY <2>2
    <3>2. A = {c} /\ B = {}
      BY <1>1, <3>1 DEF Structure, Shaped
    <3>3. Cardinality({c}) = 1 /\ Cardinality({}) = 0
      BY FS_Singleton, FS_EmptySet
    <3> HIDE DEF A, B
    <3> QED BY <3>2, <3>3
  <2>3. CASE \E m \in Nodes : n \in ToSet(kids[m])
    <3>1. PICK m \in Nodes : n \in ToSet(kids[m])
      BY <2>3
    <3>2. A = {} /\ B = {m}
      BY <1>1, <3>1 DEF Structure, Shaped
    <3>3. Cardinality({m}) = 1 /\ Cardinality({}) = 0
      BY FS_Singleton, FS_EmptySet
    <3> HIDE DEF A, B
    <3> QED BY <3>2, <3>3
  <2> QED BY <2>1, <2>2, <2>3 DEF Linked
<1> QED
  BY <1>1, <1>2 DEF SoleOwner, Anchored, Owned

LEMMA Invariance ==
  ASSUME ~PartialFailure, ~KeepConsumed
  PROVE  Spec => [](IInv /\ FreshMeansUnchanged)
<1>1. Init => IInv /\ FreshMeansUnchanged
  BY InitInv
<1>2. (IInv /\ FreshMeansUnchanged) /\ [Next]_vars => (IInv /\ FreshMeansUnchanged)'
  BY NextInv
<1> QED
  BY <1>1, <1>2, PTL DEF Spec

(* reanchorBeforeDetach, intoRaw, finalize: every node hangs in one place, *)
(* every open tree is anchored at the first node of a chain of its own,    *)
(* and every chain has a tree that frees it, but for what a refused insert *)
(* of several roots leaves behind (Boxes).                                 *)
THEOREM EveryNodeOwned ==
  ASSUME ~PartialFailure, ~KeepConsumed
  PROVE  Spec => []SoleOwner
<1>1. IInv => SoleOwner
  BY OneOwner DEF IInv
<1> QED
  BY <1>1, Invariance, PTL

(* UserOrderedList: the raw pointer a list keeps to the parent of its      *)
(* entries is a node of the tree of the list whenever the list is used.    *)
THEOREM ListParentLinked ==
  ASSUME ~PartialFailure, ~KeepConsumed
  PROVE  Spec => []FreshListIsLinked
<1>1. IInv => FreshListIsLinked
  BY DEF IInv
<1> QED
  BY <1>1, Invariance, PTL

(* NodeRef.assertValid, UserOrderedList.fresh: a handle that is accepted   *)
(* sees the tree it was borrowed from, unchanged.                          *)
THEOREM AcceptedHandleCurrent ==
  ASSUME ~PartialFailure, ~KeepConsumed
  PROVE  Spec => []FreshMeansUnchanged
  BY Invariance, PTL

(* RawUserOrderedList.nth, Insert* and Move*: a position counts the entries*)
(* of the list alone, the entry lands exactly there, the others keep their *)
(* order, and the other children stay where they are.                      *)
THEOREM PositionsCountEntries ==
  ASSUME ~PartialFailure, ~KeepConsumed
  PROVE  Spec => Positional
<1>1. Spec => []IInv
  BY Invariance, PTL
<1>2. IInv =>
        [\A l \in Handles :
           Nil \notin {list[l], list'[l]} /\ list[l] # list'[l] /\ Done(l) => InPosition(l)]_vars
  BY PositionalStep
<1> QED
  BY <1>1, <1>2, PTL DEF Positional
=============================================================================
