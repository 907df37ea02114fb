--------------------------- MODULE EntryTree_proofs ---------------------------
(***************************************************************************)
(* Proofs that the Entry trees stay linked (EntryTree!EntriesLinked) and   *)
(* that FixChoice leaves cases (EntryTree!ChoicesSettled): for every set of*)
(* modules and paths, any number of entries, and whatever is augmented,    *)
(* deviated, fixed and looked up, in any order.                            *)
(***************************************************************************)
EXTENDS EntryTree, Recursion, SequenceTheorems

(* The links hold entries that were allocated, or nil.                     *)
Pointers(E) == E \cup {NilEntry}
Allocated ==
    /\ entries \subseteq Entries /\ IsFiniteSet(entries)
    /\ nameOf = [e \in Entries |-> nameOf[e]]
    /\ dirOf = [e \in Entries |-> dirOf[e]]
    /\ parentOf \in [Entries -> Pointers(entries)]
    /\ orderedOf \in [Entries -> Seq(Pointers(entries))]

(* Dir and the order agree; every set of entries has one whose parent is   *)
(* outside it, so no entry is above itself.                                *)
Linked == \A e \in entries : OrderLinked(e) /\ LastInDir(e)
NoCycle == \A S \in SUBSET entries : S # {} => \E x \in S : parentOf[x] \notin S

(* So do the other fields, and what the call under way still has to do.    *)
Referring ==
    /\ rpcOf \in [Entries -> Pointers(entries)]
    /\ ioOf \in [Entries -> [Sides -> Pointers(entries)]]
    /\ extraOf \in [Entries -> [ExtraKinds -> Seq(entries)]]
    /\ \A m \in DOMAIN roots : roots[m] \in entries
    /\ found \in Pointers(entries)
OnEntries(w, E) ==
    w \in Seq(ToSet(w)) /\ \A i \in DOMAIN w : w[i].e \in E /\ w[i].x \in E

Trees == Allocated /\ Linked /\ NoCycle
EntriesInv == Trees /\ Referring /\ OnEntries(work, entries)

----------------------------------------------------------------------------
(* The tasks of a call.                                                    *)

LEMMA TaskList ==
    ASSUME NEW E, NEW n \in Nat, NEW w, w = [i \in 1..n |-> w[i]],
           \A i \in 1..n : w[i].e \in E /\ w[i].x \in E
    PROVE  OnEntries(w, E)
<1>1. DOMAIN w = 1..n /\ \A i \in 1..n : w[i] \in ToSet(w)
  BY DEF ToSet
<1>2. w \in Seq(ToSet(w))
  BY <1>1
<1> QED BY <1>1, <1>2 DEF OnEntries

LEMMA TaskSeq ==
    ASSUME NEW E, NEW T, NEW w \in Seq(T), \A i \in 1..Len(w) : w[i].e \in E /\ w[i].x \in E
    PROVE  OnEntries(w, E)
<1>1. Len(w) \in Nat /\ w = [i \in 1..Len(w) |-> w[i]]
  OBVIOUS
<1> QED BY <1>1, TaskList

LEMMA OneTask ==
    ASSUME NEW E, NEW t, t.e \in E, t.x \in E
    PROVE  OnEntries(<<t>>, E)
<1>1. <<t>> \in Seq({t}) /\ Len(<<t>>) = 1 /\ <<t>>[1] = t
  OBVIOUS
<1>2. \A i \in 1..Len(<<t>>) : <<t>>[i] = t
  BY <1>1
<1> QED BY <1>1, <1>2, TaskSeq

LEMMA NoTask ==
    ASSUME NEW E
    PROVE  OnEntries(<<>>, E)
BY DEF OnEntries

LEMMA TasksJoined ==
    ASSUME NEW E, NEW v, NEW w, OnEntries(v, E), OnEntries(w, E)
    PROVE  OnEntries(v \o w, E)
<1> DEFINE T == ToSet(v) \cup ToSet(w)
<1>1. v \in Seq(T) /\ w \in Seq(T)
  BY DEF OnEntries
<1>2. /\ v \o w \in Seq(T) /\ Len(v \o w) = Len(v) + Len(w)
      /\ \A i \in 1..Len(v)+Len(w) : (v \o w)[i] = IF i <= Len(v) THEN v[i] ELSE w[i - Len(v)]
  <2> HIDE DEF T
  <2> QED BY <1>1, ConcatProperties
<1>3. Len(v) \in Nat /\ Len(w) \in Nat /\ DOMAIN v = 1..Len(v) /\ DOMAIN w = 1..Len(w)
  BY <1>1, LenProperties
<1>4. \A i \in 1..Len(v)+Len(w) : (v \o w)[i].e \in E /\ (v \o w)[i].x \in E
  <2> TAKE i \in 1..Len(v)+Len(w)
  <2>1. CASE i <= Len(v)
    BY <1>2, <1>3, <2>1 DEF OnEntries
  <2>2. CASE ~(i <= Len(v))
    <3>1. i - Len(v) \in DOMAIN w
      BY <1>3, <2>2
    <3> QED BY <1>2, <2>2, <3>1 DEF OnEntries
  <2> QED BY <2>1, <2>2
<1> QED BY <1>2, <1>4, TaskSeq

LEMMA FirstTask ==
    ASSUME NEW E, NEW w, OnEntries(w, E), w # <<>>
    PROVE  w[1].e \in E /\ w[1].x \in E /\ OnEntries(Tail(w), E)
<1>1. /\ w \in Seq(ToSet(w)) /\ Len(w) \in Nat /\ Len(w) >= 1 /\ DOMAIN w = 1..Len(w)
  BY EmptySeq, LenProperties DEF OnEntries
<1>2. /\ Tail(w) \in Seq(ToSet(w)) /\ Len(Tail(w)) = Len(w) - 1
      /\ \A i \in 1..Len(w)-1 : Tail(w)[i] = w[i+1]
  BY <1>1, HeadTailProperties
<1>3. \A i \in 1..Len(w)-1 : Tail(w)[i].e \in E /\ Tail(w)[i].x \in E
  BY <1>1, <1>2 DEF OnEntries
<1>4. OnEntries(Tail(w), E)
  BY <1>2, <1>3, TaskSeq
<1> QED BY <1>1, <1>4 DEF OnEntries

LEMMA MoreEntries ==
    ASSUME NEW E, NEW F, E \subseteq F, NEW w, OnEntries(w, E)
    PROVE  OnEntries(w, F)
BY DEF OnEntries

(* A step that replaces the first task.                                    *)
LEMMA Replaces ==
    ASSUME NEW E, NEW F, E \subseteq F, OnEntries(work, E), work # <<>>,
           NEW tasks, OnEntries(tasks, F), Later(tasks)
    PROVE  OnEntries(work', F)
<1>1. OnEntries(Tail(work), E)
  BY FirstTask
<1> QED BY <1>1, MoreEntries, TasksJoined DEF Later
----------------------------------------------------------------------------
(* What a step does to the links.                                          *)

(* The sequences and the entries that a tree has.                          *)
LEMMA TreeFacts ==
    ASSUME Allocated
    PROVE  /\ \A e \in Entries : /\ Len(orderedOf[e]) \in Nat /\ DOMAIN orderedOf[e] = 1..Len(orderedOf[e])
                                /\ \A i \in DOMAIN orderedOf[e] : orderedOf[e][i] \in Pointers(entries)
                                /\ parentOf[e] \in Pointers(entries)
           /\ DOMAIN dirOf = Entries /\ DOMAIN nameOf = Entries
           /\ NilEntry \notin entries
BY NilEntryAssumption DEF Allocated, Pointers

LEMMA Fresh ==
    ASSUME CanAllocate, Allocated
    PROVE  NewEntry \in Entries \ entries
BY DEF CanAllocate, NewEntry, Allocated

LEMMA BornAllocated ==
    ASSUME Allocated, NEW x \in Entries \ entries, NEW name, NEW up \in Pointers(entries), NEW added \in BOOLEAN,
           added => up \in entries, Born(x, name, up, added)
    PROVE  Allocated'
<1>1. entries' = entries \cup {x} /\ entries \cup {x} \subseteq Entries /\ IsFiniteSet(entries \cup {x})
  BY FS_AddElement DEF Allocated, Born
<1>2. nameOf' = [e \in Entries |-> nameOf'[e]] /\ dirOf' = [e \in Entries |-> dirOf'[e]]
  <2>1. nameOf' = [e \in Entries |-> IF e = x THEN name ELSE nameOf[e]]
    BY DEF Allocated, Born
  <2>2. CASE added
    BY <2>1, <2>2 DEF Allocated, Born
  <2>3. CASE ~added
    BY <2>1, <2>3 DEF Allocated, Born
  <2> QED BY <2>2, <2>3
<1>3. parentOf' \in [Entries -> Pointers(entries \cup {x})]
  BY DEF Allocated, Born, Pointers
<1>4. orderedOf' \in [Entries -> Seq(Pointers(entries \cup {x}))]
  <2> DEFINE P == Pointers(entries \cup {x})
  <2>1. orderedOf \in [Entries -> Seq(P)] /\ x \in P /\ <<>> \in Seq(P)
    BY DEF Allocated, Pointers
  <2>2. CASE added
    <3>1. up \in Entries
      BY <2>2 DEF Allocated
    <3>2. Append(orderedOf[up], x) \in Seq(P)
      BY <2>1, <3>1, AppendProperties
    <3> QED BY <2>1, <2>2, <3>1, <3>2 DEF Born
  <2>3. CASE ~added
    BY <2>1, <2>3 DEF Born
  <2> QED BY <2>2, <2>3
<1> QED BY <1>1, <1>2, <1>3, <1>4 DEF Allocated

(* A new entry comes last, and is the last of its name.                    *)
LEMMA BornLinked ==
    ASSUME Allocated, Linked, NEW x \in Entries \ entries, NEW name, NEW up \in Pointers(entries),
           NEW added \in BOOLEAN, added => up \in entries, Born(x, name, up, added)
    PROVE  Linked'
<1>1. /\ entries' = entries \cup {x}
      /\ \A e \in Entries : /\ nameOf'[e] = IF e = x THEN name ELSE nameOf[e]
                            /\ parentOf'[e] = IF e = x THEN up ELSE parentOf[e]
                            /\ dirOf'[e] = IF e = x THEN NoDir
                                           ELSE IF added /\ e = up THEN Bind(dirOf[up], name, x) ELSE dirOf[e]
                            /\ orderedOf'[e] = IF e = x THEN <<>>
                                           ELSE IF added /\ e = up THEN Append(orderedOf[up], x) ELSE orderedOf[e]
  <2>1. x \in Entries /\ x # up
    BY NilEntryAssumption DEF Pointers
  <2>2. CASE added
    BY <2>1, <2>2 DEF Allocated, Born
  <2>3. CASE ~added
    BY <2>1, <2>3 DEF Allocated, Born
  <2> QED BY <2>2, <2>3
<1>2. x # NilEntry /\ x \notin entries /\ entries \subseteq Entries
  BY NilEntryAssumption DEF Allocated
<1>3. ASSUME NEW e \in entries
      PROVE  /\ \A i \in DOMAIN orderedOf[e] : orderedOf[e][i] # x
             /\ \A n \in DOMAIN dirOf[e] : dirOf[e][n] # x
  BY <1>2, TreeFacts DEF Linked, LastInDir, Pointers
<1>4. OrderLinked(x)' /\ LastInDir(x)'
  BY <1>1 DEF OrderLinked, LastInDir, NoDir
<1>5. ASSUME NEW e \in entries, ~(added /\ e = up) PROVE OrderLinked(e)' /\ LastInDir(e)'
  <2>1. dirOf'[e] = dirOf[e] /\ orderedOf'[e] = orderedOf[e]
    BY <1>1, <1>2, <1>5
  <2>2. OrderLinked(e)'
    <3> SUFFICES ASSUME NEW i \in DOMAIN orderedOf[e], orderedOf[e][i] # NilEntry
                 PROVE /\ orderedOf[e][i] \in entries' /\ parentOf'[orderedOf[e][i]] = e
                       /\ nameOf'[orderedOf[e][i]] \in DOMAIN dirOf[e]
                       /\ \A j \in DOMAIN orderedOf[e] : j # i => orderedOf[e][j] # orderedOf[e][i]
      BY <2>1 DEF OrderLinked
    <3> QED BY <1>1, <1>2 DEF Linked, OrderLinked
  <2>3. LastInDir(e)'
    <3> SUFFICES ASSUME NEW n \in DOMAIN dirOf[e]
                 PROVE  /\ dirOf[e][n] \in entries' /\ nameOf'[dirOf[e][n]] = n
                        /\ \E i \in DOMAIN orderedOf[e] :
                             /\ orderedOf[e][i] = dirOf[e][n]
                             /\ \A j \in DOMAIN orderedOf[e] :
                                  j > i /\ orderedOf[e][j] # NilEntry => nameOf'[orderedOf[e][j]] # n
      BY <2>1 DEF LastInDir
    <3>1. \A j \in DOMAIN orderedOf[e] : orderedOf[e][j] # NilEntry => nameOf'[orderedOf[e][j]] = nameOf[orderedOf[e][j]]
      BY <1>1, <1>2, TreeFacts DEF Pointers
    <3> QED BY <1>1, <1>2, <3>1 DEF Linked, LastInDir
  <2> QED BY <2>2, <2>3
<1>6. ASSUME NEW e \in entries, added, e = up PROVE OrderLinked(e)' /\ LastInDir(e)'
  <2> DEFINE q == orderedOf[e]
             r == Append(q, x)
  <2>1. dirOf'[e] = Bind(dirOf[e], name, x) /\ orderedOf'[e] = r
    BY <1>1, <1>2, <1>6
  <2>2. /\ Len(q) \in Nat /\ DOMAIN q = 1..Len(q) /\ DOMAIN r = 1..Len(q)+1
        /\ \A i \in 1..Len(q) : r[i] = q[i]
        /\ r[Len(q)+1] = x
    <3>1. q \in Seq(Pointers(entries) \cup {x})
      BY <1>2 DEF Allocated
    <3> HIDE DEF q
    <3> QED BY <3>1, AppendProperties
  <2>3. /\ DOMAIN dirOf'[e] = DOMAIN dirOf[e] \cup {name}
        /\ \A n \in DOMAIN dirOf[e] : n # name => dirOf'[e][n] = dirOf[e][n]
        /\ dirOf'[e][name] = x
    BY <2>1 DEF Bind
  <2>4. \A i \in 1..Len(q) : /\ q[i] \in Pointers(entries) /\ q[i] # x
                             /\ q[i] # NilEntry => nameOf'[q[i]] = nameOf[q[i]] /\ parentOf'[q[i]] = parentOf[q[i]]
    BY <1>1, <1>2, <1>3, TreeFacts, <2>2 DEF Pointers
  <2>5. nameOf'[x] = name /\ parentOf'[x] = e
    BY <1>1, <1>6
  <2>6. OrderLinked(e) /\ LastInDir(e)
    BY DEF Linked
  <2> HIDE DEF r
  <2>7. OrderLinked(e)'
    <3> SUFFICES ASSUME NEW i \in DOMAIN r, r[i] # NilEntry
                 PROVE /\ r[i] \in entries' /\ parentOf'[r[i]] = e
                       /\ nameOf'[r[i]] \in DOMAIN dirOf'[e]
                       /\ \A j \in DOMAIN r : j # i => r[j] # r[i]
      BY <2>1 DEF OrderLinked
    <3>1. CASE i = Len(q) + 1
      <4>1. \A j \in DOMAIN r : j # i => j \in 1..Len(q)
        BY <2>2, <3>1
      <4> QED BY <1>1, <2>2, <2>3, <2>4, <2>5, <3>1, <4>1
    <3>2. CASE i \in 1..Len(q)
      <4>1. /\ q[i] \in entries /\ parentOf[q[i]] = e /\ nameOf[q[i]] \in DOMAIN dirOf[e]
            /\ \A j \in 1..Len(q) : j # i => q[j] # q[i]
        BY <2>2, <2>6, <3>2 DEF OrderLinked
      <4>2. \A j \in DOMAIN r : j # i => r[j] # r[i]
        <5> SUFFICES ASSUME NEW j \in DOMAIN r, j # i PROVE r[j] # q[i]
          BY <2>2, <3>2
        <5>1. CASE j \in 1..Len(q)
          BY <2>2, <4>1, <5>1
        <5>2. CASE j = Len(q) + 1
          BY <2>2, <2>4, <3>2, <5>2
        <5> QED BY <2>2, <5>1, <5>2
      <4> QED BY <1>1, <2>2, <2>3, <2>4, <3>2, <4>1, <4>2
    <3> QED BY <2>2, <3>1, <3>2
  <2>8. LastInDir(e)'
    <3> SUFFICES ASSUME NEW n \in DOMAIN dirOf'[e]
                 PROVE  /\ dirOf'[e][n] \in entries' /\ nameOf'[dirOf'[e][n]] = n
                        /\ \E i \in DOMAIN r :
                             /\ r[i] = dirOf'[e][n]
                             /\ \A j \in DOMAIN r : j > i /\ r[j] # NilEntry => nameOf'[r[j]] # n
      BY <2>1 DEF LastInDir
    <3>1. CASE n = name
      <4>1. Len(q) + 1 \in DOMAIN r /\ \A j \in DOMAIN r : ~(j > Len(q) + 1)
        BY <2>2
      <4> QED BY <1>1, <2>2, <2>3, <2>5, <3>1, <4>1
    <3>2. CASE n # name
      <4>1. n \in DOMAIN dirOf[e] /\ dirOf'[e][n] = dirOf[e][n]
        BY <2>3, <3>2
      <4>2. dirOf[e][n] \in entries /\ nameOf[dirOf[e][n]] = n
        BY <2>6, <4>1 DEF LastInDir
      <4>3. PICK i \in 1..Len(q) : /\ q[i] = dirOf[e][n]
                                  /\ \A j \in 1..Len(q) : j > i /\ q[j] # NilEntry => nameOf[q[j]] # n
        BY <2>2, <2>6, <4>1 DEF LastInDir
      <4>4. i \in DOMAIN r /\ r[i] = dirOf[e][n]
        BY <2>2, <4>3
      <4>5. ASSUME NEW j \in DOMAIN r, j > i, r[j] # NilEntry PROVE nameOf'[r[j]] # n
        <5>1. CASE j \in 1..Len(q)
          BY <2>2, <2>4, <4>3, <4>5, <5>1
        <5>2. CASE j = Len(q) + 1
          BY <2>2, <2>5, <3>2, <5>2
        <5> QED BY <2>2, <5>1, <5>2
      <4> QED BY <1>1, <1>2, <4>1, <4>2, <4>4, <4>5
    <3> QED BY <3>1, <3>2
  <2> QED BY <2>7, <2>8
<1> QED BY <1>1, <1>4, <1>5, <1>6 DEF Linked

(* A new entry below an old one, or below none, closes no cycle.           *)
LEMMA BornNoCycle ==
    ASSUME Allocated, NoCycle, NEW x \in Entries \ entries, NEW name, NEW up \in Pointers(entries),
           NEW added \in BOOLEAN, Born(x, name, up, added)
    PROVE  NoCycle'
<1>1. /\ entries' = entries \cup {x} /\ x # up /\ x # NilEntry /\ entries \subseteq Entries
      /\ \A e \in Entries : parentOf'[e] = IF e = x THEN up ELSE parentOf[e]
      /\ \A e \in Entries : parentOf[e] # x
  BY NilEntryAssumption DEF Allocated, Born, Pointers
<1> SUFFICES ASSUME NEW S \in SUBSET (entries \cup {x}), S # {}
             PROVE  \E y \in S : parentOf'[y] \notin S
  BY <1>1 DEF NoCycle
<1> DEFINE T == S \ {x}
<1>2. CASE T = {}
  <2>1. S = {x}
    BY <1>2
  <2> QED BY <1>1, <2>1
<1>3. CASE T # {}
  <2>1. T \in SUBSET entries
    OBVIOUS
  <2>2. PICK y \in T : parentOf[y] \notin T
    BY <1>3, <2>1 DEF NoCycle
  <2> QED BY <1>1, <2>2
<1> QED BY <1>2, <1>3

LEMMA BornTrees ==
    ASSUME Trees, NEW x \in Entries \ entries, NEW name, NEW up \in Pointers(entries), NEW added \in BOOLEAN,
           added => up \in entries, Born(x, name, up, added)
    PROVE  Trees' /\ entries' = entries \cup {x}
<1>1. entries' = entries \cup {x}
  BY DEF Born
<1> QED BY <1>1, BornAllocated, BornLinked, BornNoCycle DEF Trees
(* delete: a name leaves Dir, and the order has nil where it was.          *)
LEMMA RemovedTrees ==
    ASSUME Trees, NEW p \in entries, NEW n, Removed(p, n)
    PROVE  Trees'
<1> DEFINE q == orderedOf[p]
           r == [i \in DOMAIN q |-> IF q[i] # NilEntry /\ nameOf[q[i]] = n THEN NilEntry ELSE q[i]]
<1>1. /\ p \in Entries /\ DOMAIN dirOf = Entries
      /\ Len(q) \in Nat /\ DOMAIN q = 1..Len(q)
      /\ \A i \in DOMAIN q : q[i] \in Pointers(entries)
      /\ NilEntry \notin entries
  BY TreeFacts DEF Trees, Allocated
<1>2. /\ entries' = entries /\ nameOf' = nameOf /\ parentOf' = parentOf
      /\ \A e \in Entries : e # p => dirOf'[e] = dirOf[e] /\ orderedOf'[e] = orderedOf[e]
      /\ dirOf'[p] = Unbind(dirOf[p], n) /\ orderedOf'[p] = r
  BY <1>1 DEF Removed, Trees, Allocated
<1>3. /\ DOMAIN r = DOMAIN q
      /\ \A i \in DOMAIN q : r[i] = IF q[i] # NilEntry /\ nameOf[q[i]] = n THEN NilEntry ELSE q[i]
      /\ DOMAIN dirOf'[p] = DOMAIN dirOf[p] \ {n}
      /\ \A k \in DOMAIN dirOf[p] : k # n => dirOf'[p][k] = dirOf[p][k]
  BY <1>2 DEF Unbind
<1>4. Allocated'
  <2>1. r \in Seq(Pointers(entries))
    BY <1>1 DEF Pointers
  <2>2. orderedOf' \in [Entries -> Seq(Pointers(entries))]
    <3> HIDE DEF r
    <3>1. \A e \in Entries : orderedOf'[e] \in Seq(Pointers(entries))
      BY <1>2, <2>1 DEF Trees, Allocated
    <3>2. orderedOf' = [e \in Entries |-> orderedOf'[e]]
      BY DEF Removed, Trees, Allocated
    <3> QED BY <3>1, <3>2
  <2>3. dirOf' = [e \in Entries |-> dirOf'[e]]
    BY DEF Removed, Trees, Allocated
  <2> QED BY <1>2, <2>2, <2>3 DEF Trees, Allocated
<1>5. NoCycle'
  BY <1>2 DEF Trees, NoCycle
<1> HIDE DEF r
<1>6. ASSUME NEW e \in entries, e # p PROVE OrderLinked(e)' /\ LastInDir(e)'
  <2>1. /\ OrderLinked(e) /\ LastInDir(e)
        /\ dirOf'[e] = dirOf[e] /\ orderedOf'[e] = orderedOf[e]
    BY <1>2, <1>6 DEF Trees, Allocated, Linked
  <2>2. OrderLinked(e)'
    BY <1>2, <2>1 DEF OrderLinked
  <2>3. LastInDir(e)'
    BY <1>2, <2>1 DEF LastInDir
  <2> QED BY <2>2, <2>3
<1>7. OrderLinked(p)' /\ LastInDir(p)'
  <2>1. OrderLinked(p) /\ LastInDir(p)
    BY DEF Trees, Linked
  <2>2. OrderLinked(p)'
    BY <1>2, <1>3, <2>1 DEF OrderLinked
  <2>3. LastInDir(p)'
    <3> SUFFICES ASSUME NEW k \in DOMAIN dirOf'[p]
                 PROVE  /\ dirOf'[p][k] \in entries /\ nameOf[dirOf'[p][k]] = k
                        /\ \E i \in DOMAIN r :
                             /\ r[i] = dirOf'[p][k]
                             /\ \A j \in DOMAIN r : j > i /\ r[j] # NilEntry => nameOf[r[j]] # k
      BY <1>2 DEF LastInDir
    <3>1. k \in DOMAIN dirOf[p] /\ k # n /\ dirOf'[p][k] = dirOf[p][k]
      BY <1>3
    <3>2. dirOf[p][k] \in entries /\ nameOf[dirOf[p][k]] = k
      BY <2>1, <3>1 DEF LastInDir
    <3>3. PICK i \in DOMAIN q : /\ q[i] = dirOf[p][k]
                               /\ \A j \in DOMAIN q : j > i /\ q[j] # NilEntry => nameOf[q[j]] # k
      BY <2>1, <3>1 DEF LastInDir
    <3>4. r[i] = dirOf[p][k] /\ \A j \in DOMAIN r : r[j] # NilEntry => r[j] = q[j]
      BY <1>1, <1>3, <3>1, <3>2, <3>3
    <3> QED BY <1>3, <3>1, <3>2, <3>3, <3>4
  <2> QED BY <2>2, <2>3
<1> QED BY <1>2, <1>4, <1>5, <1>6, <1>7 DEF Trees, Linked

(* FixChoice: a case between a choice and its child, in the child's place. *)
LEMMA WrappedTrees ==
    ASSUME Trees, NEW x \in Entries \ entries, NEW e \in entries, NEW n \in DOMAIN dirOf[e],
           Wrapped(e, n, dirOf[e][n], x)
    PROVE  Trees' /\ entries' = entries \cup {x}
<1> DEFINE c == dirOf[e][n]
           q == orderedOf[e]
           r == [i \in DOMAIN q |-> IF q[i] = c THEN x ELSE q[i]]
<1>1. OrderLinked(e) /\ LastInDir(e)
  BY DEF Trees, Linked
<1>2. PICK k \in DOMAIN q : /\ q[k] = c
                           /\ \A j \in DOMAIN q : j > k /\ q[j] # NilEntry => nameOf[q[j]] # n
  BY <1>1 DEF LastInDir
<1>3. /\ c \in entries /\ nameOf[c] = n /\ parentOf[c] = e
      /\ \A j \in DOMAIN q : j # k => q[j] # c
      /\ c # NilEntry /\ x # NilEntry /\ x \notin entries /\ NilEntry \notin entries /\ e # x /\ c # x
      /\ entries \subseteq Entries
  <2>1. c \in entries /\ nameOf[c] = n
    BY <1>1 DEF LastInDir
  <2>2. NilEntry \notin entries /\ entries \subseteq Entries /\ x # NilEntry
    BY NilEntryAssumption DEF Trees, Allocated
  <2>3. parentOf[c] = e /\ \A j \in DOMAIN q : j # k => q[j] # c
    BY <1>1, <1>2, <2>1, <2>2 DEF OrderLinked
  <2> QED BY <2>1, <2>2, <2>3
<1>4. /\ Len(q) \in Nat /\ DOMAIN q = 1..Len(q)
      /\ \A i \in DOMAIN q : q[i] \in Pointers(entries)
  BY <1>3, TreeFacts DEF Trees
<1>5. /\ entries' = entries \cup {x}
      /\ \A a \in Entries : /\ nameOf'[a] = IF a = x THEN n ELSE nameOf[a]
                            /\ parentOf'[a] = IF a = c THEN x ELSE IF a = x THEN e ELSE parentOf[a]
                            /\ a \notin {x, e} => dirOf'[a] = dirOf[a] /\ orderedOf'[a] = orderedOf[a]
      /\ dirOf'[x] = Bind(NoDir, n, c) /\ orderedOf'[x] = <<c>>
      /\ dirOf'[e] = Bind(dirOf[e], n, x) /\ orderedOf'[e] = r
  BY <1>3 DEF Wrapped, Trees, Allocated
<1>6. /\ DOMAIN r = DOMAIN q
      /\ \A i \in DOMAIN q : r[i] = IF i = k THEN x ELSE q[i]
      /\ DOMAIN dirOf'[e] = DOMAIN dirOf[e]
      /\ \A m \in DOMAIN dirOf[e] : dirOf'[e][m] = IF m = n THEN x ELSE dirOf[e][m]
      /\ DOMAIN dirOf'[x] = {n} /\ dirOf'[x][n] = c
  BY <1>2, <1>3, <1>5 DEF Bind, NoDir
<1>7. Allocated'
  <2>1. entries \cup {x} \subseteq Entries /\ IsFiniteSet(entries \cup {x})
    BY <1>3, FS_AddElement DEF Trees, Allocated
  <2>2. nameOf' = [a \in Entries |-> nameOf'[a]] /\ dirOf' = [a \in Entries |-> dirOf'[a]]
    BY DEF Wrapped, Trees, Allocated
  <2>3. parentOf' \in [Entries -> Pointers(entries \cup {x})]
    BY <1>3 DEF Wrapped, Trees, Allocated, Pointers
  <2>4. r \in Seq(Pointers(entries \cup {x}))
    BY <1>4 DEF Pointers
  <2>5. orderedOf' \in [Entries -> Seq(Pointers(entries \cup {x}))]
    <3> HIDE DEF r
    <3>1. orderedOf' = [a \in Entries |-> orderedOf'[a]]
      BY DEF Wrapped, Trees, Allocated
    <3>2. orderedOf \in [Entries -> Seq(Pointers(entries \cup {x}))]
      BY DEF Trees, Allocated, Pointers
    <3>3. <<c>> \in Seq(Pointers(entries \cup {x}))
      BY <1>3 DEF Pointers
    <3>4. \A a \in Entries : orderedOf'[a] \in Seq(Pointers(entries \cup {x}))
      BY <1>5, <2>4, <3>2, <3>3
    <3> QED BY <3>1, <3>4
  <2> QED BY <1>5, <2>1, <2>2, <2>3, <2>5 DEF Allocated
<1> HIDE DEF r, c
<1>8. NoCycle'
  <2> SUFFICES ASSUME NEW S \in SUBSET (entries \cup {x}), S # {}
               PROVE  \E y \in S : parentOf'[y] \notin S
    BY <1>5 DEF NoCycle
  <2> DEFINE T == S \ {x}
  <2>1. \A a \in Entries : parentOf[a] # x
    BY <1>3 DEF Trees, Allocated, Pointers
  <2>2. CASE T = {}
    <3>1. S = {x}
      BY <2>2
    <3> QED BY <1>3, <1>5, <3>1
  <2>3. CASE T # {}
    <3>1. T \in SUBSET entries
      OBVIOUS
    <3>2. PICK y \in T : parentOf[y] \notin T
      BY <2>3, <3>1 DEF Trees, NoCycle
    <3>3. CASE y = c /\ x \in S
      BY <1>3, <1>5, <3>2, <3>3
    <3>4. CASE ~(y = c /\ x \in S)
      <4>1. y \in Entries /\ parentOf[y] \notin S
        BY <1>3, <2>1, <3>2
      <4> QED BY <1>3, <1>5, <3>2, <3>4, <4>1
    <3> QED BY <3>3, <3>4
  <2> QED BY <2>2, <2>3
<1>9. OrderLinked(x)' /\ LastInDir(x)'
  <2>1. DOMAIN <<c>> = {1} /\ <<c>>[1] = c
    OBVIOUS
  <2>2. nameOf'[c] = n /\ parentOf'[c] = x
    BY <1>3, <1>5
  <2>3. OrderLinked(x)'
    BY <1>3, <1>5, <1>6, <2>1, <2>2 DEF OrderLinked
  <2>4. LastInDir(x)'
    <3>1. \A j \in DOMAIN <<c>> : ~(j > 1)
      BY <2>1
    <3> QED BY <1>3, <1>5, <1>6, <2>1, <2>2, <3>1 DEF LastInDir
  <2> QED BY <2>3, <2>4
<1>10. \A a \in entries : nameOf'[a] = nameOf[a] /\ (a # c => parentOf'[a] = parentOf[a])
  BY <1>3, <1>5
<1>11. ASSUME NEW a \in entries, a # e PROVE OrderLinked(a)' /\ LastInDir(a)'
  <2>1. OrderLinked(a) /\ LastInDir(a)
    BY DEF Trees, Linked
  <2>2. dirOf'[a] = dirOf[a] /\ orderedOf'[a] = orderedOf[a]
    BY <1>3, <1>5, <1>11
  <2>3. \A i \in DOMAIN orderedOf[a] : orderedOf[a][i] \in Pointers(entries) /\ orderedOf[a][i] # c
    BY <1>3, <1>11, <2>1, TreeFacts DEF Trees, OrderLinked
  <2>4. OrderLinked(a)'
    BY <1>5, <1>10, <2>1, <2>2, <2>3 DEF OrderLinked
  <2>5. LastInDir(a)'
    BY <1>5, <1>10, <2>1, <2>2, <2>3 DEF LastInDir, Pointers
  <2> QED BY <2>4, <2>5
<1>12. OrderLinked(e)' /\ LastInDir(e)'
  <2>1. nameOf'[x] = n /\ parentOf'[x] = e
    BY <1>3, <1>5
  <2>2. \A i \in DOMAIN q : i # k /\ q[i] # NilEntry =>
           q[i] \in entries /\ nameOf'[q[i]] = nameOf[q[i]] /\ parentOf'[q[i]] = e /\ nameOf[q[i]] \in DOMAIN dirOf[e]
    BY <1>1, <1>3, <1>10 DEF OrderLinked
  <2>3. OrderLinked(e)'
    <3> SUFFICES ASSUME NEW i \in DOMAIN r, r[i] # NilEntry
                 PROVE /\ r[i] \in entries' /\ parentOf'[r[i]] = e
                       /\ nameOf'[r[i]] \in DOMAIN dirOf'[e]
                       /\ \A j \in DOMAIN r : j # i => r[j] # r[i]
      BY <1>5 DEF OrderLinked
    <3>1. CASE i = k
      <4>1. \A j \in DOMAIN q : j # i => q[j] # x
        BY <1>3, <1>4 DEF Pointers
      <4> QED BY <1>5, <1>6, <2>1, <3>1, <4>1
    <3>2. CASE i # k
      <4>1. q[i] # x /\ \A j \in DOMAIN q : j # i => q[j] # q[i]
        BY <1>1, <1>3, <1>4, <1>6, <3>2 DEF OrderLinked, Pointers
      <4> QED BY <1>5, <1>6, <2>2, <3>2, <4>1
    <3> QED BY <3>1, <3>2
  <2>4. LastInDir(e)'
    <3> SUFFICES ASSUME NEW m \in DOMAIN dirOf[e]
                 PROVE  /\ dirOf'[e][m] \in entries' /\ nameOf'[dirOf'[e][m]] = m
                        /\ \E i \in DOMAIN r :
                             /\ r[i] = dirOf'[e][m]
                             /\ \A j \in DOMAIN r : j > i /\ r[j] # NilEntry => nameOf'[r[j]] # m
      BY <1>5, <1>6 DEF LastInDir
    <3>1. CASE m = n
      <4>1. \A j \in DOMAIN r : j > k /\ r[j] # NilEntry => nameOf'[r[j]] # m
        BY <1>2, <1>4, <1>6, <2>2, <3>1
      <4> QED BY <1>5, <1>6, <2>1, <3>1, <4>1
    <3>2. CASE m # n
      <4>1. dirOf[e][m] \in entries /\ nameOf[dirOf[e][m]] = m
        BY <1>1 DEF LastInDir
      <4>2. PICK i \in DOMAIN q : /\ q[i] = dirOf[e][m]
                                 /\ \A j \in DOMAIN q : j > i /\ q[j] # NilEntry => nameOf[q[j]] # m
        BY <1>1 DEF LastInDir
      <4>3. i # k
        BY <1>2, <1>3, <3>2, <4>1, <4>2 DEF c
      <4>4. \A j \in DOMAIN r : j > i /\ r[j] # NilEntry => nameOf'[r[j]] # m
        BY <1>6, <2>1, <2>2, <3>2, <4>2
      <4> QED BY <1>5, <1>6, <1>10, <3>2, <4>1, <4>2, <4>3, <4>4
    <3> QED BY <3>1, <3>2
  <2> QED BY <2>3, <2>4
<1> QED BY <1>5, <1>7, <1>8, <1>9, <1>11, <1>12 DEF Trees, Linked
----------------------------------------------------------------------------
(* Without a cycle every entry has a root above it.                        *)
Deeper(S) == S \cup ChildrenOf(S)
Levels(f) ==
    f = [n \in 0..Cardinality(entries) |->
           IF n = 0 THEN Parentless ELSE LET above == f[n - 1] IN above \cup ChildrenOf(above)]

LEMMA LevelsExist ==
    ASSUME IsFiniteSet(entries)
    PROVE  \E f : Levels(f) /\ UnderRoots = f[Cardinality(entries)]
<1> DEFINE X == SUBSET entries
           N == Cardinality(entries)
           step == [i \in 1..N |-> [S \in X |-> Deeper(S)]]
<1>1. N \in Nat /\ Parentless \in X
  BY FS_CardinalityType DEF Parentless
<1>2. step \in [1..N -> [X -> X]]
  BY DEF Deeper, ChildrenOf
<1> HIDE DEF X, N
<1>3. PICK g \in [0..N -> X] : g[0] = Parentless /\ \A i \in 1..N : g[i] = step[i][g[i - 1]]
  <2> HIDE DEF step
  <2> QED BY <1>1, <1>2, RecursionExists
<1>4. ASSUME NEW i \in 1..N PROVE g[i] = Deeper(g[i - 1])
  <2>1. i - 1 \in 0..N
    BY <1>1
  <2> QED BY <1>3, <2>1
<1> HIDE DEF step
<1>5. Levels(g)
  <2> DEFINE h == [n \in 0..N |-> IF n = 0 THEN Parentless ELSE LET above == g[n - 1] IN above \cup ChildrenOf(above)]
  <2>1. ASSUME NEW i \in 0..N PROVE h[i] = g[i]
    <3>1. CASE i = 0
      BY <1>3, <3>1
    <3>2. CASE i # 0
      <4>1. i \in 1..N
        BY <1>1, <3>2
      <4> QED BY <1>4, <3>2, <4>1 DEF Deeper
    <3> QED BY <3>1, <3>2
  <2>2. h = [i \in 0..N |-> h[i]] /\ g = [i \in 0..N |-> g[i]]
    BY <1>3
  <2> HIDE DEF h
  <2>3. h = g
    BY <2>1, <2>2
  <2> QED BY <2>3 DEF h, Levels, N
<1> QED BY <1>5 DEF Levels, UnderRoots

LEMMA AllUnderRoots ==
    ASSUME IsFiniteSet(entries), NoCycle
    PROVE  UnderRoots = entries
<1> DEFINE N == Cardinality(entries)
<1>1. N \in Nat
  BY FS_CardinalityType
<1>2. PICK f : Levels(f) /\ UnderRoots = f[N]
  BY LevelsExist
<1>3. f[0] = Parentless /\ \A i \in 1..N : f[i] = Deeper(f[i - 1])
  <2>1. f = [n \in 0..N |-> IF n = 0 THEN Parentless ELSE Deeper(f[n - 1])]
    BY <1>2 DEF Levels, Deeper
  <2> HIDE DEF N
  <2>2. 0 \in 0..N /\ \A i \in 1..N : i \in 0..N /\ i # 0
    BY <1>1
  <2> QED BY <2>1, <2>2
<1> DEFINE Reaches(n) == f[n] \in SUBSET entries /\ Parentless \subseteq f[n] /\ (f[n] = entries \/ Cardinality(f[n]) >= n)
           T == {n \in Nat : n <= N => Reaches(n)}
<1> HIDE DEF N
<1>4. 0 \in T
  <2>1. f[0] \in SUBSET entries
    BY <1>3 DEF Parentless
  <2>2. Cardinality(f[0]) \in Nat
    BY <2>1, FS_Subset, FS_CardinalityType
  <2> QED BY <1>3, <2>1, <2>2
<1>5. ASSUME NEW n \in T PROVE n + 1 \in T
  <2> SUFFICES ASSUME n + 1 <= N PROVE Reaches(n + 1)
    OBVIOUS
  <2>1. n + 1 \in 1..N /\ n + 1 - 1 = n /\ n \in Nat
    BY <1>1
  <2>2. Reaches(n)
    BY <1>1
  <2>3. f[n + 1] = Deeper(f[n])
    BY <1>3, <2>1
  <2>4. f[n + 1] \in SUBSET entries /\ f[n] \subseteq f[n + 1]
    BY <2>2, <2>3 DEF Deeper, ChildrenOf
  <2>5. CASE f[n] = entries
    BY <2>2, <2>4, <2>5
  <2>6. CASE f[n] # entries
    <3>1. PICK x \in entries \ f[n] : parentOf[x] \notin entries \ f[n]
      <4>1. entries \ f[n] \in SUBSET entries /\ entries \ f[n] # {}
        BY <2>2, <2>6
      <4> QED BY <4>1 DEF NoCycle
    <3>2. parentOf[x] \in entries
      BY <2>2, <3>1 DEF Parentless
    <3>3. x \in f[n + 1]
      BY <2>3, <3>1, <3>2 DEF Deeper, ChildrenOf
    <3>4. IsFiniteSet(f[n]) /\ IsFiniteSet(f[n + 1]) /\ Cardinality(f[n]) \in Nat /\ Cardinality(f[n + 1]) \in Nat
      BY <2>2, <2>4, FS_Subset, FS_CardinalityType
    <3>5. Cardinality(f[n] \cup {x}) = Cardinality(f[n]) + 1
      BY <3>1, <3>4, FS_AddElement
    <3>6. Cardinality(f[n] \cup {x}) <= Cardinality(f[n + 1])
      BY <2>4, <3>3, <3>4, FS_Subset
    <3>7. Cardinality(f[n + 1]) >= n + 1
      BY <2>1, <2>2, <2>6, <3>4, <3>5, <3>6
    <3> QED BY <2>2, <2>4, <3>7
  <2> QED BY <2>5, <2>6
<1>6. N \in T
  <2>1. T \in SUBSET Nat
    OBVIOUS
  <2> HIDE DEF T
  <2> QED BY <1>1, <1>4, <1>5, <2>1, SetInduction
<1>7. Reaches(N)
  BY <1>1, <1>6
<1>8. f[N] = entries
  <2>1. Cardinality(f[N]) <= N /\ Cardinality(f[N]) \in Nat
    BY <1>7, FS_Subset, FS_CardinalityType DEF N
  <2>2. CASE Cardinality(f[N]) >= N
    <3>1. Cardinality(f[N]) = Cardinality(entries)
      BY <1>1, <2>1, <2>2 DEF N
    <3> QED BY <1>7, <3>1, FS_Subset
  <2> QED BY <1>7, <2>2
<1> QED BY <1>2, <1>8

(* What the invariant is for.                                              *)
LEMMA TreesAreLinked ==
    ASSUME Trees
    PROVE  EntriesLinked
BY AllUnderRoots DEF Trees, Allocated, Linked, EntriesLinked
----------------------------------------------------------------------------
(* Steps that change no link and make no entry.                            *)

LEMMA TreesStay ==
    ASSUME Trees, UNCHANGED <<entries, nameOf, parentOf, dirOf, orderedOf>>
    PROVE  Trees'
<1>1. Allocated'
  BY DEF Trees, Allocated
<1>2. Linked'
  <2>1. ASSUME NEW e \in entries PROVE OrderLinked(e)' /\ LastInDir(e)'
    <3>1. OrderLinked(e) /\ LastInDir(e)
      BY DEF Trees, Linked
    <3>2. OrderLinked(e)'
      BY <3>1 DEF OrderLinked
    <3>3. LastInDir(e)'
      BY <3>1 DEF LastInDir
    <3> QED BY <3>2, <3>3
  <2> QED BY <2>1 DEF Linked
<1>3. NoCycle'
  BY DEF Trees, NoCycle
<1> QED BY <1>1, <1>2, <1>3 DEF Trees

LEMMA EntryStays ==
    ASSUME EntriesInv, UNCHANGED <<links, rpcOf, ioOf, extraOf, roots>>, found' \in Pointers(entries),
           OnEntries(work', entries)
    PROVE  EntriesInv'
<1>1. Trees'
  <2>1. UNCHANGED <<entries, nameOf, parentOf, dirOf, orderedOf>>
    BY DEF links
  <2> QED BY <2>1, TreesStay DEF EntriesInv
<1>2. Referring'
  BY DEF EntriesInv, Referring, links
<1> QED BY <1>1, <1>2 DEF EntriesInv, links

(* The first task is on entries, and what replaces it has to be.           *)
LEMMA Doing ==
    ASSUME EntriesInv, NEW op, Now(op)
    PROVE  /\ work # <<>> /\ work[1].e \in entries /\ work[1].x \in entries
           /\ entries \subseteq Entries /\ NilEntry \notin entries
           /\ parentOf[work[1].e] \in Pointers(entries)
BY FirstTask, TreeFacts DEF EntriesInv, Now, Trees, Allocated

LEMMA EntryStep ==
    ASSUME EntriesInv, NEW op, Now(op), UNCHANGED <<links, rpcOf, ioOf, extraOf, roots>>, found' \in Pointers(entries),
           NEW tasks, OnEntries(tasks, entries), Later(tasks)
    PROVE  EntriesInv'
<1>1. OnEntries(work', entries)
  BY Doing, Replaces DEF EntriesInv
<1> QED BY <1>1, EntryStays

LEMMA BodyTask ==
    ASSUME NEW E, NEW st, NEW e \in E, NEW body
    PROVE  OnEntries(Body(st, e, body), E)
<1> DEFINE t == [Task("build", e, e) EXCEPT !.body = [body EXCEPT !.subs = st.subs]]
<1>1. t.e = e /\ t.x = e
  BY DEF Task
<1> HIDE DEF t
<1>2. OnEntries(<<t>>, E)
  BY <1>1, OneTask
<1> QED BY <1>2 DEF Body, t

LEMMA RestTask ==
    ASSUME EntriesInv, Building
    PROVE  OnEntries(TheRest, entries)
<1>1. work[1].e \in entries /\ work[1].x \in entries
  BY Doing DEF Building
<1> DEFINE t == [work[1] EXCEPT !.body.subs = Tail(@)]
<1>2. t.e = work[1].e /\ t.x = work[1].x
  OBVIOUS
<1> HIDE DEF t
<1>3. OnEntries(<<t>>, entries)
  BY <1>1, <1>2, OneTask
<1> QED BY <1>3 DEF TheRest, t

LEMMA BuildDoneStep ==
    ASSUME EntriesInv, BuildDone
    PROVE  EntriesInv'
BY EntryStep, NoTask DEF BuildDone, EntriesInv, Referring

LEMMA BuildNothingStep ==
    ASSUME EntriesInv, BuildNothing
    PROVE  EntriesInv'
BY EntryStep, RestTask DEF BuildNothing, Building, EntriesInv, Referring

LEMMA BuildUsesStep ==
    ASSUME EntriesInv, BuildUses
    PROVE  EntriesInv'
<1>1. PICK tasks : OnEntries(tasks, entries) /\ Later(tasks)
  <2> DEFINE t == work[1]
             g == findGrouping(t.body, Current)
             body == [t.body EXCEPT !.seen = @ \cup {g.st}, !.scopes = Append(@, g.st),
                                    !.group = TRUE, !.mod = g.mod]
  <2>1. Building /\ (Later(TheRest) \/ Later(Body(g.st, t.e, body) \o TheRest))
    BY DEF BuildUses
  <2>2. OnEntries(TheRest, entries) /\ t.e \in entries
    BY <2>1, RestTask, Doing DEF Building
  <2> HIDE DEF body, g
  <2>3. OnEntries(Body(g.st, t.e, body), entries)
    BY <2>2, BodyTask
  <2>4. OnEntries(Body(g.st, t.e, body) \o TheRest, entries)
    BY <2>2, <2>3, TasksJoined
  <2> QED BY <2>1, <2>2, <2>4
<1>2. Now("build") /\ UNCHANGED <<links, rpcOf, ioOf, extraOf, roots, found>>
  BY DEF BuildUses, Building
<1>3. found' \in Pointers(entries)
  BY <1>2 DEF EntriesInv, Referring
<1> QED BY <1>1, <1>2, <1>3, EntryStep
(* Find.                                                                   *)
LEMMA GoOnStep ==
    ASSUME EntriesInv, NEW op, Now(op), NEW e \in entries, GoOn(e)
    PROVE  EntriesInv'
<1>1. OnEntries(<<Walk(e, Tail(work[1].parts), FALSE)>>, entries)
  BY OneTask DEF Walk, Task
<1> QED BY <1>1, EntryStep DEF GoOn, EntriesInv, Referring

LEMMA StopStep ==
    ASSUME EntriesInv, NEW op, Now(op), NEW e \in Pointers(entries), Stop(e)
    PROVE  EntriesInv'
BY NoTask, EntryStep DEF Stop

LEMMA ClimbSteps ==
    ASSUME EntriesInv, ClimbUp \/ ResolveHere \/ ResolveNothing
    PROVE  EntriesInv'
<1>0. found \in Pointers(entries)
  BY DEF EntriesInv, Referring
<1>1. CASE ClimbUp
  <2> DEFINE t == [Task("climb", parentOf[work[1].e], parentOf[work[1].e]) EXCEPT !.parts = work[1].parts]
  <2>1. parentOf[work[1].e] \in entries
    BY <1>1, Doing DEF ClimbUp, Pointers
  <2>2. OnEntries(<<t>>, entries)
    BY <2>1, OneTask DEF Task
  <2>3. Now("climb") /\ Later(<<t>>) /\ UNCHANGED <<links, rpcOf, ioOf, extraOf, roots, found>>
    BY <1>1 DEF ClimbUp
  <2> HIDE DEF t
  <2> QED BY <1>0, <2>2, <2>3, EntryStep
<1>2. CASE ResolveHere
  <2> DEFINE t == Walk(work[1].e, work[1].parts, TRUE)
  <2>1. work[1].e \in entries
    BY <1>2, Doing DEF ResolveHere, AtRoot
  <2>2. OnEntries(<<t>>, entries)
    BY <2>1, OneTask DEF Walk, Task
  <2>3. Now("climb") /\ Later(<<t>>) /\ UNCHANGED <<links, rpcOf, ioOf, extraOf, roots, found>>
    BY <1>2 DEF ResolveHere, AtRoot
  <2> HIDE DEF t
  <2> QED BY <1>0, <2>2, <2>3, EntryStep
<1>3. CASE ResolveNothing
  <2>1. Now("climb") /\ Later(<<>>) /\ UNCHANGED <<links, rpcOf, ioOf, extraOf, roots>> /\ found' \in Pointers(entries)
    BY <1>3 DEF ResolveNothing, AtRoot, Pointers
  <2> QED BY <2>1, NoTask, EntryStep
<1> QED BY <1>1, <1>2, <1>3

LEMMA WalkSteps ==
    ASSUME EntriesInv, Walked \/ WalkUp \/ WalkHere \/ WalkDown \/ WalkIO \/ WalkNowhere
    PROVE  EntriesInv'
<1>1. /\ Now("walk") /\ work[1].e \in entries /\ work[1].e \in Entries
      /\ parentOf[work[1].e] \in Pointers(entries) /\ NilEntry \in Pointers(entries)
  <2>1. Now("walk")
    BY DEF Walked, WalkUp, WalkHere, WalkDown, WalkIO, ToIO, WalkNowhere, Walking
  <2> QED BY <2>1, Doing DEF Pointers
<1>2. CASE Walked
  BY <1>1, <1>2, StopStep DEF Walked, Pointers
<1>3. CASE WalkUp
  BY <1>1, <1>3, StopStep, GoOnStep DEF WalkUp, Pointers
<1>4. CASE WalkHere
  BY <1>1, <1>4, GoOnStep DEF WalkHere
<1>5. CASE WalkDown
  <2>1. dirOf[work[1].e][Part] \in entries
    BY <1>1, <1>5 DEF WalkDown, EntriesInv, Trees, Linked, LastInDir
  <2> QED BY <1>1, <1>5, <2>1, GoOnStep DEF WalkDown
<1>6. CASE WalkIO
  <2>1. ioOf[rpcOf[work[1].e]][Part] \in entries
    <3>1. rpcOf[work[1].e] \in Entries /\ Part \in Sides /\ ioOf[rpcOf[work[1].e]][Part] # NilEntry
      BY <1>1, <1>6 DEF WalkIO, ToIO, EntriesInv, Referring, Pointers, Trees, Allocated
    <3> QED BY <3>1 DEF EntriesInv, Referring, Pointers
  <2> QED BY <1>1, <1>6, <2>1, GoOnStep DEF WalkIO
<1>7. CASE WalkNowhere
  BY <1>1, <1>7, StopStep DEF WalkNowhere
<1> QED BY <1>2, <1>3, <1>4, <1>5, <1>6, <1>7

----------------------------------------------------------------------------
(* A call.                                                                 *)
LEMMA FindTaskOn ==
    ASSUME NEW e, NEW path
    PROVE  FindTask(e, path).e = e /\ FindTask(e, path).x = e
BY DEF FindTask, Task

LEMMA FindEntryStep ==
    ASSUME EntriesInv, NEW e \in entries, NEW path, FindEntry(e, path)
    PROVE  EntriesInv'
<1>1. OnEntries(<<FindTask(e, path)>>, entries)
  BY FindTaskOn, OneTask
<1>2. work' = <<FindTask(e, path)>> /\ UNCHANGED <<links, rpcOf, ioOf, extraOf, roots, found>>
  BY DEF FindEntry
<1> QED BY <1>1, <1>2, EntryStays DEF EntriesInv, Referring

LEMMA FixChoiceStep ==
    ASSUME EntriesInv, NEW e \in entries, FixChoice(e)
    PROVE  EntriesInv'
<1>1. OnEntries(<<Task("fix", e, e)>>, entries)
  BY OneTask DEF Task
<1>2. work' = <<Task("fix", e, e)>> /\ UNCHANGED <<links, rpcOf, ioOf, extraOf, roots, found>>
  BY DEF FixChoice
<1> QED BY <1>1, <1>2, EntryStays DEF EntriesInv, Referring

LEMMA Paired ==
    ASSUME NEW n \in Nat, NEW i \in 1..(2 * n)
    PROVE  (i + 1) \div 2 \in 1..n
OBVIOUS

LEMMA ExtraTypes ==
    ASSUME EntriesInv, NEW e \in entries, NEW kw \in ExtraKinds
    PROVE  /\ e \in Entries /\ extraOf[e][kw] \in Seq(entries) /\ Len(extraOf[e][kw]) \in Nat
           /\ \A i \in 1..Len(extraOf[e][kw]) : extraOf[e][kw][i] \in entries
<1>1. e \in Entries /\ extraOf[e][kw] \in Seq(entries)
  BY DEF EntriesInv, Trees, Allocated, Referring
<1> QED BY <1>1, LenProperties, ElementOfSeq
(* Extra entries are kept apart from the links.                            *)
LEMMA ExtraStep ==
    ASSUME EntriesInv, UNCHANGED <<links, rpcOf, ioOf, roots, found>>, NEW e \in entries, NEW kw \in ExtraKinds,
           NEW q \in Seq(entries), extraOf' = [extraOf EXCEPT ![e][kw] = q], OnEntries(work', entries)
    PROVE  EntriesInv'
<1>1. extraOf' \in [Entries -> [ExtraKinds -> Seq(entries)]]
  BY DEF EntriesInv, Referring
<1>2. entries' = entries
  BY DEF links
<1>3. Referring'
  BY <1>1, <1>2 DEF EntriesInv, Referring
<1>4. Trees'
  <2>1. UNCHANGED <<entries, nameOf, parentOf, dirOf, orderedOf>>
    BY DEF links
  <2> QED BY <2>1, TreesStay DEF EntriesInv
<1> QED BY <1>2, <1>3, <1>4 DEF EntriesInv

LEMMA AugmentStep ==
    ASSUME EntriesInv, NEW e \in entries, NEW addErrors, Augment(e, addErrors)
    PROVE  EntriesInv'
<1> DEFINE A == extraOf[e]["augment"]
           task(i) == LET a == A[(i + 1) \div 2] IN
                        IF i % 2 = 1 THEN FindTask(a, nodeOf[a].path)
                        ELSE [Task("graft", e, a) EXCEPT !.flag = addErrors]
           w == [i \in 1..(2 * Len(A)) |-> task(i)]
<1>1. "augment" \in ExtraKinds
  BY DEF ExtraKinds
<1>2. Len(A) \in Nat /\ 2 * Len(A) \in Nat /\ \A i \in 1..Len(A) : A[i] \in entries
  BY <1>1, ExtraTypes
<1> HIDE DEF A
<1>3. ASSUME NEW i \in 1..(2 * Len(A)) PROVE task(i).e \in entries /\ task(i).x \in entries
  <2>1. A[(i + 1) \div 2] \in entries
    BY <1>2, Paired
  <2>2. CASE i % 2 = 1
    BY <2>1, <2>2, FindTaskOn
  <2>3. CASE i % 2 # 1
    BY <2>1, <2>3 DEF Task
  <2> QED BY <2>2, <2>3
<1>4. OnEntries(w, entries)
  <2> HIDE DEF task
  <2> QED BY <1>2, <1>3, TaskList
<1>5. work' = w /\ UNCHANGED <<links, rpcOf, ioOf, roots, found>> /\ extraOf' = [extraOf EXCEPT ![e]["augment"] = <<>>]
  BY DEF Augment, A
<1>6. <<>> \in Seq(entries)
  OBVIOUS
<1> HIDE DEF w
<1> QED BY <1>1, <1>4, <1>5, <1>6, ExtraStep

LEMMA ApplyDeviateStep ==
    ASSUME EntriesInv, NEW e \in entries, NEW ignoreNotSupported, ApplyDeviate(e, ignoreNotSupported)
    PROVE  EntriesInv'
<1> DEFINE D == extraOf[e]["deviation"]
           task(i) == LET d == D[(i + 1) \div 2] IN
                        IF i % 2 = 1 THEN FindTask(e, nodeOf[d].path)
                        ELSE [Task("deviation", e, d) EXCEPT !.flag = ignoreNotSupported]
           w == [i \in 1..(2 * Len(D)) |-> task(i)]
<1>1. Len(D) \in Nat /\ 2 * Len(D) \in Nat /\ \A i \in 1..Len(D) : D[i] \in entries
  BY ExtraTypes DEF ExtraKinds
<1>2. work' = w /\ UNCHANGED <<links, rpcOf, ioOf, extraOf, roots, found>>
  BY DEF ApplyDeviate
<1> HIDE DEF D
<1>3. ASSUME NEW i \in 1..(2 * Len(D)) PROVE task(i).e \in entries /\ task(i).x \in entries
  <2>1. D[(i + 1) \div 2] \in entries
    BY <1>1, Paired
  <2>2. CASE i % 2 = 1
    BY <2>1, <2>2, FindTaskOn
  <2>3. CASE i % 2 # 1
    BY <2>1, <2>3 DEF Task
  <2> QED BY <2>2, <2>3
<1>4. OnEntries(w, entries)
  <2> HIDE DEF task
  <2> QED BY <1>1, <1>3, TaskList
<1> HIDE DEF w
<1> QED BY <1>2, <1>4, EntryStays DEF EntriesInv, Referring

LEMMA PostponeStep ==
    ASSUME EntriesInv, Postpone
    PROVE  EntriesInv'
<1> DEFINE e == work[1].e
           q == Append(extraOf[e]["augment"], work[1].x)
<1>1. Now("graft") /\ Later(<<>>) /\ UNCHANGED <<links, rpcOf, ioOf, roots, found>>
  BY DEF Postpone
<1>2. e \in entries /\ work[1].x \in entries /\ "augment" \in ExtraKinds /\ work # <<>>
  BY <1>1, Doing DEF ExtraKinds
<1>3. q \in Seq(entries)
  BY <1>2, ExtraTypes, AppendProperties
<1>4. extraOf' = [extraOf EXCEPT ![e]["augment"] = q]
  BY DEF Postpone
<1>5. OnEntries(work', entries)
  BY <1>1, <1>2, NoTask, Replaces DEF EntriesInv
<1> HIDE DEF e, q
<1> QED BY <1>1, <1>2, <1>3, <1>4, <1>5, ExtraStep

LEMMA ChildTasks ==
    ASSUME EntriesInv, NEW x \in entries, NEW E, NEW a \in E, x \in E, NEW op
    PROVE  OnEntries([i \in DOMAIN orderedOf[x] |-> [Task(op, a, x) EXCEPT !.at = i]], E)
<1> DEFINE w == [i \in DOMAIN orderedOf[x] |-> [Task(op, a, x) EXCEPT !.at = i]]
<1>1. Len(orderedOf[x]) \in Nat /\ DOMAIN orderedOf[x] = 1..Len(orderedOf[x])
  BY TreeFacts DEF EntriesInv, Trees, Allocated
<1>2. \A i \in 1..Len(orderedOf[x]) : w[i].e \in E /\ w[i].x \in E
  BY <1>1 DEF Task
<1>3. w = [i \in 1..Len(orderedOf[x]) |-> w[i]]
  BY <1>1
<1> HIDE DEF w
<1>4. OnEntries(w, E)
  BY <1>1, <1>2, <1>3, TaskList
<1> QED BY <1>4 DEF w

LEMMA GraftStep ==
    ASSUME EntriesInv, Graft
    PROVE  EntriesInv'
<1> DEFINE x == work[1].x
           q == Append(extraOf[found]["augmented"], x)
           w == [i \in DOMAIN orderedOf[x] |-> [Task("merge", found, x) EXCEPT !.at = i]]
<1>1. Now("graft") /\ Later(w) /\ UNCHANGED <<links, rpcOf, ioOf, roots, found>> /\ found # NilEntry
  BY DEF Graft
<1>2. x \in entries /\ "augmented" \in ExtraKinds /\ work # <<>>
  BY <1>1, Doing DEF ExtraKinds
<1>3. found \in entries
  BY <1>1 DEF EntriesInv, Referring, Pointers
<1>4. q \in Seq(entries)
  BY <1>2, <1>3, ExtraTypes, AppendProperties
<1>5. extraOf' = [extraOf EXCEPT ![found]["augmented"] = q]
  BY DEF Graft
<1>6. OnEntries(w, entries)
  BY <1>2, <1>3, ChildTasks
<1> HIDE DEF w, x, q
<1>7. OnEntries(work', entries)
  BY <1>1, <1>2, <1>6, Replaces DEF EntriesInv
<1> QED BY <1>1, <1>2, <1>3, <1>4, <1>5, <1>7, ExtraStep
LEMMA DoneSteps ==
    ASSUME EntriesInv,
           CopyNothing \/ MergeDuplicate \/ FixNothing \/ DeviateNothing \/ DeviateUnknown
             \/ DeviateAddOrReplace \/ DeviateDelete
    PROVE  EntriesInv'
<1>1. UNCHANGED <<links, rpcOf, ioOf, extraOf, roots, found>> /\ Later(<<>>) /\ \E op : Now(op)
  BY DEF CopyNothing, MergeDuplicate, Copying, FixNothing, DeviateNothing, DeviateUnknown, Deviating,
         DeviateAddOrReplace, DeviateDelete
<1>2. found' \in Pointers(entries)
  BY <1>1 DEF EntriesInv, Referring
<1> QED BY <1>1, <1>2, NoTask, EntryStep

LEMMA FixChildrenStep ==
    ASSUME EntriesInv, FixChildren
    PROVE  EntriesInv'
<1> DEFINE e == work[1].e
           fix(i) == IF orderedOf[e][i] = NilEntry THEN Task("nothing", e, e)
                     ELSE Task("fix", orderedOf[e][i], orderedOf[e][i])
           w == [i \in DOMAIN orderedOf[e] |-> fix(i)]
<1>1. Now("fix") /\ Later(w) /\ UNCHANGED <<links, rpcOf, ioOf, extraOf, roots, found>>
  BY DEF FixChildren
<1>2. e \in entries /\ e \in Entries
  BY <1>1, Doing
<1>3. /\ Len(orderedOf[e]) \in Nat /\ DOMAIN orderedOf[e] = 1..Len(orderedOf[e])
      /\ \A i \in DOMAIN orderedOf[e] : orderedOf[e][i] \in Pointers(entries)
  BY <1>2, TreeFacts DEF EntriesInv, Trees
<1>4. \A i \in 1..Len(orderedOf[e]) : fix(i).e \in entries /\ fix(i).x \in entries
  BY <1>2, <1>3 DEF Pointers, Task
<1>5. OnEntries(w, entries)
  <2> HIDE DEF fix
  <2> QED BY <1>3, <1>4, TaskList
<1> HIDE DEF w
<1> QED BY <1>1, <1>5, EntryStep DEF EntriesInv, Referring

LEMMA StartDeviationStep ==
    ASSUME EntriesInv, StartDeviation
    PROVE  EntriesInv'
<1>1. Now("deviation") /\ UNCHANGED <<links, rpcOf, ioOf, extraOf, roots, found>> /\ found' \in Pointers(entries)
  BY DEF StartDeviation, EntriesInv, Referring
<1>2. CASE found = NilEntry
  <2>1. Later(<<>>)
    BY <1>2 DEF StartDeviation
  <2> QED BY <1>1, <2>1, NoTask, EntryStep
<1>3. CASE found # NilEntry
  <2> DEFINE t == work[1]
             D == extraOf[t.x]["deviate"]
             n == Len(D)
             deviate(i) == [Task("deviate", found, D[1 + ((i - 1) % n)])
                              EXCEPT !.how = Hows[1 + (i - 1) \div n], !.flag = t.flag]
             w == [i \in 1..(5 * n) |-> deviate(i)]
  <2>1. found \in entries /\ t.x \in entries
    BY <1>1, <1>3, Doing DEF EntriesInv, Referring, Pointers
  <2>2. n \in Nat /\ 5 * n \in Nat /\ \A i \in 1..n : D[i] \in entries
    BY <2>1, ExtraTypes DEF ExtraKinds
  <2>3. Later(w)
    BY <1>3 DEF StartDeviation
  <2> HIDE DEF n
  <2>4. ASSUME NEW i \in 1..(5 * n) PROVE deviate(i).e \in entries /\ deviate(i).x \in entries
    <3>1. n > 0 /\ i - 1 \in Nat
      BY <2>2
    <3>2. 1 + ((i - 1) % n) \in 1..n
      BY <2>2, <3>1
    <3>3. D[1 + ((i - 1) % n)] \in entries
      BY <2>2, <3>2
    <3> QED BY <2>1, <3>3 DEF Task
  <2>5. OnEntries(w, entries)
    <3> HIDE DEF deviate
    <3> QED BY <2>2, <2>4, TaskList
  <2> HIDE DEF w
  <2> QED BY <1>1, <2>3, <2>5, EntryStep
<1> QED BY <1>2, <1>3

(* delete.                                                                 *)
LEMMA DeviateNotSupportedStep ==
    ASSUME EntriesInv, DeviateNotSupported
    PROVE  EntriesInv'
<1> DEFINE p == parentOf[work[1].e]
<1>1. /\ Now("deviate") /\ Later(<<>>) /\ UNCHANGED <<rpcOf, ioOf, extraOf, roots, found>>
      /\ UNCHANGED links \/ (p # NilEntry /\ Removed(p, nameOf[work[1].e]))
  BY DEF DeviateNotSupported, Deviating
<1>2. CASE UNCHANGED links
  <2>1. found' \in Pointers(entries)
    BY <1>1 DEF EntriesInv, Referring
  <2> QED BY <1>1, <1>2, <2>1, NoTask, EntryStep
<1>3. CASE p # NilEntry /\ Removed(p, nameOf[work[1].e])
  <2>1. p \in entries /\ work # <<>>
    BY <1>1, <1>3, Doing DEF Pointers
  <2>2. Trees' /\ entries' = entries
    BY <1>3, <2>1, RemovedTrees DEF EntriesInv, Removed
  <2>3. Referring'
    BY <1>1, <2>2 DEF EntriesInv, Referring
  <2>4. OnEntries(work', entries)
    BY <1>1, <2>1, NoTask, Replaces DEF EntriesInv
  <2> QED BY <2>2, <2>3, <2>4 DEF EntriesInv
<1> QED BY <1>1, <1>2, <1>3

----------------------------------------------------------------------------
(* Steps that make an entry.                                               *)

LEMMA EntryBorn ==
    ASSUME EntriesInv, NEW x \in Entries \ entries, entries' = entries \cup {x}, Trees',
           rpcOf' \in [Entries -> Pointers(entries')], ioOf' \in [Entries -> [Sides -> Pointers(entries')]],
           extraOf' \in [Entries -> [ExtraKinds -> Seq(entries')]], \A m \in DOMAIN roots' : roots'[m] \in entries',
           UNCHANGED found, OnEntries(work', entries')
    PROVE  EntriesInv'
<1>1. found' \in Pointers(entries')
  BY DEF EntriesInv, Referring, Pointers
<1> QED BY <1>1 DEF EntriesInv, Referring

(* What there was is among what there is.                                  *)
LEMMA Wider ==
    ASSUME EntriesInv, NEW F, entries \subseteq F
    PROVE  /\ Pointers(entries) \subseteq Pointers(F) /\ NilEntry \in Pointers(F)
           /\ rpcOf \in [Entries -> Pointers(F)]
           /\ ioOf \in [Entries -> [Sides -> Pointers(F)]]
           /\ extraOf \in [Entries -> [ExtraKinds -> Seq(F)]]
           /\ NoIO \in [Sides -> Pointers(F)] /\ NoExtra \in [ExtraKinds -> Seq(F)]
           /\ \A m \in DOMAIN roots : roots[m] \in F
<1>1. Pointers(entries) \subseteq Pointers(F) /\ NilEntry \in Pointers(F)
  BY DEF Pointers
<1>2. Seq(entries) \subseteq Seq(F) /\ <<>> \in Seq(F)
  OBVIOUS
<1>3. ioOf \in [Entries -> [Sides -> Pointers(F)]] /\ rpcOf \in [Entries -> Pointers(F)]
  BY <1>1 DEF EntriesInv, Referring
<1>4. extraOf \in [Entries -> [ExtraKinds -> Seq(F)]]
  BY <1>2 DEF EntriesInv, Referring
<1>5. NoIO \in [Sides -> Pointers(F)] /\ NoExtra \in [ExtraKinds -> Seq(F)]
  BY <1>1, <1>2 DEF NoIO, NoExtra
<1> QED BY <1>1, <1>3, <1>4, <1>5 DEF EntriesInv, Referring

LEMMA WrapCaseStep ==
    ASSUME EntriesInv, WrapCase
    PROVE  EntriesInv'
<1> DEFINE e == work[1].e
           x == NewEntry
<1>1. Now("fix") /\ CanAllocate /\ UNCHANGED <<roots, work, found>>
  BY DEF WrapCase
<1>2. e \in entries /\ x \in Entries \ entries
  BY <1>1, Doing, Fresh DEF EntriesInv, Trees
<1>3. PICK n \in DOMAIN dirOf[e] :
         /\ Wrapped(e, n, dirOf[e][n], x)
         /\ rpcOf' = [rpcOf EXCEPT ![x] = NilEntry]
         /\ ioOf' = [ioOf EXCEPT ![x] = NoIO]
         /\ extraOf' = [extraOf EXCEPT ![x] = NoExtra]
  BY DEF WrapCase, ToWrap
<1> HIDE DEF e, x
<1>4. Trees' /\ entries' = entries \cup {x}
  BY <1>2, <1>3, WrappedTrees DEF EntriesInv
<1>5. /\ rpcOf' \in [Entries -> Pointers(entries')]
      /\ ioOf' \in [Entries -> [Sides -> Pointers(entries')]]
      /\ extraOf' \in [Entries -> [ExtraKinds -> Seq(entries')]]
      /\ \A m \in DOMAIN roots' : roots'[m] \in entries'
  <2> DEFINE F == entries'
  <2>1. entries \subseteq F
    BY <1>4
  <2> HIDE DEF F
  <2> QED BY <1>1, <1>3, <2>1, Wider DEF F
<1>6. OnEntries(work', entries')
  BY <1>1, <1>4, MoreEntries DEF EntriesInv
<1> QED BY <1>1, <1>2, <1>4, <1>5, <1>6, EntryBorn
LEMMA CopyStep ==
    ASSUME EntriesInv, NEW op, Copying(op), CanAllocate, NEW ns,
           Copied(NewEntry, Child(work[1].x, work[1].at), work[1].e, ns),
           Later(CopyTasks(NewEntry, Child(work[1].x, work[1].at))),
           UNCHANGED <<roots, found>>
    PROVE  EntriesInv'
<1> DEFINE x == NewEntry
           e == work[1].e
           c == Child(work[1].x, work[1].at)
<1>1. e \in entries /\ work[1].x \in entries /\ x \in Entries \ entries /\ work # <<>>
  BY Doing, Fresh DEF Copying, EntriesInv, Trees
<1>2. c \in entries /\ c \in Entries
  <2>1. c # NilEntry
    BY DEF Copying
  <2>2. c = orderedOf[work[1].x][work[1].at] /\ InDir(work[1].x, c)
    BY <2>1 DEF Child
  <2>3. c \in entries
    <3>1. LastInDir(work[1].x) /\ nameOf[c] \in DOMAIN dirOf[work[1].x] /\ dirOf[work[1].x][nameOf[c]] = c
      BY <1>1, <2>2 DEF InDir, EntriesInv, Trees, Linked
    <3> HIDE DEF c
    <3> QED BY <3>1 DEF LastInDir
  <2> QED BY <2>3 DEF EntriesInv, Trees, Allocated
<1> HIDE DEF x, e, c
<1>3. /\ Born(x, nameOf[c], e, TRUE)
      /\ rpcOf' = [rpcOf EXCEPT ![x] = rpcOf[c]]
      /\ ioOf' = [ioOf EXCEPT ![x] = NoIO]
      /\ extraOf' = [extraOf EXCEPT ![x] = extraOf[c]]
  BY DEF Copied, x, e, c
<1>4. Trees' /\ entries' = entries \cup {x}
  BY <1>1, <1>3, BornTrees DEF EntriesInv, Pointers
<1> DEFINE F == entries'
<1>5. entries \subseteq F /\ x \in F
  BY <1>4
<1>6. /\ rpcOf' \in [Entries -> Pointers(F)]
      /\ ioOf' \in [Entries -> [Sides -> Pointers(F)]]
      /\ extraOf' \in [Entries -> [ExtraKinds -> Seq(F)]]
      /\ \A m \in DOMAIN roots' : roots'[m] \in F
  <2> HIDE DEF F
  <2> QED BY <1>2, <1>3, <1>5, Wider
<1>7. OnEntries(work', F)
  <2>1. OnEntries(CopyTasks(x, c), F)
    <3> HIDE DEF F
    <3> QED BY <1>2, <1>5, ChildTasks DEF CopyTasks
  <2>2. Later(CopyTasks(x, c)) /\ OnEntries(work, entries)
    BY DEF x, c, EntriesInv
  <2> HIDE DEF F
  <2> QED BY <1>1, <1>5, <2>1, <2>2, Replaces
<1> QED BY <1>1, <1>4, <1>6, <1>7, EntryBorn

LEMMA CopySteps ==
    ASSUME EntriesInv, Copy \/ Merge
    PROVE  EntriesInv'
<1>1. CASE Copy
  BY <1>1, CopyStep DEF Copy
<1>2. CASE Merge
  BY <1>2, CopyStep DEF Merge
<1> QED BY <1>1, <1>2

(* The root of a module.                                                   *)
LEMMA NewRootStep ==
    ASSUME EntriesInv, CanAllocate, NEW m, NewRoot(m, NewEntry), UNCHANGED found,
           OnEntries(work', entries \cup {NewEntry})
    PROVE  EntriesInv'
<1> DEFINE x == NewEntry
<1>1. x \in Entries \ entries
  BY Fresh DEF EntriesInv, Trees
<1> HIDE DEF x
<1>2. /\ Born(x, m, NilEntry, FALSE)
      /\ rpcOf' = [rpcOf EXCEPT ![x] = NilEntry]
      /\ ioOf' = [ioOf EXCEPT ![x] = NoIO]
      /\ extraOf' = [extraOf EXCEPT ![x] = NoExtra]
      /\ roots' = Bind(roots, m, x)
  BY DEF NewRoot, x
<1>3. Trees' /\ entries' = entries \cup {x}
  BY <1>1, <1>2, BornTrees DEF EntriesInv, Pointers
<1> DEFINE F == entries'
<1>4. entries \subseteq F /\ x \in F
  BY <1>3
<1>5. /\ rpcOf' \in [Entries -> Pointers(F)]
      /\ ioOf' \in [Entries -> [Sides -> Pointers(F)]]
      /\ extraOf' \in [Entries -> [ExtraKinds -> Seq(F)]]
      /\ \A k \in DOMAIN roots' : roots'[k] \in F
  <2> HIDE DEF F
  <2> QED BY <1>2, <1>4, Wider DEF Bind
<1>6. OnEntries(work', entries')
  BY <1>3 DEF x
<1> QED BY <1>1, <1>3, <1>5, <1>6, EntryBorn

LEMMA ToEntryStep ==
    ASSUME EntriesInv, NEW m, ToEntry(m)
    PROVE  EntriesInv'
<1>1. CanAllocate /\ NewRoot(m, NewEntry) /\ work' = RootBody(m, NewEntry) /\ UNCHANGED found
  BY DEF ToEntry
<1>2. OnEntries(RootBody(m, NewEntry), entries \cup {NewEntry})
  <2>1. NewEntry \in entries \cup {NewEntry}
    OBVIOUS
  <2> QED BY <2>1, BodyTask DEF RootBody
<1> QED BY <1>1, <1>2, NewRootStep

LEMMA WalkOn ==
    ASSUME NEW E, NEW e \in E, NEW parts, NEW first
    PROVE  OnEntries(<<Walk(e, parts, first)>>, E)
BY OneTask DEF Walk, Task

LEMMA ResolveImportStep ==
    ASSUME EntriesInv, ResolveImport
    PROVE  EntriesInv'
<1>1. Now("climb") /\ UNCHANGED found /\ found \in Pointers(entries) /\ work # <<>>
  BY Doing DEF ResolveImport, AtRoot, EntriesInv, Referring
<1>2. PICK m \in ImportsNamed(nameOf[work[1].e], FirstPrefix) :
        \/ /\ m \in DOMAIN roots
           /\ Later(<<Walk(roots[m], work[1].parts, TRUE)>>)
           /\ UNCHANGED <<links, rpcOf, ioOf, extraOf, nodeOf, roots>>
        \/ /\ CanAllocate
           /\ NewRoot(m, NewEntry)
           /\ Later(Append(RootBody(m, NewEntry), Walk(NewEntry, work[1].parts, TRUE)))
  BY DEF ResolveImport
<1>3. CASE /\ m \in DOMAIN roots
           /\ Later(<<Walk(roots[m], work[1].parts, TRUE)>>)
           /\ UNCHANGED <<links, rpcOf, ioOf, extraOf, nodeOf, roots>>
  <2>1. OnEntries(<<Walk(roots[m], work[1].parts, TRUE)>>, entries)
    BY <1>3, WalkOn DEF EntriesInv, Referring
  <2> QED BY <1>1, <1>3, <2>1, EntryStep
<1>4. CASE /\ CanAllocate
           /\ NewRoot(m, NewEntry)
           /\ Later(Append(RootBody(m, NewEntry), Walk(NewEntry, work[1].parts, TRUE)))
  <2> DEFINE F == entries \cup {NewEntry}
             b == RootBody(m, NewEntry)
             t == Walk(NewEntry, work[1].parts, TRUE)
  <2>1. NewEntry \in F /\ entries \subseteq F
    OBVIOUS
  <2> HIDE DEF F
  <2>2. OnEntries(b, F) /\ OnEntries(<<t>>, F)
    BY <2>1, BodyTask, WalkOn DEF RootBody
  <2>3. Append(b, t) = b \o <<t>>
    <3>1. b \in Seq(ToSet(b) \cup {t}) /\ t \in ToSet(b) \cup {t}
      <4>1. b \in Seq(ToSet(b))
        BY <2>2 DEF OnEntries
      <4> HIDE DEF b, t
      <4> QED BY <4>1
    <3> HIDE DEF b, t
    <3> QED BY <3>1, AppendIsConcat
  <2>4. OnEntries(Append(b, t), F)
    BY <2>2, <2>3, TasksJoined
  <2>5. OnEntries(work', F)
    <3>1. Later(Append(b, t)) /\ OnEntries(work, entries)
      BY <1>4 DEF EntriesInv
    <3> HIDE DEF b, t
    <3> QED BY <1>1, <2>1, <2>4, <3>1, Replaces
  <2> QED BY <1>1, <1>4, <2>5, NewRootStep DEF F
<1> QED BY <1>2, <1>3, <1>4

LEMMA SyntheticStep ==
    ASSUME EntriesInv, syntheticOperationIOEntry
    PROVE  EntriesInv'
<1> DEFINE x == NewEntry
           e == work[1].e
           o == rpcOf[e]
           t == Walk(x, Tail(work[1].parts), FALSE)
<1>1. Now("walk") /\ CanAllocate /\ Part \in Sides /\ o # NilEntry
  BY DEF syntheticOperationIOEntry, ToIO, Walking
<1>2. e \in entries /\ e \in Entries /\ x \in Entries \ entries /\ work # <<>>
  BY <1>1, Doing, Fresh DEF EntriesInv, Trees
<1>3. o \in Entries
  BY <1>1, <1>2 DEF EntriesInv, Referring, Pointers, Trees, Allocated
<1>4. /\ Born(x, Part, e, FALSE)
      /\ ioOf' = [ioOf EXCEPT ![x] = NoIO, ![o][Part] = x]
      /\ rpcOf' = [rpcOf EXCEPT ![x] = NilEntry]
      /\ extraOf' = [extraOf EXCEPT ![x] = NoExtra]
      /\ Later(<<t>>) /\ UNCHANGED <<roots, found>>
  BY DEF syntheticOperationIOEntry
<1> HIDE DEF x, e, o, t
<1>5. Trees' /\ entries' = entries \cup {x}
  BY <1>2, <1>4, BornTrees DEF EntriesInv, Pointers
<1> DEFINE F == entries'
<1>6. entries \subseteq F /\ x \in F
  BY <1>5
<1>7. /\ rpcOf' \in [Entries -> Pointers(F)]
      /\ extraOf' \in [Entries -> [ExtraKinds -> Seq(F)]]
      /\ \A m \in DOMAIN roots' : roots'[m] \in F
  <2> HIDE DEF F
  <2> QED BY <1>4, <1>6, Wider
<1>8. ioOf' \in [Entries -> [Sides -> Pointers(F)]]
  <2> HIDE DEF F
  <2>1. x \in Pointers(F)
    BY <1>6 DEF Pointers
  <2> QED BY <1>1, <1>3, <1>4, <1>6, <2>1, Wider
<1>9. OnEntries(work', F)
  <2> HIDE DEF F
  <2>1. OnEntries(<<t>>, F)
    BY <1>6, WalkOn DEF t
  <2> QED BY <1>2, <1>4, <1>6, <2>1, Replaces DEF EntriesInv
<1> QED BY <1>2, <1>4, <1>5, <1>7, <1>8, <1>9, EntryBorn

(* Two changes of a function.                                              *)
LEMMA Twice ==
    ASSUME NEW S, NEW T, NEW f \in [S -> T], NEW a \in S, NEW b \in S, a # b, NEW u \in T, NEW v \in T
    PROVE  [f EXCEPT ![a] = u, ![b] = v] \in [S -> T]
OBVIOUS

(* A substatement.                                                         *)
LEMMA BuildEntryStep ==
    ASSUME EntriesInv, BuildEntry
    PROVE  EntriesInv'
<1> DEFINE t == work[1]
           e == t.e
           s == Current
           x == NewEntry
           apart == s.kw \in Apart /\ ~t.body.group
           io == s.kw \in Sides /\ ~t.body.group
           owner == IF rpcOf[e] = NilEntry THEN e ELSE rpcOf[e]
           tasks == Body(s, x, InEntry(s, t.body)) \o TheRest
<1>1. Now("build") /\ Building /\ CanAllocate /\ Later(tasks) /\ UNCHANGED <<roots, found>>
  BY DEF BuildEntry, Building
<1>2. e \in entries /\ e \in Entries /\ x \in Entries \ entries /\ work # <<>>
  BY <1>1, Doing, Fresh DEF EntriesInv, Trees
<1>3. owner \in entries /\ owner \in Entries
  BY <1>2 DEF EntriesInv, Referring, Pointers, Trees, Allocated
<1>4. /\ Born(x, s.arg, e, ~apart)
      /\ extraOf' = [extraOf EXCEPT ![x] = NoExtra,
                       ![e] = IF apart THEN [@ EXCEPT ![s.kw] = Append(extraOf[e][s.kw], x)] ELSE @]
      /\ \E new \in {x, NilEntry} :
           rpcOf' = [rpcOf EXCEPT ![x] = new, ![e] = IF io THEN owner ELSE @]
      /\ ioOf' = [ioOf EXCEPT ![x] = NoIO, ![owner] = IF io THEN [@ EXCEPT ![s.kw] = x] ELSE @]
  BY DEF BuildEntry
<1>5. apart \in BOOLEAN /\ (apart => s.kw \in ExtraKinds) /\ (io => s.kw \in Sides)
  BY DEF Apart, ExtraKinds
<1> HIDE DEF x, e, owner, apart, io, s
<1>6. Trees' /\ entries' = entries \cup {x}
  BY <1>2, <1>4, <1>5, BornTrees DEF EntriesInv, Pointers
<1> DEFINE F == entries'
<1>7. entries \subseteq F /\ x \in F
  BY <1>6
<1>8. x \in Pointers(F) /\ NilEntry \in Pointers(F) /\ owner \in Pointers(F)
  BY <1>3, <1>7 DEF Pointers
<1>9. rpcOf' \in [Entries -> Pointers(F)]
  <2> HIDE DEF F
  <2>1. PICK new \in {x, NilEntry} : rpcOf' = [rpcOf EXCEPT ![x] = new, ![e] = IF io THEN owner ELSE @]
    BY <1>4
  <2> QED BY <1>2, <1>7, <1>8, <2>1, Wider
<1>10. ioOf' \in [Entries -> [Sides -> Pointers(F)]]
  <2> HIDE DEF F
  <2> DEFINE now == IF io THEN [ioOf[owner] EXCEPT ![s.kw] = x] ELSE ioOf[owner]
  <2>1. ioOf[owner] \in [Sides -> Pointers(F)] /\ owner # x
    BY <1>2, <1>3, <1>7, Wider
  <2>2. now \in [Sides -> Pointers(F)]
    BY <1>5, <1>8, <2>1
  <2>3. ioOf' = [ioOf EXCEPT ![x] = NoIO, ![owner] = now]
    BY <1>3, <1>4, <2>1
  <2>4. NoIO \in [Sides -> Pointers(F)] /\ ioOf \in [Entries -> [Sides -> Pointers(F)]]
    BY <1>7, Wider
  <2> HIDE DEF now
  <2> QED BY <1>2, <1>3, <2>1, <2>2, <2>3, <2>4, Twice
<1>11. extraOf' \in [Entries -> [ExtraKinds -> Seq(F)]]
  <2> HIDE DEF F
  <2> DEFINE now == IF apart THEN [extraOf[e] EXCEPT ![s.kw] = Append(extraOf[e][s.kw], x)] ELSE extraOf[e]
  <2>1. extraOf[e] \in [ExtraKinds -> Seq(F)] /\ e # x
    BY <1>2, <1>7, Wider
  <2>2. apart => Append(extraOf[e][s.kw], x) \in Seq(F)
    BY <1>5, <1>7, <2>1, AppendProperties
  <2>3. now \in [ExtraKinds -> Seq(F)]
    BY <2>1, <2>2
  <2>4. extraOf' = [extraOf EXCEPT ![x] = NoExtra, ![e] = now]
    BY <1>2, <1>4, <2>1
  <2>5. NoExtra \in [ExtraKinds -> Seq(F)] /\ extraOf \in [Entries -> [ExtraKinds -> Seq(F)]]
    BY <1>7, Wider
  <2> HIDE DEF now
  <2> QED BY <1>2, <2>1, <2>3, <2>4, <2>5, Twice
<1>12. \A m \in DOMAIN roots' : roots'[m] \in F
  BY <1>1, <1>7, Wider
<1>13. OnEntries(work', F)
  <2> HIDE DEF F
  <2>1. OnEntries(Body(s, x, InEntry(s, t.body)), F)
    BY <1>7, BodyTask
  <2>2. OnEntries(TheRest, F)
    BY <1>1, <1>7, RestTask, MoreEntries
  <2>3. OnEntries(tasks, F)
    BY <2>1, <2>2, TasksJoined
  <2> HIDE DEF tasks
  <2> QED BY <1>1, <1>2, <1>7, <2>3, Replaces DEF EntriesInv
<1> QED BY <1>1, <1>2, <1>6, <1>9, <1>10, <1>11, <1>12, <1>13, EntryBorn

----------------------------------------------------------------------------
LEMMA EntriesInvInit ==
    ASSUME EntriesIdle
    PROVE  EntriesInv
<1>1. entries = {} /\ IsFiniteSet(entries)
  BY FS_EmptySet DEF EntriesIdle
<1>2. Allocated
  <2>1. parentOf \in [Entries -> Pointers(entries)]
    BY DEF EntriesIdle, Unallocated, Pointers
  <2>2. orderedOf \in [Entries -> Seq(Pointers(entries))]
    <3>1. <<>> \in Seq(Pointers(entries))
      OBVIOUS
    <3> QED BY <3>1 DEF EntriesIdle, Unallocated
  <2>3. nameOf = [e \in Entries |-> nameOf[e]]
    BY DEF EntriesIdle, Unallocated
  <2>4. dirOf = [e \in Entries |-> dirOf[e]]
    BY DEF EntriesIdle, Unallocated
  <2> QED BY <1>1, <2>1, <2>2, <2>3, <2>4 DEF Allocated
<1>3. Linked /\ NoCycle
  BY <1>1 DEF Linked, NoCycle
<1>4. Referring
  <2>1. rpcOf \in [Entries -> Pointers(entries)] /\ found \in Pointers(entries)
    BY DEF EntriesIdle, Unallocated, Pointers
  <2>2. ioOf \in [Entries -> [Sides -> Pointers(entries)]]
    <3>1. NoIO \in [Sides -> Pointers(entries)]
      BY DEF NoIO, Pointers
    <3> QED BY <3>1 DEF EntriesIdle, Unallocated
  <2>3. extraOf \in [Entries -> [ExtraKinds -> Seq(entries)]]
    <3>1. NoExtra \in [ExtraKinds -> Seq(entries)]
      BY DEF NoExtra
    <3> QED BY <3>1 DEF EntriesIdle, Unallocated
  <2>4. \A m \in DOMAIN roots : roots[m] \in entries
    BY DEF EntriesIdle, NoDir
  <2> QED BY <2>1, <2>2, <2>3, <2>4 DEF Referring
<1>5. OnEntries(work, entries)
  BY NoTask DEF EntriesIdle
<1> QED BY <1>2, <1>3, <1>4, <1>5 DEF EntriesInv, Trees

LEMMA EntriesInvNext ==
    ASSUME EntriesInv, [EntriesNext]_<<probe, evars>>
    PROVE  EntriesInv'
<1>1. CASE UNCHANGED evars
  BY <1>1, EntryStays DEF evars, EntriesInv, Referring
<1>2. CASE EntriesNext /\ ~UNCHANGED evars
  <2>1. ASSUME NEW m, ToEntry(m) PROVE EntriesInv'
    BY <2>1, ToEntryStep
  <2>2. ASSUME NEW e \in entries, NEW path, FindEntry(e, path) PROVE EntriesInv'
    BY <2>2, FindEntryStep
  <2>3. ASSUME NEW e \in entries, NEW b, Augment(e, b) \/ ApplyDeviate(e, b) PROVE EntriesInv'
    BY <2>3, AugmentStep, ApplyDeviateStep
  <2>4. ASSUME NEW e \in entries, FixChoice(e) PROVE EntriesInv'
    BY <2>4, FixChoiceStep
  <2> QED
    BY <1>2, <2>1, <2>2, <2>3, <2>4, BuildDoneStep, BuildUsesStep, BuildNothingStep, BuildEntryStep, ClimbSteps,
       ResolveImportStep, WalkSteps, SyntheticStep, PostponeStep, GraftStep, DoneSteps, CopySteps, WrapCaseStep,
       FixChildrenStep, StartDeviationStep, DeviateNotSupportedStep DEF EntriesNext
<1> QED BY <1>1, <1>2 DEF evars

(* For every set of modules and of paths, however many entries they make,  *)
(* and whatever Augment, ApplyDeviate, FixChoice and Find do to them in any*)
(* order: every child in order has the entry as its parent and is there    *)
(* once, Dir has the last of these children for each of their names and    *)
(* nothing else, and a root is above every entry, so that no recursion over*)
(* the entries runs for ever.                                              *)
THEOREM TreesStayLinked == EntrySpec => []EntriesLinked
<1>1. Unasked /\ EntriesIdle => EntriesInv
  BY EntriesInvInit
<1>2. EntriesInv /\ [EntriesNext]_<<probe, evars>> => EntriesInv'
  BY EntriesInvNext
<1>3. EntriesInv => EntriesLinked
  BY TreesAreLinked DEF EntriesInv
<1> QED BY <1>1, <1>2, <1>3, PTL DEF EntrySpec

----------------------------------------------------------------------------
(* FixChoice.  F are the entries it is done with: every choice among them  *)
(* has cases only, and their children are among them or still to be done.  *)
(* What is built afterwards is not among them.                             *)
AllDo(w, ops) == \A i \in DOMAIN w : w[i].op \in ops
TodoBy(w, op) == {w[i].e : i \in {j \in DOMAIN w : w[j].op = op}}
FixedUpTo(F, w) ==
    /\ F \subseteq entries /\ call.on \in F \cup TodoBy(w, "fix") /\ F \cap TodoBy(w, "build") = {}
    /\ \A e \in F : ToWrap(e) = {} /\ \A n \in DOMAIN dirOf[e] : dirOf[e][n] \in F \cup TodoBy(w, "fix")
Fixing(w) ==
    /\ AllDo(w, {"fix", "nothing"}) \/ AllDo(w, {"build"})
    /\ \E F : FixedUpTo(F, w)
FixInv == DOMAIN nodeOf = Entries /\ "op" \in DOMAIN call /\ (call.op = "fix" => Fixing(work))

(* The tasks after a step.                                                 *)
LEMMA LaterTasks ==
    ASSUME EntriesInv, NEW op, Now(op), NEW tasks, tasks \in Seq(ToSet(tasks)), Later(tasks)
    PROVE  /\ \A i \in DOMAIN work' :
                (\E j \in DOMAIN tasks : work'[i] = tasks[j]) \/ (\E j \in DOMAIN work : work'[i] = work[j])
           /\ \A j \in DOMAIN tasks : \E i \in DOMAIN work' : work'[i] = tasks[j]
           /\ \A j \in DOMAIN work : j # 1 => \E i \in DOMAIN work' : work'[i] = work[j]
           /\ 1 \in DOMAIN work /\ work[1].op = op
<1> DEFINE T == ToSet(tasks) \cup ToSet(work)
<1>1. work \in Seq(ToSet(work)) /\ work # <<>>
  BY DEF EntriesInv, OnEntries, Now
<1>2. tasks \in Seq(T) /\ work \in Seq(T)
  BY <1>1
<1> HIDE DEF T
<1>3. /\ Len(work) \in Nat /\ Len(work) >= 1 /\ DOMAIN work = 1..Len(work)
      /\ Len(tasks) \in Nat /\ DOMAIN tasks = 1..Len(tasks)
  BY <1>1, <1>2, EmptySeq, LenProperties
<1>4. /\ Tail(work) \in Seq(T) /\ Len(Tail(work)) = Len(work) - 1
      /\ \A i \in 1..Len(work)-1 : Tail(work)[i] = work[i+1]
  BY <1>1, <1>2, HeadTailProperties
<1>5. /\ work' \in Seq(T) /\ Len(work') = Len(tasks) + Len(work) - 1
      /\ \A i \in 1..Len(tasks)+Len(work)-1 :
            work'[i] = IF i <= Len(tasks) THEN tasks[i] ELSE Tail(work)[i - Len(tasks)]
  BY <1>2, <1>3, <1>4, ConcatProperties DEF Later
<1>6. DOMAIN work' = 1..Len(tasks)+Len(work)-1
  BY <1>5, LenProperties
<1>7. ASSUME NEW i \in DOMAIN work'
      PROVE  (\E j \in DOMAIN tasks : work'[i] = tasks[j]) \/ (\E j \in DOMAIN work : work'[i] = work[j])
  <2>1. CASE i <= Len(tasks)
    BY <1>3, <1>5, <1>6, <2>1
  <2>2. CASE ~(i <= Len(tasks))
    <3>1. i - Len(tasks) \in 1..Len(work)-1 /\ i - Len(tasks) + 1 \in DOMAIN work
      BY <1>3, <1>6, <2>2
    <3>2. work'[i] = work[i - Len(tasks) + 1]
      BY <1>4, <1>5, <1>6, <2>2, <3>1
    <3> QED BY <3>1, <3>2
  <2> QED BY <2>1, <2>2
<1>8. ASSUME NEW j \in DOMAIN tasks PROVE \E i \in DOMAIN work' : work'[i] = tasks[j]
  <2>1. j \in DOMAIN work' /\ j <= Len(tasks)
    BY <1>3, <1>6
  <2> QED BY <1>5, <1>6, <2>1
<1>9. ASSUME NEW j \in DOMAIN work, j # 1 PROVE \E i \in DOMAIN work' : work'[i] = work[j]
  <2> DEFINE i == Len(tasks) + j - 1
  <2>1. i \in DOMAIN work' /\ ~(i <= Len(tasks)) /\ i - Len(tasks) = j - 1 /\ j - 1 \in 1..Len(work)-1 /\ j - 1 + 1 = j
    BY <1>3, <1>6, <1>9
  <2>2. work'[i] = Tail(work)[j - 1]
    BY <1>5, <1>6, <2>1
  <2>3. Tail(work)[j - 1] = work[j]
    BY <1>4, <2>1
  <2> QED BY <2>1, <2>2, <2>3
<1> QED BY <1>3, <1>7, <1>8, <1>9 DEF Now

LEMMA ListSeq ==
    ASSUME NEW n \in Nat, NEW w, w = [i \in 1..n |-> w[i]]
    PROVE  w \in Seq(ToSet(w))
<1>1. DOMAIN w = 1..n /\ \A i \in 1..n : w[i] \in ToSet(w)
  BY DEF ToSet
<1> QED BY <1>1

LEMMA FirstDoes ==
    ASSUME EntriesInv, Fixing(work), NEW op, Now(op)
    PROVE  /\ op \in {"fix", "nothing", "build"}
           /\ op = "build" => AllDo(work, {"build"})
           /\ op # "build" => AllDo(work, {"fix", "nothing"})
<1>1. work \in Seq(ToSet(work)) /\ work # <<>>
  BY DEF EntriesInv, OnEntries, Now
<1>2. 1 \in DOMAIN work
  BY <1>1, EmptySeq, LenProperties
<1> QED BY <1>2 DEF Fixing, AllDo, Now

LEMMA TodoAllocated ==
    ASSUME EntriesInv, NEW op
    PROVE  TodoBy(work, op) \subseteq entries
BY DEF TodoBy, EntriesInv, OnEntries

(* The children of an entry that has only cases, or is no choice, are next.*)
LEMMA FixChildrenFixes ==
    ASSUME EntriesInv, FixChildren, Fixing(work)
    PROVE  Fixing(work)'
<1> DEFINE e == work[1].e
           fix(i) == IF orderedOf[e][i] = NilEntry THEN Task("nothing", e, e)
                     ELSE Task("fix", orderedOf[e][i], orderedOf[e][i])
           w == [i \in DOMAIN orderedOf[e] |-> fix(i)]
<1>1. Now("fix") /\ Later(w) /\ UNCHANGED <<links, nodeOf, call>> /\ ToWrap(e) = {}
  BY DEF FixChildren
<1>2. e \in entries /\ e \in Entries /\ NilEntry \notin entries /\ LastInDir(e)
  BY <1>1, Doing DEF EntriesInv, Trees, Linked
<1>3. Len(orderedOf[e]) \in Nat /\ DOMAIN orderedOf[e] = 1..Len(orderedOf[e])
  BY <1>2, TreeFacts DEF EntriesInv, Trees
<1>4. w \in Seq(ToSet(w)) /\ DOMAIN w = DOMAIN orderedOf[e] /\ \A i \in DOMAIN w : w[i] = fix(i)
  <2> HIDE DEF fix, e
  <2>1. DOMAIN w = 1..Len(orderedOf[e]) /\ \A i \in DOMAIN w : w[i] = fix(i)
    BY <1>3
  <2>2. w = [i \in 1..Len(orderedOf[e]) |-> w[i]]
    BY <2>1
  <2> HIDE DEF w
  <2> QED BY <1>3, <2>1, <2>2, ListSeq
<1>5. \A i \in DOMAIN w : /\ w[i].op \in {"fix", "nothing"}
                          /\ orderedOf[e][i] # NilEntry => w[i].op = "fix" /\ w[i].e = orderedOf[e][i]
  <2>1. \A i \in DOMAIN w : /\ fix(i).op \in {"fix", "nothing"}
                            /\ orderedOf[e][i] # NilEntry => fix(i).op = "fix" /\ fix(i).e = orderedOf[e][i]
    BY DEF Task
  <2> HIDE DEF fix, w
  <2> QED BY <1>4, <2>1
<1> HIDE DEF w, e
<1>6. /\ \A i \in DOMAIN work' : (\E j \in DOMAIN w : work'[i] = w[j]) \/ (\E j \in DOMAIN work : work'[i] = work[j])
      /\ \A j \in DOMAIN w : \E i \in DOMAIN work' : work'[i] = w[j]
      /\ \A j \in DOMAIN work : j # 1 => \E i \in DOMAIN work' : work'[i] = work[j]
  BY <1>1, <1>4, LaterTasks
<1>7. AllDo(work', {"fix", "nothing"})
  BY <1>1, <1>5, <1>6, FirstDoes DEF AllDo
<1>8. PICK F : FixedUpTo(F, work)
  BY DEF Fixing
<1>9. TodoBy(work, "fix") \subseteq {e} \cup TodoBy(work', "fix")
  BY <1>6 DEF TodoBy, e
<1>10. \A n \in DOMAIN dirOf[e] : dirOf[e][n] \in TodoBy(work', "fix")
  <2> TAKE n \in DOMAIN dirOf[e]
  <2>1. PICK i \in DOMAIN orderedOf[e] : orderedOf[e][i] = dirOf[e][n] /\ dirOf[e][n] \in entries
    BY <1>2 DEF LastInDir
  <2>2. w[i].op = "fix" /\ w[i].e = dirOf[e][n] /\ i \in DOMAIN w
    BY <1>2, <1>4, <1>5, <2>1
  <2>3. PICK k \in DOMAIN work' : work'[k] = w[i]
    BY <1>6, <2>2
  <2> QED BY <2>2, <2>3 DEF TodoBy
<1>11. TodoBy(work', "build") = {}
  BY <1>7 DEF AllDo, TodoBy
<1>12. \A a \in entries : ToWrap(a)' = ToWrap(a) /\ dirOf'[a] = dirOf[a]
  BY <1>1 DEF ToWrap, links
<1>13. PICK G : G = F \cup {e}
  OBVIOUS
<1>14. FixedUpTo(G, work)'
  <2>1. entries' = entries /\ call' = call
    BY <1>1 DEF links
  <2>2. F \subseteq entries /\ call.on \in F \cup TodoBy(work, "fix")
        /\ \A a \in F : ToWrap(a) = {} /\ \A n \in DOMAIN dirOf[a] : dirOf[a][n] \in F \cup TodoBy(work, "fix")
    BY <1>8 DEF FixedUpTo
  <2>3. G \subseteq entries' /\ call'.on \in G \cup TodoBy(work', "fix") /\ G \cap TodoBy(work', "build") = {}
    BY <1>2, <1>9, <1>11, <1>13, <2>1, <2>2
  <2>4. ASSUME NEW a \in G
        PROVE  ToWrap(a)' = {} /\ \A n \in DOMAIN dirOf'[a] : dirOf'[a][n] \in G \cup TodoBy(work', "fix")
    <3>1. CASE a = e
      BY <1>1, <1>2, <1>10, <1>12, <3>1
    <3>2. CASE a # e
      <4>1. a \in F /\ a \in entries
        BY <1>13, <2>2, <3>2
      <4>2. ToWrap(a)' = {} /\ dirOf'[a] = dirOf[a]
        BY <1>12, <2>2, <4>1
      <4> QED BY <1>9, <1>13, <2>2, <4>1, <4>2
    <3> QED BY <3>1, <3>2
  <2> QED BY <2>3, <2>4 DEF FixedUpTo
<1> QED BY <1>7, <1>14 DEF Fixing

LEMMA FixNothingFixes ==
    ASSUME EntriesInv, FixNothing, Fixing(work)
    PROVE  Fixing(work)'
<1>1. Now("nothing") /\ Later(<<>>) /\ UNCHANGED <<entries, dirOf, nodeOf, call>>
  BY DEF FixNothing, links
<1>2. <<>> \in Seq(ToSet(<<>>)) /\ DOMAIN <<>> = {}
  OBVIOUS
<1>3. /\ \A i \in DOMAIN work' : \E j \in DOMAIN work : work'[i] = work[j]
      /\ \A j \in DOMAIN work : j # 1 => \E i \in DOMAIN work' : work'[i] = work[j]
      /\ work[1].op = "nothing"
  BY <1>1, <1>2, LaterTasks
<1>4. AllDo(work', {"fix", "nothing"})
  BY <1>1, <1>3, FirstDoes DEF AllDo
<1>5. PICK F : FixedUpTo(F, work)
  BY DEF Fixing
<1>6. TodoBy(work', "fix") = TodoBy(work, "fix") /\ TodoBy(work', "build") = {}
  BY <1>3, <1>4 DEF TodoBy, AllDo
<1>7. \A a \in entries : ToWrap(a)' = ToWrap(a)
  BY <1>1 DEF ToWrap
<1>8. FixedUpTo(F, work)'
  BY <1>1, <1>5, <1>6, <1>7 DEF FixedUpTo
<1> QED BY <1>4, <1>8 DEF Fixing

(* A case is put in: the choice is not among those done with until it has  *)
(* no other child.                                                         *)
LEMMA WrapCaseFixes ==
    ASSUME EntriesInv, DOMAIN nodeOf = Entries, WrapCase, Fixing(work)
    PROVE  Fixing(work)'
<1>1. Now("fix") /\ CanAllocate /\ UNCHANGED <<work, call>>
  BY DEF WrapCase
<1>2. PICK e, x : e = work[1].e /\ x = NewEntry
  OBVIOUS
<1>3. e \in entries /\ x \in Entries \ entries /\ entries \subseteq Entries /\ DOMAIN dirOf = Entries
  BY <1>1, <1>2, Doing, Fresh, TreeFacts DEF EntriesInv, Trees, Allocated
<1>4. /\ entries' = entries \cup {x}
      /\ \A a \in entries : (a # e => dirOf'[a] = dirOf[a]) /\ nodeOf'[a] = nodeOf[a]
  <2>1. PICK n : /\ Wrapped(e, n, dirOf[e][n], x)
                 /\ nodeOf' = [nodeOf EXCEPT ![x] = [BareNode("case") EXCEPT !.conf = nodeOf[dirOf[e][n]].conf]]
    BY <1>2 DEF WrapCase
  <2>2. /\ entries' = entries \cup {x}
        /\ dirOf' = [dirOf EXCEPT ![x] = Bind(NoDir, n, dirOf[e][n]), ![e] = Bind(dirOf[e], n, x)]
    BY <2>1 DEF Wrapped
  <2> QED BY <1>3, <2>1, <2>2
<1>5. AllDo(work', {"fix", "nothing"})
  BY <1>1, FirstDoes
<1>6. PICK F : FixedUpTo(F, work)
  BY DEF Fixing
<1>7. e \in TodoBy(work, "fix")
  <2>1. 1 \in DOMAIN work
    BY <1>1, EmptySeq, LenProperties DEF EntriesInv, OnEntries, Now
  <2> QED BY <1>1, <1>2, <2>1 DEF TodoBy, Now
<1>8. PICK G : G = F \ {e}
  OBVIOUS
<1>9. FixedUpTo(G, work)'
  <2>1. F \subseteq entries /\ call.on \in F \cup TodoBy(work, "fix") /\ F \cap TodoBy(work, "build") = {}
        /\ \A a \in F : ToWrap(a) = {} /\ \A n \in DOMAIN dirOf[a] : dirOf[a][n] \in F \cup TodoBy(work, "fix")
    BY <1>6 DEF FixedUpTo
  <2>2. G \subseteq entries' /\ call'.on \in G \cup TodoBy(work', "fix") /\ G \cap TodoBy(work', "build") = {}
    BY <1>1, <1>4, <1>7, <1>8, <2>1
  <2>3. ASSUME NEW a \in G
        PROVE  ToWrap(a)' = {} /\ \A n \in DOMAIN dirOf'[a] : dirOf'[a][n] \in G \cup TodoBy(work', "fix")
    <3>1. a \in F /\ a \in entries /\ dirOf'[a] = dirOf[a] /\ nodeOf'[a] = nodeOf[a]
      BY <1>4, <1>8, <2>1
    <3>2. \A n \in DOMAIN dirOf[a] : dirOf[a][n] \in entries
      BY <2>1, <3>1, TodoAllocated
    <3>3. ToWrap(a)' = {}
      BY <1>4, <2>1, <3>1, <3>2 DEF ToWrap
    <3> QED BY <1>1, <1>7, <1>8, <2>1, <3>1, <3>3
  <2> QED BY <2>2, <2>3 DEF FixedUpTo
<1> QED BY <1>5, <1>9 DEF Fixing

(* What is built elsewhere leaves them alone.                              *)
LEMMA BuildFixes ==
    ASSUME EntriesInv, Fixing(work), Now("build"), NEW tasks, tasks \in Seq(ToSet(tasks)), Later(tasks),
           AllDo(tasks, {"build"}), \A j \in DOMAIN tasks : tasks[j].e = work[1].e \/ tasks[j].e \notin entries,
           entries \subseteq entries', UNCHANGED call,
           \A a \in entries : a # work[1].e => dirOf'[a] = dirOf[a] /\ nodeOf'[a] = nodeOf[a]
    PROVE  Fixing(work)'
<1>1. AllDo(work, {"build"})
  BY FirstDoes
<1>2. /\ \A i \in DOMAIN work' :
           (\E j \in DOMAIN tasks : work'[i] = tasks[j]) \/ (\E j \in DOMAIN work : work'[i] = work[j])
      /\ 1 \in DOMAIN work
  BY LaterTasks
<1>3. AllDo(work', {"build"})
  BY <1>1, <1>2 DEF AllDo
<1>4. PICK F : FixedUpTo(F, work)
  BY DEF Fixing
<1>5. TodoBy(work, "fix") = {} /\ TodoBy(work', "fix") = {}
  BY <1>1, <1>3 DEF TodoBy, AllDo
<1>6. work[1].e \in TodoBy(work, "build")
  BY <1>1, <1>2 DEF TodoBy, AllDo
<1>7. \A b \in TodoBy(work', "build") : b \in TodoBy(work, "build") \/ b \notin entries
  <2> SUFFICES ASSUME NEW i \in DOMAIN work'
               PROVE  work'[i].e \in TodoBy(work, "build") \/ work'[i].e \notin entries
    BY DEF TodoBy
  <2>1. CASE \E j \in DOMAIN tasks : work'[i] = tasks[j]
    BY <1>6, <2>1
  <2>2. CASE \E j \in DOMAIN work : work'[i] = work[j]
    BY <1>1, <2>2 DEF TodoBy, AllDo
  <2> QED BY <1>2, <2>1, <2>2
<1>8. F \subseteq entries /\ call.on \in F /\ F \cap TodoBy(work, "build") = {}
      /\ \A a \in F : ToWrap(a) = {} /\ \A n \in DOMAIN dirOf[a] : dirOf[a][n] \in F
  BY <1>4, <1>5 DEF FixedUpTo
<1>9. \A a \in F : dirOf'[a] = dirOf[a] /\ nodeOf'[a] = nodeOf[a]
  BY <1>6, <1>8
<1>10. \A a \in F : ToWrap(a)' = {}
  BY <1>8, <1>9 DEF ToWrap
<1>11. F \subseteq entries' /\ call'.on \in F /\ F \cap TodoBy(work', "build") = {}
  BY <1>7, <1>8
<1>12. FixedUpTo(F, work)'
  BY <1>5, <1>8, <1>9, <1>10, <1>11 DEF FixedUpTo
<1> QED BY <1>3, <1>12 DEF Fixing

LEMMA RestBuilds ==
    ASSUME EntriesInv, Building
    PROVE  \E r : TheRest = <<r>> /\ r.op = "build" /\ r.e = work[1].e
<1> DEFINE r == [work[1] EXCEPT !.body.subs = Tail(@)]
<1>1. r.op = "build" /\ r.e = work[1].e
  BY DEF Building, Now
<1> HIDE DEF r
<1> QED BY <1>1 DEF TheRest, r

LEMMA BodyBuilds ==
    ASSUME NEW st, NEW e, NEW body
    PROVE  \E b : Body(st, e, body) = <<b>> /\ b.op = "build" /\ b.e = e
<1> DEFINE b == [Task("build", e, e) EXCEPT !.body = [body EXCEPT !.subs = st.subs]]
<1>1. b.op = "build" /\ b.e = e
  BY DEF Task
<1> HIDE DEF b
<1> QED BY <1>1 DEF Body, b

(* Tasks that build on one of two entries.                                 *)
Builds(tasks, e, x) ==
    tasks \in Seq(ToSet(tasks)) /\ AllDo(tasks, {"build"}) /\ \A j \in DOMAIN tasks : tasks[j].e \in {e, x}

LEMMA NoneBuilds ==
    ASSUME NEW e, NEW x
    PROVE  Builds(<<>>, e, x)
BY DEF Builds, AllDo

LEMMA OneBuilds ==
    ASSUME NEW e, NEW x, NEW t, t.op = "build", t.e \in {e, x}
    PROVE  Builds(<<t>>, e, x)
<1> DEFINE w == <<t>>
<1>1. DOMAIN w = {1} /\ w[1] = t /\ w \in Seq({t}) /\ ToSet(w) = {t}
  BY DEF ToSet
<1> HIDE DEF w
<1>2. Builds(w, e, x)
  BY <1>1 DEF Builds, AllDo
<1> QED BY <1>2 DEF w

LEMMA TwoBuild ==
    ASSUME NEW e, NEW x, NEW t, NEW u, t.op = "build", t.e \in {e, x}, u.op = "build", u.e \in {e, x}
    PROVE  Builds(<<t>> \o <<u>>, e, x)
<1>1. PICK v, z : v = <<t>> /\ z = <<u>>
  OBVIOUS
<1> DEFINE T == {t, u}
           w == v \o z
<1>2. v \in Seq(T) /\ z \in Seq(T) /\ Len(v) = 1 /\ Len(z) = 1 /\ v[1] = t /\ z[1] = u
  BY <1>1
<1> HIDE DEF T
<1>3. w \in Seq(T) /\ Len(w) = 2 /\ \A i \in 1..2 : w[i] = IF i <= 1 THEN v[i] ELSE z[i - 1]
  BY <1>2, ConcatProperties
<1>4. DOMAIN w = 1..2 /\ \A i \in 1..2 : w[i] \in {t, u}
  BY <1>2, <1>3, LenProperties
<1> HIDE DEF w
<1>5. w \in Seq(ToSet(w))
  <2>1. w = [i \in 1..2 |-> w[i]]
    BY <1>3, <1>4
  <2> QED BY <2>1, ListSeq
<1>6. Builds(w, e, x)
  BY <1>4, <1>5 DEF Builds, AllDo
<1> QED BY <1>1, <1>6 DEF w

LEMMA BuildStepsFix ==
    ASSUME EntriesInv, DOMAIN nodeOf = Entries, Fixing(work),
           BuildDone \/ BuildNothing \/ BuildUses \/ BuildEntry
    PROVE  Fixing(work)'
<1>1. Now("build") /\ UNCHANGED call
  BY DEF BuildDone, BuildNothing, BuildUses, BuildEntry, Building
<1>2. PICK e, x : e = work[1].e /\ x = NewEntry
  OBVIOUS
<1>3. e \in entries /\ entries \subseteq Entries /\ DOMAIN dirOf = Entries
  BY <1>1, <1>2, Doing, TreeFacts DEF EntriesInv, Trees
<1>4. ASSUME NEW tasks, Builds(tasks, e, x), x \notin entries \/ x = e, Later(tasks), entries \subseteq entries',
             \A a \in entries : a # e => dirOf'[a] = dirOf[a] /\ nodeOf'[a] = nodeOf[a]
      PROVE  Fixing(work)'
  BY <1>1, <1>2, <1>4, BuildFixes DEF Builds
<1>5. CASE BuildDone
  <2>1. Later(<<>>) /\ UNCHANGED <<entries, dirOf, nodeOf>> /\ Builds(<<>>, e, e)
    BY <1>5, NoneBuilds DEF BuildDone, links
  <2> QED BY <1>1, <1>2, <2>1, BuildFixes DEF Builds
<1>6. CASE BuildNothing
  <2>1. Later(TheRest) /\ UNCHANGED <<entries, dirOf, nodeOf>> /\ Building
    BY <1>6 DEF BuildNothing, links
  <2>2. Builds(TheRest, e, e)
    BY <1>2, <2>1, RestBuilds, OneBuilds
  <2> QED BY <1>1, <1>2, <2>1, <2>2, BuildFixes DEF Builds
<1>7. CASE BuildUses
  <2>1. /\ Building /\ UNCHANGED <<entries, dirOf>>
        /\ \E st, body : Later(TheRest) \/ Later(Body(st, e, body) \o TheRest)
        /\ UNCHANGED nodeOf \/ \E errors : Report(e, errors)
    BY <1>2, <1>7 DEF BuildUses, links
  <2>2. \A a \in entries : a # e => dirOf'[a] = dirOf[a] /\ nodeOf'[a] = nodeOf[a]
    BY <1>3, <2>1 DEF Report
  <2>3. Builds(TheRest, e, e) /\ \A st, body : Builds(Body(st, e, body) \o TheRest, e, e)
    BY <1>2, <2>1, RestBuilds, BodyBuilds, OneBuilds, TwoBuild
  <2>4. PICK tasks : Later(tasks) /\ Builds(tasks, e, e)
    BY <2>1, <2>3
  <2>5. entries \subseteq entries'
    BY <2>1
  <2> QED BY <1>1, <1>2, <2>2, <2>4, <2>5, BuildFixes DEF Builds
<1>8. CASE BuildEntry
  <2>1. /\ Building /\ CanAllocate
        /\ \E st, body : Later(Body(st, x, body) \o TheRest)
        /\ \E name, added : Born(x, name, e, added)
        /\ \E new, dir : nodeOf' = [nodeOf EXCEPT ![x] = new, ![e].isDir = dir]
    BY <1>2, <1>8 DEF BuildEntry
  <2>2. x \in Entries \ entries
    BY <1>2, <2>1, Fresh DEF EntriesInv, Trees
  <2>3. entries \subseteq entries' /\ \A a \in entries : a # e => dirOf'[a] = dirOf[a]
    BY <1>3, <2>1, <2>2 DEF Born
  <2>4. \A a \in entries : a # e => nodeOf'[a] = nodeOf[a]
    BY <1>3, <2>1, <2>2
  <2>5. \A st, body : Builds(Body(st, x, body) \o TheRest, e, x)
    BY <1>2, <2>1, RestBuilds, BodyBuilds, TwoBuild
  <2> QED BY <1>4, <2>1, <2>2, <2>3, <2>4, <2>5
<1> QED BY <1>5, <1>6, <1>7, <1>8

LEMMA ToEntryFixes ==
    ASSUME EntriesInv, DOMAIN nodeOf = Entries, NEW m, ToEntry(m), Fixing(work)
    PROVE  Fixing(work)'
<1>1. PICK x : x = NewEntry
  OBVIOUS
<1>2. work = <<>> /\ CanAllocate /\ UNCHANGED call /\ work' = RootBody(m, x) /\ NewRoot(m, x)
  BY <1>1 DEF ToEntry, Ready
<1>3. x \in Entries \ entries /\ entries \subseteq Entries /\ DOMAIN dirOf = Entries
  BY <1>1, <1>2, Fresh, TreeFacts DEF EntriesInv, Trees, Allocated
<1>4. entries' = entries \cup {x} /\ \A a \in entries : dirOf'[a] = dirOf[a] /\ nodeOf'[a] = nodeOf[a]
  <2>1. PICK new : new = EntryNode(x, Program.modules[m], "")
    OBVIOUS
  <2>2. Born(x, m, NilEntry, FALSE) /\ nodeOf' = [nodeOf EXCEPT ![x] = new]
    BY <1>2, <2>1 DEF NewRoot
  <2>3. entries' = entries \cup {x} /\ dirOf' = [dirOf EXCEPT ![x] = NoDir]
    BY <2>2 DEF Born
  <2> QED BY <1>3, <2>2, <2>3
<1>5. Builds(work', x, x)
  BY <1>2, BodyBuilds, OneBuilds DEF RootBody
<1>6. \A op : TodoBy(work, op) = {}
  <2>1. DOMAIN work = {}
    BY <1>2
  <2> QED BY <2>1 DEF TodoBy
<1>7. TodoBy(work', "fix") = {} /\ TodoBy(work', "build") \subseteq {x}
  BY <1>5 DEF Builds, AllDo, TodoBy
<1>8. PICK F : FixedUpTo(F, work)
  BY DEF Fixing
<1>9. F \subseteq entries /\ call.on \in F
      /\ \A a \in F : ToWrap(a) = {} /\ \A n \in DOMAIN dirOf[a] : dirOf[a][n] \in F
  BY <1>6, <1>8 DEF FixedUpTo
<1>10. \A a \in F : ToWrap(a)' = {} /\ dirOf'[a] = dirOf[a]
  BY <1>4, <1>9 DEF ToWrap
<1>11. F \subseteq entries' /\ call'.on \in F /\ F \cap TodoBy(work', "build") = {}
  BY <1>2, <1>3, <1>4, <1>7, <1>9
<1>12. FixedUpTo(F, work)'
  BY <1>7, <1>9, <1>10, <1>11 DEF FixedUpTo
<1> QED BY <1>5, <1>12 DEF Fixing, Builds

LEMMA FixChoiceFixes ==
    ASSUME EntriesInv, NEW e, FixChoice(e)
    PROVE  Fixing(work)'
<1>1. call'.on = e /\ work' = <<Task("fix", e, e)>>
  BY DEF FixChoice, EntryCall, NoCall
<1>2. DOMAIN work' = {1} /\ work'[1].op = "fix" /\ work'[1].e = e
  <2>1. PICK t : t = Task("fix", e, e)
    OBVIOUS
  <2>2. t.op = "fix" /\ t.e = e
    BY <2>1 DEF Task
  <2> DEFINE w == <<t>>
  <2>3. DOMAIN w = {1} /\ w[1] = t
    OBVIOUS
  <2>4. work' = w
    BY <1>1, <2>1
  <2> HIDE DEF w
  <2> QED BY <2>2, <2>3, <2>4
<1>3. TodoBy(work', "fix") = {e} /\ TodoBy(work', "build") = {} /\ AllDo(work', {"fix", "nothing"})
  BY <1>2 DEF TodoBy, AllDo
<1>4. FixedUpTo({}, work)'
  BY <1>1, <1>3 DEF FixedUpTo
<1> QED BY <1>3, <1>4 DEF Fixing

(* Which steps a call of FixChoice leaves possible.                        *)
FixSteps ==
    \/ \E m : ToEntry(m)
    \/ BuildDone \/ BuildNothing \/ BuildUses \/ BuildEntry
    \/ FixChildren \/ FixNothing \/ WrapCase

LEMMA FixStepsFix ==
    ASSUME EntriesInv, DOMAIN nodeOf = Entries, Fixing(work), FixSteps
    PROVE  Fixing(work)'
BY ToEntryFixes, BuildStepsFix, FixChildrenFixes, FixNothingFixes, WrapCaseFixes DEF FixSteps

OtherSteps ==
    \/ ClimbUp \/ ResolveHere \/ ResolveImport \/ ResolveNothing
    \/ Walked \/ WalkUp \/ WalkHere \/ WalkDown \/ WalkIO \/ syntheticOperationIOEntry \/ WalkNowhere
    \/ Postpone \/ Graft \/ CopyNothing \/ Copy \/ Merge \/ MergeDuplicate
    \/ StartDeviation \/ DeviateNothing \/ DeviateUnknown \/ DeviateNotSupported
    \/ DeviateAddOrReplace \/ DeviateDelete

LEMMA OtherWork ==
    ASSUME OtherSteps
    PROVE  \E op \in {"climb", "walk", "graft", "copy", "merge", "deviation", "deviate"} : Now(op)
<1>1. CASE ClimbUp \/ AtRoot
  <2>1. Now("climb")
    BY <1>1 DEF ClimbUp, AtRoot
  <2> QED BY <2>1
<1>2. CASE Walked \/ Walking \/ ToIO
  <2>1. Now("walk")
    BY <1>2 DEF Walked, ToIO, Walking
  <2> QED BY <2>1
<1>3. CASE Postpone \/ Graft
  <2>1. Now("graft")
    BY <1>3 DEF Postpone, Graft
  <2> QED BY <2>1
<1>4. CASE Copy \/ Merge \/ MergeDuplicate \/ CopyNothing
  <2>1. Now("copy") \/ Now("merge")
    BY <1>4 DEF CopyNothing, Copy, Merge, MergeDuplicate, Copying
  <2> QED BY <2>1
<1>5. CASE StartDeviation
  <2>1. Now("deviation")
    BY <1>5 DEF StartDeviation
  <2> QED BY <2>1
<1>6. CASE DeviateNothing \/ DeviateUnknown \/ DeviateNotSupported \/ DeviateAddOrReplace \/ DeviateDelete
  <2>1. Now("deviate")
    BY <1>6 DEF DeviateNothing, DeviateUnknown, DeviateNotSupported, DeviateAddOrReplace, DeviateDelete, Deviating
  <2> QED BY <2>1
<1>7. ResolveHere \/ ResolveImport \/ ResolveNothing => AtRoot
  BY DEF ResolveHere, ResolveImport, ResolveNothing
<1>8. WalkUp \/ WalkHere \/ WalkDown \/ WalkNowhere => Walking
  BY DEF WalkUp, WalkHere, WalkDown, WalkNowhere
<1>9. WalkIO \/ syntheticOperationIOEntry => ToIO
  BY DEF WalkIO, syntheticOperationIOEntry
<1> QED BY <1>1, <1>2, <1>3, <1>4, <1>5, <1>6, <1>7, <1>8, <1>9 DEF OtherSteps

(* What a step does to the records: only a call starts another call.       *)
LEMMA CallStays ==
    ASSUME FixSteps \/ OtherSteps, "op" \in DOMAIN call
    PROVE  "op" \in DOMAIN call' /\ call'.op = call.op
<1>1. CASE FixSteps
  BY <1>1 DEF FixSteps, ToEntry, BuildDone, BuildNothing, BuildUses, BuildEntry, FixChildren, FixNothing, WrapCase
<1>2. CASE ClimbUp \/ ResolveHere \/ ResolveImport \/ ResolveNothing
  BY <1>2 DEF ClimbUp, ResolveHere, ResolveImport, ResolveNothing
<1>3. CASE Walked \/ WalkUp \/ WalkHere \/ WalkDown \/ WalkIO \/ syntheticOperationIOEntry \/ WalkNowhere
  BY <1>3 DEF Walked, WalkUp, WalkHere, WalkDown, WalkIO, syntheticOperationIOEntry, WalkNowhere, Stop, GoOn
<1>4. CASE Postpone \/ Graft
  <2>1. \/ call' = [call EXCEPT !.skipped = call.skipped + 1]
        \/ call' = [call EXCEPT !.processed = call.processed + 1]
    BY <1>4 DEF Postpone, Graft
  <2> QED BY <2>1
<1>5. CASE CopyNothing \/ Copy \/ Merge \/ MergeDuplicate
  BY <1>5 DEF CopyNothing, Copy, Merge, MergeDuplicate
<1>6. CASE StartDeviation \/ DeviateNothing \/ DeviateUnknown \/ DeviateNotSupported \/ DeviateAddOrReplace \/ DeviateDelete
  <2>1. UNCHANGED call \/ \E errors : Fail(errors)
    BY <1>6 DEF StartDeviation, DeviateNothing, DeviateUnknown, DeviateNotSupported, DeviateAddOrReplace, DeviateDelete
  <2>2. ASSUME NEW errors, Fail(errors) PROVE "op" \in DOMAIN call' /\ call'.op = call.op
    BY <2>2 DEF Fail
  <2> QED BY <2>1, <2>2
<1> QED BY <1>1, <1>2, <1>3, <1>4, <1>5, <1>6 DEF OtherSteps

LEMMA NodesStay ==
    ASSUME FixSteps \/ OtherSteps, DOMAIN nodeOf = Entries
    PROVE  DOMAIN nodeOf' = Entries
<1>1. ASSUME NEW e, NEW errors, Report(e, errors) PROVE DOMAIN nodeOf' = Entries
  BY <1>1 DEF Report
<1>2. CASE UNCHANGED nodeOf
  BY <1>2
<1>3. ASSUME NEW m, NEW x, NewRoot(m, x) PROVE DOMAIN nodeOf' = Entries
  BY <1>3 DEF NewRoot
<1>4. CASE FixSteps
  <2>1. (\E m : ToEntry(m)) => \E m, x : NewRoot(m, x)
    BY DEF ToEntry
  <2>2. BuildUses => UNCHANGED nodeOf \/ \E e, errors : Report(e, errors)
    BY DEF BuildUses
  <2>3. BuildEntry => DOMAIN nodeOf' = DOMAIN nodeOf
    BY DEF BuildEntry
  <2>4. WrapCase => DOMAIN nodeOf' = DOMAIN nodeOf
    BY DEF WrapCase
  <2> QED BY <1>1, <1>2, <1>3, <1>4, <2>1, <2>2, <2>3, <2>4
          DEF FixSteps, BuildDone, BuildNothing, FixChildren, FixNothing
<1>5. CASE ClimbUp \/ ResolveHere \/ ResolveImport \/ ResolveNothing
  <2>1. ResolveImport => UNCHANGED nodeOf \/ \E m, x : NewRoot(m, x)
    BY DEF ResolveImport
  <2>2. ResolveNothing => \E e, errors : Report(e, errors)
    BY DEF ResolveNothing
  <2> QED BY <1>1, <1>2, <1>3, <1>5, <2>1, <2>2 DEF ClimbUp, ResolveHere
<1>6. CASE Walked \/ WalkUp \/ WalkHere \/ WalkDown \/ WalkIO \/ syntheticOperationIOEntry \/ WalkNowhere
  BY <1>6 DEF Walked, WalkUp, WalkHere, WalkDown, WalkIO, syntheticOperationIOEntry, WalkNowhere, Stop, GoOn
<1>7. CASE Postpone \/ Graft
  <2>1. Postpone => \E e, errors : Report(e, errors)
    BY DEF Postpone
  <2>2. Graft => DOMAIN nodeOf' = DOMAIN nodeOf
    BY DEF Graft
  <2> QED BY <1>1, <1>7, <2>1, <2>2
<1>8. CASE CopyNothing \/ Copy \/ Merge \/ MergeDuplicate
  <2>1. Copy \/ Merge => \E x, c, up, ns : Copied(x, c, up, ns)
    BY DEF Copy, Merge
  <2>2. ASSUME NEW x, NEW c, NEW up, NEW ns, Copied(x, c, up, ns) PROVE DOMAIN nodeOf' = Entries
    BY <2>2 DEF Copied
  <2>3. MergeDuplicate => \E e, errors : Report(e, errors)
    BY DEF MergeDuplicate
  <2> QED BY <1>1, <1>2, <1>8, <2>1, <2>2, <2>3 DEF CopyNothing
<1>9. CASE StartDeviation \/ DeviateNothing \/ DeviateUnknown \/ DeviateNotSupported
  <2>1. DeviateNotSupported => UNCHANGED nodeOf \/ \E e, errors : Report(e, errors)
    BY DEF DeviateNotSupported, Removed
  <2> QED BY <1>1, <1>2, <1>9, <2>1 DEF StartDeviation, DeviateNothing, DeviateUnknown
<1>10. CASE DeviateAddOrReplace \/ DeviateDelete
  <2>1. ASSUME NEW e, NEW s, NEW min, NEW max PROVE DOMAIN Bounds(e, s, min, max) = Entries
    BY DEF Bounds
  <2>2. DeviateAddOrReplace =>
          DOMAIN nodeOf' = DOMAIN Bounds(work[1].e, work[1].x, nodeOf[work[1].x].min, nodeOf[work[1].x].max)
    BY DEF DeviateAddOrReplace
  <2>3. DeviateDelete => DOMAIN nodeOf' = DOMAIN Bounds(work[1].e, work[1].x, 0, NoLimit)
    BY DEF DeviateDelete
  <2> QED BY <1>10, <2>1, <2>2, <2>3
<1> QED BY <1>4, <1>5, <1>6, <1>7, <1>8, <1>9, <1>10 DEF OtherSteps

(* What is below an entry stays in a set that has the children of its own. *)
Below(S) == S \cup UNION {{dirOf[x][k] : k \in DOMAIN dirOf[x]} : x \in S}
Generations(e, f) == f = [n \in 0..Cardinality(entries) |-> IF n = 0 THEN {e} ELSE Below(f[n - 1])]

LEMMA GenerationsExist ==
    ASSUME IsFiniteSet(entries), NEW F, NEW e \in F, \A a \in F : \A n \in DOMAIN dirOf[a] : dirOf[a][n] \in F
    PROVE  \E f : Generations(e, f) /\ EntriesBelow(e) = f[Cardinality(entries)]
<1> DEFINE X == SUBSET F
           N == Cardinality(entries)
           step == [i \in 1..N |-> [S \in X |-> Below(S)]]
<1>1. N \in Nat /\ {e} \in X
  BY FS_CardinalityType
<1>2. step \in [1..N -> [X -> X]]
  BY DEF Below
<1> HIDE DEF X, N
<1>3. PICK g \in [0..N -> X] : g[0] = {e} /\ \A i \in 1..N : g[i] = step[i][g[i - 1]]
  <2> HIDE DEF step
  <2> QED BY <1>1, <1>2, RecursionExists
<1>4. ASSUME NEW i \in 1..N PROVE g[i] = Below(g[i - 1])
  <2>1. i - 1 \in 0..N
    BY <1>1
  <2> QED BY <1>3, <2>1
<1> HIDE DEF step
<1>5. Generations(e, g)
  <2> DEFINE h == [n \in 0..N |-> IF n = 0 THEN {e} ELSE Below(g[n - 1])]
  <2>1. ASSUME NEW i \in 0..N PROVE h[i] = g[i]
    <3>1. CASE i = 0
      BY <1>3, <3>1
    <3>2. CASE i # 0
      <4>1. i \in 1..N
        BY <1>1, <3>2
      <4> QED BY <1>4, <3>2, <4>1
    <3> QED BY <3>1, <3>2
  <2>2. h = [i \in 0..N |-> h[i]] /\ g = [i \in 0..N |-> g[i]]
    BY <1>3
  <2> HIDE DEF h
  <2>3. h = g
    BY <2>1, <2>2
  <2> QED BY <2>3 DEF h, Generations, N
<1> QED BY <1>5 DEF Generations, Below, EntriesBelow

LEMMA BelowWithin ==
    ASSUME IsFiniteSet(entries), NEW F, NEW e \in F, \A a \in F : \A n \in DOMAIN dirOf[a] : dirOf[a][n] \in F
    PROVE  EntriesBelow(e) \subseteq F
<1> DEFINE N == Cardinality(entries)
<1>1. N \in Nat
  BY FS_CardinalityType
<1>2. PICK f : Generations(e, f) /\ EntriesBelow(e) = f[N]
  BY GenerationsExist
<1>3. f[0] = {e} /\ \A i \in 1..N : f[i] = Below(f[i - 1])
  <2>1. f = [n \in 0..N |-> IF n = 0 THEN {e} ELSE Below(f[n - 1])]
    BY <1>2 DEF Generations
  <2> HIDE DEF N
  <2>2. 0 \in 0..N /\ \A i \in 1..N : i \in 0..N /\ i # 0
    BY <1>1
  <2> QED BY <2>1, <2>2
<1> HIDE DEF N
<1>4. \A n \in Nat : n + 1 <= N => f[n + 1] = Below(f[n])
  <2>1. \A n \in Nat : n + 1 <= N => n + 1 \in 1..N /\ n + 1 - 1 = n
    BY <1>1
  <2> QED BY <1>3, <2>1
<1> DEFINE T == {n \in Nat : n <= N => f[n] \subseteq F}
<1>5. 0 \in T
  BY <1>3
<1>6. ASSUME NEW n \in T PROVE n + 1 \in T
  <2> SUFFICES ASSUME n + 1 <= N PROVE f[n + 1] \subseteq F
    OBVIOUS
  <2>1. f[n] \subseteq F /\ f[n + 1] = Below(f[n])
    BY <1>1, <1>4
  <2> QED BY <2>1 DEF Below
<1>7. N \in T
  <2>1. T \in SUBSET Nat
    OBVIOUS
  <2> HIDE DEF T
  <2> QED BY <1>1, <1>5, <1>6, <2>1, SetInduction
<1> QED BY <1>1, <1>2, <1>7

----------------------------------------------------------------------------
LEMMA FixInvInit ==
    ASSUME EntriesIdle
    PROVE  FixInv
BY DEF EntriesIdle, FixInv, Unallocated, NoCall

LEMMA FixingStays ==
    ASSUME UNCHANGED evars, Fixing(work)
    PROVE  Fixing(work)'
<1>1. PICK F : FixedUpTo(F, work)
  BY DEF Fixing
<1>2. UNCHANGED <<entries, dirOf, nodeOf, work, call>>
  BY DEF evars, links
<1>3. FixedUpTo(F, work)'
  BY <1>1, <1>2 DEF FixedUpTo, ToWrap
<1> QED BY <1>2, <1>3 DEF Fixing

LEMMA FixInvNext ==
    ASSUME EntriesInv, FixInv, [EntriesNext]_<<probe, evars>>
    PROVE  FixInv'
<1>1. CASE UNCHANGED evars
  <2>1. UNCHANGED <<nodeOf, call>>
    BY <1>1 DEF evars
  <2> QED BY <1>1, <2>1, FixingStays DEF FixInv
<1>2. CASE FixSteps
  BY <1>2, CallStays, NodesStay, FixStepsFix DEF FixInv
<1>3. CASE OtherSteps
  <2>1. call.op # "fix"
    BY <1>3, OtherWork, FirstDoes DEF FixInv
  <2> QED BY <1>3, <2>1, CallStays, NodesStay DEF FixInv
<1>4. ASSUME NEW e, FixChoice(e) PROVE FixInv'
  <2>1. UNCHANGED nodeOf /\ EntryCall("fix", e, <<>>)
    BY <1>4 DEF FixChoice
  <2>2. "op" \in DOMAIN call'
    BY <2>1 DEF EntryCall, NoCall
  <2> QED BY <1>4, <2>1, <2>2, FixChoiceFixes DEF FixInv
<1>5. ASSUME NEW e, NEW op, NEW parts, EntryCall(op, e, parts), op # "fix", UNCHANGED nodeOf PROVE FixInv'
  <2>1. "op" \in DOMAIN call' /\ call'.op = op
    BY <1>5 DEF EntryCall, NoCall
  <2> QED BY <1>5, <2>1 DEF FixInv
<1>6. ASSUME NEW e, NEW path, FindEntry(e, path) PROVE FixInv'
  <2>1. EntryCall("find", e, path.parts) /\ UNCHANGED nodeOf
    BY <1>6 DEF FindEntry
  <2> QED BY <1>5, <2>1
<1>7. ASSUME NEW e, NEW b, Augment(e, b) \/ ApplyDeviate(e, b) PROVE FixInv'
  <2>1. EntryCall("augment", e, <<>>) \/ EntryCall("deviate", e, <<>>)
    BY <1>7 DEF Augment, ApplyDeviate
  <2>2. UNCHANGED nodeOf
    BY <1>7 DEF Augment, ApplyDeviate
  <2> QED BY <1>5, <2>1, <2>2
<1>8. EntriesNext => \/ UNCHANGED evars \/ FixSteps \/ OtherSteps \/ \E e : FixChoice(e)
                     \/ \E e, path : FindEntry(e, path)
                     \/ \E e, b : Augment(e, b) \/ ApplyDeviate(e, b)
  BY DEF EntriesNext, FixSteps, OtherSteps
<1>9. UNCHANGED <<probe, evars>> => UNCHANGED evars
  OBVIOUS
<1> QED BY <1>1, <1>2, <1>3, <1>4, <1>6, <1>7, <1>8, <1>9

(* Where no two children in order share a name, Dir has every one.         *)
LEMMA NamedOnce ==
    ASSUME NEW e \in entries, OrderLinked(e), LastInDir(e), OneNameEach(e), NEW x \in OrderedOnes(e), NilEntry \notin entries
    PROVE  nameOf[x] \in DOMAIN dirOf[e] /\ dirOf[e][nameOf[x]] = x
<1>1. PICK i \in DOMAIN orderedOf[e] : orderedOf[e][i] = x /\ x # NilEntry
  BY DEF OrderedOnes, ToSet
<1>2. nameOf[x] \in DOMAIN dirOf[e]
  BY <1>1 DEF OrderLinked
<1>3. PICK j \in DOMAIN orderedOf[e] : orderedOf[e][j] = dirOf[e][nameOf[x]]
  BY <1>2 DEF LastInDir
<1>4. dirOf[e][nameOf[x]] \in OrderedOnes(e) /\ nameOf[dirOf[e][nameOf[x]]] = nameOf[x]
  BY <1>2, <1>3 DEF LastInDir, OrderedOnes, ToSet
<1> QED BY <1>2, <1>4 DEF OneNameEach

(* With nothing left to do, what is below the entry is among those done    *)
(* with.                                                                   *)
LEMMA FixedBelow ==
    ASSUME EntriesInv, FixInv
    PROVE  ChoicesSettled
<1> SUFFICES ASSUME work = <<>>, call.op = "fix" PROVE ChoicesFixed
  BY DEF ChoicesSettled, ChoicesFixed
<1>1. PICK F : FixedUpTo(F, work)
  BY DEF FixInv, Fixing
<1>2. TodoBy(work, "fix") = {}
  <2>1. DOMAIN work = {}
    OBVIOUS
  <2> QED BY <2>1 DEF TodoBy
<1>3. call.on \in F /\ \A a \in F : ToWrap(a) = {} /\ \A n \in DOMAIN dirOf[a] : dirOf[a][n] \in F
  BY <1>1, <1>2 DEF FixedUpTo
<1>4. EntriesBelow(call.on) \subseteq F
  BY <1>3, BelowWithin DEF EntriesInv, Trees, Allocated
<1>5. ASSUME NEW e \in EntriesBelow(call.on), nodeOf[e].kind = "choice", nodeOf[e].errors = {}, NEW n \in DOMAIN dirOf[e]
      PROVE  nodeOf[dirOf[e][n]].kind = "case"
  BY <1>3, <1>4, <1>5 DEF ToWrap
<1>6. ASSUME NEW e \in EntriesBelow(call.on), OneNameEach(e), NEW x \in OrderedOnes(e)
      PROVE  nameOf[x] \in DOMAIN dirOf[e] /\ dirOf[e][nameOf[x]] = x
  <2>1. e \in entries
    BY <1>1, <1>4 DEF FixedUpTo
  <2> QED BY <1>6, <2>1, NamedOnce, TreeFacts DEF EntriesInv, Trees, Linked
<1> QED BY <1>5, <1>6 DEF ChoicesFixed

(* For every set of modules and paths: once FixChoice has returned, every  *)
(* choice below its entry that has no error has only cases in Dir, and, if *)
(* no two of its children share a name, in order, whatever was augmented,  *)
(* deviated or looked up before; and building another tree with ToEntry    *)
(* afterwards does not undo it.                                            *)
THEOREM FixedChoicesStay == EntrySpec => []ChoicesSettled
<1>1. Unasked /\ EntriesIdle => EntriesInv /\ FixInv
  BY EntriesInvInit, FixInvInit
<1>2. EntriesInv /\ FixInv /\ [EntriesNext]_<<probe, evars>> => EntriesInv' /\ FixInv'
  BY EntriesInvNext, FixInvNext
<1>3. EntriesInv /\ FixInv => ChoicesSettled
  BY FixedBelow
<1> QED BY <1>1, <1>2, <1>3, PTL DEF EntrySpec
=============================================================================
