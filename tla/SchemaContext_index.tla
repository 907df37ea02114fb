------------------------- MODULE SchemaContext_index -------------------------
(***************************************************************************)
(* Proofs about the indexes of SchemaContext: which modules the imports    *)
(* are bound to, which revision is the default of a name and of a          *)
(* namespace, and which amendments a clean context has applied; for every  *)
(* set of sources and any number of calls.                                 *)
(***************************************************************************)
EXTENDS SchemaContext_proofs, Recursion, SequenceTheorems

----------------------------------------------------------------------------
(* Maxima.                                                                 *)

(* The newest of finitely many sources.                                    *)
LEMMA BestIsNewest ==
    ASSUME NEW S \in SUBSET Sources, S # {}
    PROVE  Best(S) \in S /\ \A t \in S : Best(S).rev >= t.rev
<1> DEFINE Newer(s) == {t \in S : t.rev > s.rev}
           T == {Newer(s) : s \in S}
<1>1. \A s \in S : s.rev \in Nat
  BY SourcesAssumption, RevsAssumption DEF IsSource
<1>2. IsFiniteSet(S)
  BY SourcesAssumption, FS_Subset
<1>3. T \subseteq FiniteSubsetsOf(S) /\ T # {}
  <2>1. \A s \in S : Newer(s) \subseteq S /\ IsFiniteSet(Newer(s))
    BY <1>2, FS_Subset
  <2> QED
    BY <2>1 DEF FiniteSubsetsOf
<1>4. PICK X \in T : \A Y \in T : <<Y, X>> \notin StrictSubsetOrdering(S)
  <2> HIDE DEF T
  <2> QED
    BY <1>3, FS_StrictSubsetOrderingWellFounded, WFMin
<1>5. PICK s \in S : X = Newer(s)
  OBVIOUS
<1>6. ASSUME NEW t \in S, t.rev > s.rev
      PROVE  FALSE
  <2>1. Newer(t) \subseteq Newer(s) /\ t \in Newer(s) /\ t \notin Newer(t)
    BY <1>1, <1>6
  <2>2. Newer(t) \in T /\ Newer(t) # Newer(s) /\ Newer(s) \subseteq S
    BY <2>1
  <2> QED
    BY <1>4, <1>5, <2>1, <2>2 DEF StrictSubsetOrdering
<1>7. \A t \in S : s.rev >= t.rev
  BY <1>1, <1>6
<1> QED
  BY <1>7 DEF Best

----------------------------------------------------------------------------
(* The inductive invariant.                                                *)
Module == [src : Sources, bound : Seq(Keys), implemented : BOOLEAN, requested : BOOLEAN]

(* The module objects, the load order o that enumerates them, and the      *)
(* defaults D of the names and E of the namespaces.                        *)
Typed(M) == \A k \in DOMAIN M : k \in Keys /\ M[k] \in Module /\ KeyOf(M[k].src) = k

Enumerated(M, o) == o \in Seq(Keys) /\ ToSet(o) = DOMAIN M

Better(M, j, k) == \/ M[j].implemented /\ ~M[k].implemented
                   \/ M[j].implemented = M[k].implemented /\ j[2] > k[2]

(* The index D has an entry for each place of P, and X says where a module *)
(* belongs: no module of S is better than the default of its place.        *)
Unbeaten(M, X, P, S, D) ==
    /\ D \in [P -> DOMAIN M \cup {Nil}]
    /\ \A p \in P :
         IF D[p] = Nil THEN \A j \in S : X[j] # p
         ELSE /\ D[p] \in DOMAIN M /\ X[D[p]] = p
              /\ \A j \in S : X[j] = p => ~Better(M, j, D[p])

NameIn(M)  == [k \in DOMAIN M |-> k[1]]
SpaceIn(M) == [k \in DOMAIN M |-> M[k].src.ns]

Defaults(M, D, E) == /\ Unbeaten(M, NameIn(M), Names, DOMAIN M, D)
                     /\ Unbeaten(M, SpaceIn(M), Spaces, DOMAIN M, E)

Indexed(M, o, D, E) == Typed(M) /\ Enumerated(M, o) /\ Defaults(M, D, E)

(* An import may be bound to the module k.                                 *)
Resolves(k, imp) ==
    LET reg == registeredSource(imp.name, 0) IN
    /\ k[1] = imp.name
    /\ imp.rev # 0 => k[2] = imp.rev
    /\ imp.rev = 0 /\ reg # Nil => k[2] = reg.rev

(* The imports of k that are bound, and those that are all bound.          *)
Binds(M, k) ==
    /\ Len(M[k].bound) <= Len(M[k].src.imports)
    /\ \A i \in DOMAIN M[k].bound :
         M[k].bound[i] \in DOMAIN M /\ Resolves(M[k].bound[i], M[k].src.imports[i])
Bound(M, k) == Binds(M, k) /\ Len(M[k].bound) = Len(M[k].src.imports)
NextImport(M, k) == M[k].src.imports[Len(M[k].bound) + 1]

(* A load in progress: each module of l waits for an import of its own,    *)
(* the one that the next of them resolves, and the others wait for none.   *)
Waiting(l) ==
    /\ l \in Seq(DOMAIN mods)
    /\ \A i, j \in DOMAIN l : l[i] = l[j] => i = j
    /\ \A k \in DOMAIN mods : Binds(mods, k)
    /\ \A k \in DOMAIN mods \ ToSet(l) : Bound(mods, k)
    /\ \A j \in DOMAIN l : j + 1 \in DOMAIN l => Resolves(l[j + 1], NextImport(mods, l[j]))
                                                /\ ~Bound(mods, l[j])

(* The amendments of the modules of M that are implemented are applied.    *)
Amended(M) ==
    LET I == {k \in DOMAIN M : M[k].implemented} IN
    /\ {k \in I : M[k].src.amends # {}} = applied
    /\ \A k \in I : {M[k].bound[i] : i \in M[k].src.amends} \subseteq I

Current == /\ Indexed(mods, order, modules, byNS)
           /\ ~Loading => \A k \in DOMAIN mods : Bound(mods, k)
           /\ ~Loading /\ ~dirty => Amended(mods)

(* What the snapshot sn restores has the properties of a context in which  *)
(* no load is in progress.                                                 *)
Restorable(sn) == /\ Indexed(sn.mods, sn.order, sn.modules, sn.byNS)
                  /\ \A k \in DOMAIN sn.mods : Bound(sn.mods, k)
                  /\ ~sn.dirty => Amended(sn.mods)

InLoad == Loading => Waiting(importing) /\ Restorable(snap)

Inputs == catalog \subseteq Sources /\ allImplemented \in BOOLEAN

JInv == Current /\ InLoad /\ Inputs
----------------------------------------------------------------------------
(* Finding a source.                                                       *)
LEMMA RegisteredSource ==
    ASSUME catalog \subseteq Sources, NEW n, NEW r, registeredSource(n, r) # Nil
    PROVE  LET s == registeredSource(n, r) IN
           s \in Sources /\ s.name = n /\ (r # 0 => s.rev = r)
<1> DEFINE S == {s \in catalog : s.name = n /\ (r = 0 \/ s.rev = r)}
<1>1. S # {} /\ registeredSource(n, r) = Best(S)
  BY DEF registeredSource
<1>2. S \in SUBSET Sources
  OBVIOUS
<1>3. Best(S) \in S
  <2> HIDE DEF S
  <2> QED
    BY <1>1, <1>2, BestIsNewest
<1> QED
  BY <1>1, <1>3

LEMMA FindModuleDirect ==
    ASSUME NEW d, NEW n, NEW r, findModuleDirect(d, n, r) # Nil
    PROVE  LET s == findModuleDirect(d, n, r) IN
           s \in Sources /\ s.name = n /\ (r # 0 => s.rev = r)
<1> DEFINE S == {s \in Sources : s.dir = d /\ s.name = n}
           P == IF r = 0 THEN {s \in S : s.plain} ELSE {s \in S : s.rev = r /\ ~s.plain}
           Q == IF r = 0 THEN {s \in S : ~s.plain}
                ELSE {s \in S : s.rev = r /\ s.plain /\ s.fault # "parse"}
<1>1. PICK T \in {P, Q} : T # {} /\ findModuleDirect(d, n, r) = Best(T)
  BY DEF findModuleDirect
<1>2. T \subseteq S /\ (r # 0 => \A s \in T : s.rev = r)
  BY <1>1
<1>3. Best(T) \in T
  BY <1>1, <1>2, BestIsNewest
<1> QED
  BY <1>1, <1>2, <1>3

(* What is found for an import has its name and its revision, and it is    *)
(* the newest registered source if the import names no revision.           *)
LEMMA FoundSource ==
    ASSUME catalog \subseteq Sources, NEW n, NEW r, NEW s,
           s = findSourcePathRevision(n, r), s # Nil
    PROVE  /\ s \in Sources /\ s.name = n
           /\ r # 0 => s.rev = r
           /\ r = 0 /\ registeredSource(n, 0) # Nil => s = registeredSource(n, 0)
<1>1. CASE registeredSource(n, r) # Nil
  BY <1>1, RegisteredSource DEF findSourcePathRevision
<1>2. CASE registeredSource(n, r) = Nil
  <2>1. PICK d : s = findModuleDirect(d, n, r)
    BY <1>2 DEF findSourcePathRevision
  <2> QED
    BY <1>2, <2>1, FindModuleDirect
<1> QED
  BY <1>1, <1>2

----------------------------------------------------------------------------
(* The defaults.                                                           *)

(* One module more is registered.                                         *)
LEMMA PreferredKeeps ==
    ASSUME NEW M, Typed(M), NEW P, NEW X \in [DOMAIN M -> P], NEW D,
           NEW S \in SUBSET DOMAIN M, NEW k \in DOMAIN M, Unbeaten(M, X, P, S, D)
    PROVE  Unbeaten(M, X, P, S \cup {k}, preferred(M, D, X[k], k))
<1> DEFINE E == preferred(M, D, X[k], k)
<1>1. E \in [P -> DOMAIN M \cup {Nil}] /\ \A p \in P : p # X[k] => E[p] = D[p]
  BY DEF preferred, Unbeaten
<1>2. E[X[k]] = IF preferModuleDefault(M, k, D[X[k]]) THEN k ELSE D[X[k]]
  BY DEF preferred, Unbeaten
<1> HIDE DEF E
<1>3. \A j \in DOMAIN M : j[2] \in Nat /\ M[j].implemented \in BOOLEAN /\ j # Nil
  BY RevsAssumption, ContextNilAssumption DEF Typed, Keys, Module
<1>4. ASSUME NEW p \in P
      PROVE  IF E[p] = Nil THEN \A j \in S \cup {k} : X[j] # p
             ELSE /\ E[p] \in DOMAIN M /\ X[E[p]] = p
                  /\ \A j \in S \cup {k} : X[j] = p => ~Better(M, j, E[p])
  <2>1. CASE p # X[k]
    BY <1>1, <2>1 DEF Unbeaten
  <2>2. CASE p = X[k] /\ preferModuleDefault(M, k, D[p])
    <3>1. E[p] = k /\ k # Nil
      BY <1>2, <1>3, <2>2
    <3>2. ASSUME NEW j \in S \cup {k}, X[j] = p PROVE ~Better(M, j, k)
      BY <1>3, <2>2, <3>2 DEF Unbeaten, Better, preferModuleDefault
    <3> QED
      BY <2>2, <3>1, <3>2
  <2>3. CASE p = X[k] /\ ~preferModuleDefault(M, k, D[p])
    <3>1. E[p] = D[p] /\ D[p] # Nil
      BY <1>2, <2>3 DEF preferModuleDefault
    <3>2. ~Better(M, k, D[p])
      BY <1>3, <2>3, <3>1 DEF Unbeaten, Better, preferModuleDefault
    <3> QED
      BY <3>1, <3>2 DEF Unbeaten
  <2> QED
    BY <2>1, <2>2, <2>3
<1> QED
  BY <1>1, <1>4 DEF E, Unbeaten

(* The modules of S are registered one after the other.                    *)
LEMMA PreferredInOrder ==
    ASSUME NEW M, Typed(M), Enumerated(M, order), NEW P, NEW X \in [DOMAIN M -> P], NEW D,
           NEW S \in SUBSET DOMAIN M, Unbeaten(M, X, P, DOMAIN M \ S, D)
    PROVE  Unbeaten(M, X, P, DOMAIN M, preferredInOrder(M, S, D, X))
<1> DEFINE N == Len(order)
           Z == [P -> DOMAIN M \cup {Nil}]
           step == [i \in 1 .. N |-> [F \in Z |->
                      IF order[i] \in S THEN preferred(M, F, X[order[i]], order[i]) ELSE F]]
           Is(f) == f = [i \in 0 .. N |->
                      IF i = 0 THEN D
                      ELSE IF order[i] \in S THEN preferred(M, f[i - 1], X[order[i]], order[i])
                      ELSE f[i - 1]]
<1>1. N \in Nat /\ \A i \in 1 .. N : order[i] \in DOMAIN M
  BY DEF Enumerated, ToSet
<1>2. \A i \in 1 .. N : \A F \in Z : preferred(M, F, X[order[i]], order[i]) \in Z
  BY <1>1 DEF preferred
<1>3. step \in [1 .. N -> [Z -> Z]]
  BY <1>2
<1>4. D \in Z
  BY DEF Unbeaten
<1>5. PICK g \in [0 .. N -> Z] : g[0] = D /\ \A i \in 1 .. N : g[i] = step[i][g[i - 1]]
  <2>1. N \in Nat
    BY <1>1
  <2> HIDE DEF Z, step, N
  <2> QED
    BY <1>3, <1>4, <2>1, RecursionExists
<1>6. Is(g)
  <2>1. \A i \in 0 .. N : i # 0 => i - 1 \in 0 .. N /\ g[i - 1] \in Z /\ i \in 1 .. N
    BY <1>1
  <2>2. \A i \in 0 .. N : i # 0 => step[i][g[i - 1]] =
          IF order[i] \in S THEN preferred(M, g[i - 1], X[order[i]], order[i]) ELSE g[i - 1]
    BY <2>1
  <2> HIDE DEF step, Z
  <2>3. \A i \in 0 .. N : g[i] =
          IF i = 0 THEN D
          ELSE IF order[i] \in S THEN preferred(M, g[i - 1], X[order[i]], order[i])
          ELSE g[i - 1]
    BY <1>5, <2>1, <2>2
  <2> QED
    BY <2>3
<1> DEFINE upTo[i \in 0 .. Len(order)] ==
             IF i = 0 THEN D
             ELSE IF order[i] \in S THEN preferred(M, upTo[i - 1], X[order[i]], order[i])
             ELSE upTo[i - 1]
<1>7. Is(upTo) /\ preferredInOrder(M, S, D, X) = upTo[N]
  BY <1>6 DEF preferredInOrder
<1> HIDE DEF upTo
<1> DEFINE Seen(n) == (DOMAIN M \ S) \cup {order[j] : j \in 1 .. n}
           T == {n \in Nat : n <= N => Unbeaten(M, X, P, Seen(n), upTo[n])}
<1>8. 0 \in T
  <2>1. upTo[0] = D /\ Seen(0) = DOMAIN M \ S
    BY <1>1, <1>7
  <2> QED
    BY <2>1
<1>9. ASSUME NEW n \in T PROVE n + 1 \in T
  <2> SUFFICES ASSUME n + 1 <= N PROVE Unbeaten(M, X, P, Seen(n + 1), upTo[n + 1])
    OBVIOUS
  <2> DEFINE k == order[n + 1]
  <2>1. k \in DOMAIN M /\ Seen(n) \subseteq DOMAIN M /\ Unbeaten(M, X, P, Seen(n), upTo[n])
    BY <1>1
  <2>2. Seen(n + 1) = Seen(n) \cup {k}
    BY <1>1
  <2>3. upTo[n + 1] = IF k \in S THEN preferred(M, upTo[n], X[k], k) ELSE upTo[n]
    BY <1>1, <1>7
  <2>4. k \notin S => Seen(n + 1) = Seen(n)
    BY <2>1, <2>2
  <2> HIDE DEF Seen, k
  <2>5. Unbeaten(M, X, P, Seen(n) \cup {k}, preferred(M, upTo[n], X[k], k))
    BY <2>1, PreferredKeeps
  <2> QED
    BY <2>1, <2>2, <2>3, <2>4, <2>5
<1>10. Unbeaten(M, X, P, Seen(N), upTo[N])
  <2> HIDE DEF T
  <2>1. T \in SUBSET Nat
    BY DEF T
  <2>2. N \in T
    BY <1>1, <1>8, <1>9, <2>1, SetInduction
  <2> QED
    BY <1>1, <2>2 DEF T
<1>11. Seen(N) = DOMAIN M
  <2>1. DOMAIN order = 1 .. N /\ {order[j] : j \in DOMAIN order} = DOMAIN M
    BY DEF Enumerated, ToSet
  <2> QED
    BY <2>1
<1> QED
  BY <1>7, <1>10, <1>11
----------------------------------------------------------------------------
(* The rebuild.                                                            *)

(* The imports of a loaded module are bound to loaded modules.             *)
LEMMA NamedAreLoaded ==
    ASSUME Typed(mods), NEW k \in DOMAIN mods, Bound(mods, k)
    PROVE  /\ Named(k, mods[k].src.amends) \subseteq DOMAIN mods
           /\ Named(k, mods[k].src.refs) \subseteq DOMAIN mods
<1>1. /\ mods[k].src \in Sources /\ mods[k].bound \in Seq(Keys)
      /\ mods[k].src.imports \in Seq([name : Names, rev : Revs])
  BY SourcesAssumption DEF Typed, Module, IsSource
<1>2. DOMAIN mods[k].bound = DOMAIN mods[k].src.imports
  BY <1>1 DEF Bound
<1>3. mods[k].src.amends \cup mods[k].src.refs \subseteq DOMAIN mods[k].bound
  BY <1>1, <1>2, SourcesAssumption DEF IsSource
<1> QED
  BY <1>3 DEF Bound, Binds, Named

(* There are at most as many modules as the load order has entries.        *)
LEMMA OrderBounds ==
    ASSUME Enumerated(mods, order)
    PROVE  /\ Len(order) \in Nat /\ DOMAIN order = 1 .. Len(order)
           /\ \A i \in 1 .. Len(order) : order[i] \in DOMAIN mods
           /\ IsFiniteSet(DOMAIN mods) /\ Cardinality(DOMAIN mods) <= Len(order)
<1>1. /\ Len(order) \in Nat /\ DOMAIN order = 1 .. Len(order)
      /\ {order[i] : i \in DOMAIN order} = DOMAIN mods
  BY DEF Enumerated, ToSet
<1>2. [i \in 1 .. Len(order) |-> order[i]] \in Surjection(1 .. Len(order), DOMAIN mods)
  BY <1>1 DEF Surjection
<1>3. IsFiniteSet(1 .. Len(order)) /\ Cardinality(1 .. Len(order)) = Len(order)
  BY <1>1, FS_Interval
<1>4. IsFiniteSet(DOMAIN mods) /\ Cardinality(DOMAIN mods) <= Len(order)
  BY <1>2, <1>3, FS_Surjection
<1> QED
  BY <1>1, <1>4

Targets(T) == UNION {Named(k, mods[k].src.amends) : k \in T}

(* implementAmendmentTargets reaches a set that its amendments do not      *)
(* leave: each round but the last adds a module.                           *)
LEMMA AmendmentTargets ==
    ASSUME Typed(mods), Enumerated(mods, order), \A k \in DOMAIN mods : Bound(mods, k),
           NEW S \in SUBSET DOMAIN mods
    PROVE  LET T == implementAmendmentTargets(S) IN
           S \subseteq T /\ T \subseteq DOMAIN mods /\ Targets(T) \subseteq T
<1> DEFINE N == Len(order)
           Z == SUBSET DOMAIN mods
           step == [i \in 1 .. N |-> [T \in Z |-> T \cup Targets(T)]]
           round[i \in 0 .. Len(order)] ==
             IF i = 0 THEN S
             ELSE round[i - 1] \cup UNION {Named(k, mods[k].src.amends) : k \in round[i - 1]}
           Is(f) == f = [i \in 0 .. N |->
             IF i = 0 THEN S
             ELSE f[i - 1] \cup UNION {Named(k, mods[k].src.amends) : k \in f[i - 1]}]
<1>1. /\ N \in Nat /\ IsFiniteSet(DOMAIN mods) /\ Cardinality(DOMAIN mods) <= N
  BY OrderBounds
<1>2. \A T \in Z : Targets(T) \in Z
  BY NamedAreLoaded DEF Targets
<1>3. step \in [1 .. N -> [Z -> Z]]
  BY <1>2
<1>4. PICK g \in [0 .. N -> Z] : g[0] = S /\ \A i \in 1 .. N : g[i] = step[i][g[i - 1]]
  <2>1. N \in Nat /\ S \in Z
    BY <1>1
  <2> HIDE DEF Z, step, N
  <2> QED
    BY <1>3, <2>1, RecursionExists
<1>5. Is(g)
  <2>1. \A i \in 0 .. N : i # 0 => i - 1 \in 0 .. N /\ g[i - 1] \in Z /\ i \in 1 .. N
    BY <1>1
  <2>2. \A i \in 0 .. N : i # 0 => step[i][g[i - 1]] = g[i - 1] \cup Targets(g[i - 1])
    BY <2>1
  <2> HIDE DEF step, Z
  <2>3. \A i \in 0 .. N : g[i] = IF i = 0 THEN S ELSE g[i - 1] \cup Targets(g[i - 1])
    BY <1>4, <2>1, <2>2
  <2> QED
    BY <2>3 DEF Targets
<1>6. Is(round) /\ implementAmendmentTargets(S) = round[N]
  BY <1>5 DEF implementAmendmentTargets
<1> HIDE DEF round
<1>7. \A i \in 1 .. N : round[i] = round[i - 1] \cup Targets(round[i - 1])
  BY <1>1, <1>6 DEF Targets
<1>8. round[0] = S
  BY <1>1, <1>6
<1> DEFINE Good(n) == /\ S \subseteq round[n] /\ round[n] \in Z
                      /\ Targets(round[n]) \subseteq round[n] \/ Cardinality(round[n]) >= n
           G == {n \in Nat : n <= N => Good(n)}
<1>9. 0 \in G
  <2>1. Cardinality(S) \in Nat
    BY <1>1, FS_Subset, FS_CardinalityType
  <2> QED
    BY <1>8, <2>1
<1>10. ASSUME NEW n \in G PROVE n + 1 \in G
  <2> SUFFICES ASSUME n + 1 <= N PROVE Good(n + 1)
    OBVIOUS
  <2> DEFINE T == round[n]
             U == round[n + 1]
  <2>1. Good(n) /\ U = T \cup Targets(T)
    BY <1>1, <1>7
  <2>2. S \subseteq U /\ U \in Z
    BY <1>2, <2>1
  <2>3. CASE Targets(T) \subseteq T
    <3>1. U = T
      BY <2>1, <2>3
    <3> QED
      BY <2>2, <2>3, <3>1
  <2>4. CASE ~(Targets(T) \subseteq T)
    <3>1. T # U /\ T \subseteq U
      BY <2>1, <2>4
    <3>2. IsFiniteSet(U)
      BY <1>1, <2>2, FS_Subset
    <3> HIDE DEF T, U
    <3>3. Cardinality(T) <= Cardinality(U) /\ Cardinality(T) # Cardinality(U)
      BY <3>1, <3>2, FS_Subset
    <3>4. Cardinality(T) \in Nat /\ Cardinality(U) \in Nat
      BY <3>1, <3>2, FS_Subset, FS_CardinalityType
    <3>5. Cardinality(T) >= n
      BY <2>1, <2>4 DEF T
    <3>6. Cardinality(U) >= n + 1
      BY <3>3, <3>4, <3>5
    <3> QED
      BY <2>2, <3>6 DEF U
  <2> QED
    BY <2>3, <2>4
<1>11. Good(N)
  <2> HIDE DEF G
  <2>1. G \in SUBSET Nat
    BY DEF G
  <2>2. N \in G
    BY <1>1, <1>9, <1>10, <2>1, SetInduction
  <2> QED
    BY <1>1, <2>2 DEF G
<1>12. Targets(round[N]) \subseteq round[N]
  <2> SUFFICES ASSUME Cardinality(round[N]) >= N PROVE Targets(round[N]) \subseteq round[N]
    BY <1>11
  <2>1. Cardinality(round[N]) <= Cardinality(DOMAIN mods)
    BY <1>1, <1>11, FS_Subset
  <2>2. Cardinality(round[N]) \in Nat /\ Cardinality(DOMAIN mods) \in Nat
    BY <1>1, <1>11, FS_Subset, FS_CardinalityType
  <2>3. Cardinality(round[N]) = Cardinality(DOMAIN mods)
    BY <1>1, <2>1, <2>2
  <2>4. round[N] = DOMAIN mods
    BY <1>1, <1>11, <2>3, FS_Subset
  <2> QED
    BY <1>2, <2>4
<1> QED
  BY <1>6, <1>11, <1>12

(* resolveLeafRefs adds modules that are loaded.                           *)
LEMMA LeafRefTargets ==
    ASSUME Typed(mods), Enumerated(mods, order), \A k \in DOMAIN mods : Bound(mods, k),
           NEW S \in SUBSET DOMAIN mods
    PROVE  LET w == resolveLeafRefs(S) IN S \subseteq w.impl /\ w.impl \subseteq DOMAIN mods
<1> DEFINE N == Len(order)
           Z == [impl : SUBSET DOMAIN mods, err : BOOLEAN]
           After(w, k) == IF k \notin w.impl THEN w
                          ELSE [impl |-> w.impl \cup Named(k, mods[k].src.refs),
                                err  |-> w.err \/ mods[k].src.dangling]
           step == [i \in 1 .. N |-> [w \in Z |-> After(w, order[i])]]
           upTo[i \in 0 .. Len(order)] ==
             IF i = 0 THEN [impl |-> S, err |-> FALSE]
             ELSE IF order[i] \notin upTo[i - 1].impl THEN upTo[i - 1]
             ELSE [impl |-> upTo[i - 1].impl \cup Named(order[i], mods[order[i]].src.refs),
                   err  |-> upTo[i - 1].err \/ mods[order[i]].src.dangling]
           Is(f) == f = [i \in 0 .. N |->
             IF i = 0 THEN [impl |-> S, err |-> FALSE]
             ELSE IF order[i] \notin f[i - 1].impl THEN f[i - 1]
             ELSE [impl |-> f[i - 1].impl \cup Named(order[i], mods[order[i]].src.refs),
                   err  |-> f[i - 1].err \/ mods[order[i]].src.dangling]]
<1>1. N \in Nat /\ \A i \in 1 .. N : order[i] \in DOMAIN mods
  BY OrderBounds
<1>2. \A k \in DOMAIN mods : mods[k].src.dangling \in BOOLEAN
  BY SourcesAssumption DEF Typed, Module, IsSource
<1>3. \A k \in DOMAIN mods : \A w \in Z : After(w, k) \in Z
  BY <1>2, NamedAreLoaded
<1>4. step \in [1 .. N -> [Z -> Z]]
  <2> HIDE DEF After, Z
  <2> QED
    BY <1>1, <1>3
<1>5. PICK g \in [0 .. N -> Z] :
        g[0] = [impl |-> S, err |-> FALSE] /\ \A i \in 1 .. N : g[i] = step[i][g[i - 1]]
  <2>1. N \in Nat /\ [impl |-> S, err |-> FALSE] \in Z
    BY <1>1
  <2> DEFINE base == [impl |-> S, err |-> FALSE]
  <2> HIDE DEF Z, step, N, base
  <2>2. base \in Z
    BY <2>1 DEF base
  <2>3. \E g \in [0 .. N -> Z] : g[0] = base /\ \A i \in 1 .. N : g[i] = step[i][g[i - 1]]
    BY <1>4, <2>1, <2>2, RecursionExists
  <2> QED
    BY <2>3 DEF base
<1>6. Is(g)
  <2>1. \A i \in 0 .. N : i # 0 => i - 1 \in 0 .. N /\ g[i - 1] \in Z /\ i \in 1 .. N
    BY <1>1
  <2>2. \A i \in 0 .. N : i # 0 => step[i][g[i - 1]] = After(g[i - 1], order[i])
    <3> HIDE DEF After, Z
    <3> QED
      BY <2>1
  <2> HIDE DEF step, Z, After
  <2>3. \A i \in 0 .. N : g[i] = IF i = 0 THEN [impl |-> S, err |-> FALSE]
                                ELSE After(g[i - 1], order[i])
    BY <1>5, <2>1, <2>2
  <2> QED
    BY <2>3 DEF After
<1>7. Is(upTo) /\ resolveLeafRefs(S) = upTo[N]
  BY <1>6 DEF resolveLeafRefs
<1> HIDE DEF upTo
<1>8. upTo[0] = [impl |-> S, err |-> FALSE]
  BY <1>1, <1>7
<1>9. ASSUME NEW i \in 1 .. N PROVE upTo[i] = After(upTo[i - 1], order[i])
  <2>1. i \in 0 .. N /\ i # 0
    BY <1>1
  <2> QED
    BY <1>7, <2>1
<1> DEFINE Good(n) == upTo[n] \in Z /\ S \subseteq upTo[n].impl
           G == {n \in Nat : n <= N => Good(n)}
<1>10. 0 \in G
  <2>1. [impl |-> S, err |-> FALSE] \in Z /\ [impl |-> S, err |-> FALSE].impl = S
    OBVIOUS
  <2> HIDE DEF Z
  <2> QED
    BY <1>8, <2>1
<1>11. ASSUME NEW n \in G PROVE n + 1 \in G
  <2> SUFFICES ASSUME n + 1 <= N PROVE Good(n + 1)
    OBVIOUS
  <2>1. Good(n) /\ n + 1 \in 1 .. N /\ (n + 1) - 1 = n
    BY <1>1
  <2>2. /\ Good(n) /\ upTo[n + 1] = After(upTo[n], order[n + 1])
        /\ order[n + 1] \in DOMAIN mods
    <3> HIDE DEF After, Good
    <3> QED
      BY <1>1, <1>9, <2>1
  <2>3. upTo[n + 1] \in Z
    <3> HIDE DEF After, Z
    <3> QED
      BY <1>3, <2>2
  <2>4. upTo[n].impl \subseteq After(upTo[n], order[n + 1]).impl
    OBVIOUS
  <2> QED
    BY <2>2, <2>3, <2>4
<1>12. Good(N)
  <2> HIDE DEF G
  <2>1. G \in SUBSET Nat
    BY DEF G
  <2>2. N \in G
    BY <1>1, <1>10, <1>11, <2>1, SetInduction
  <2> QED
    BY <1>1, <2>2 DEF G
<1> QED
  BY <1>7, <1>12
----------------------------------------------------------------------------
(* The indexes, when one module object changes.                            *)

(* Modules of K only are new or become implemented, and no module changes  *)
(* its place: but for K, the defaults are as good as before.               *)
LEMMA OthersUnbeaten ==
    ASSUME NEW M, Typed(M), NEW N, Typed(N), NEW K, DOMAIN N = DOMAIN M \cup K,
           \A j \in DOMAIN M \ K : N[j].implemented = M[j].implemented,
           \A k \in DOMAIN M : M[k].implemented => N[k].implemented,
           NEW P, NEW X, NEW Y, \A j \in DOMAIN M : X[j] = Y[j], NEW D,
           Unbeaten(M, X, P, DOMAIN M, D)
    PROVE  Unbeaten(N, Y, P, DOMAIN M \ K, D)
<1>1. \A j \in DOMAIN M : M[j].implemented \in BOOLEAN /\ N[j].implemented \in BOOLEAN
  BY DEF Typed, Module
<1>2. D \in [P -> DOMAIN N \cup {Nil}]
  BY DEF Unbeaten
<1>3. ASSUME NEW p \in P, D[p] = Nil, NEW j \in DOMAIN M \ K PROVE Y[j] # p
  BY <1>3 DEF Unbeaten
<1>4. ASSUME NEW p \in P, D[p] # Nil
      PROVE  Y[D[p]] = p /\ \A j \in DOMAIN M \ K : Y[j] = p => ~Better(N, j, D[p])
  <2>1. D[p] \in DOMAIN M /\ X[D[p]] = p /\ \A j \in DOMAIN M : X[j] = p => ~Better(M, j, D[p])
    BY <1>4 DEF Unbeaten
  <2>2. ASSUME NEW j \in DOMAIN M \ K, Y[j] = p PROVE ~Better(N, j, D[p])
    <3>1. ~Better(M, j, D[p]) /\ N[j].implemented = M[j].implemented
      BY <2>1, <2>2
    <3> QED
      BY <1>1, <2>1, <3>1 DEF Better
  <2> QED
    BY <2>1, <2>2
<1> QED
  BY <1>2, <1>3, <1>4 DEF Unbeaten

(* registerNameDefault, after the object of k has been put into N.         *)
LEMMA RegisterKeeps ==
    ASSUME NEW M, Typed(M), NEW N, Typed(N), NEW k, DOMAIN N = DOMAIN M \cup {k},
           \A j \in DOMAIN M \ {k} : N[j].implemented = M[j].implemented,
           k \in DOMAIN M => (M[k].implemented => N[k].implemented),
           \A j \in DOMAIN M : N[j].src.ns = M[j].src.ns,
           Defaults(M, modules, byNS), registerNameDefault(N, k)
    PROVE  Defaults(N, modules', byNS')
<1>1. /\ NameIn(N) \in [DOMAIN N -> Names] /\ SpaceIn(N) \in [DOMAIN N -> Spaces]
      /\ NameIn(N)[k] = k[1] /\ SpaceIn(N)[k] = N[k].src.ns
  BY SourcesAssumption DEF NameIn, SpaceIn, Typed, Module, IsSource, Keys
<1>2. /\ Unbeaten(N, NameIn(N), Names, DOMAIN M \ {k}, modules)
      /\ Unbeaten(N, SpaceIn(N), Spaces, DOMAIN M \ {k}, byNS)
  <2>1. /\ \A j \in DOMAIN M : NameIn(M)[j] = NameIn(N)[j]
        /\ \A j \in DOMAIN M : SpaceIn(M)[j] = SpaceIn(N)[j]
    BY DEF NameIn, SpaceIn
  <2>2. \A j \in DOMAIN M : M[j].implemented => N[j].implemented
    OBVIOUS
  <2> DEFINE K == {k}
  <2>3. DOMAIN N = DOMAIN M \cup K /\ \A j \in DOMAIN M \ K : N[j].implemented = M[j].implemented
    OBVIOUS
  <2> HIDE DEF K
  <2>4. Unbeaten(N, NameIn(N), Names, DOMAIN M \ K, modules)
    BY <2>1, <2>2, <2>3, OthersUnbeaten DEF Defaults
  <2>5. Unbeaten(N, SpaceIn(N), Spaces, DOMAIN M \ K, byNS)
    BY <2>1, <2>2, <2>3, OthersUnbeaten DEF Defaults
  <2> QED
    BY <2>4, <2>5 DEF K
<1>3. /\ k \in DOMAIN N /\ DOMAIN M \ {k} \in SUBSET DOMAIN N
      /\ (DOMAIN M \ {k}) \cup {k} = DOMAIN N
  OBVIOUS
<1>4. Unbeaten(N, NameIn(N), Names, DOMAIN N, preferred(N, modules, k[1], k))
  <2> DEFINE A == DOMAIN M \ {k}
             X == NameIn(N)
  <2>1. A \in SUBSET DOMAIN N /\ X \in [DOMAIN N -> Names] /\ Unbeaten(N, X, Names, A, modules)
    BY <1>1, <1>2
  <2>2. A \cup {k} = DOMAIN N /\ X[k] = k[1]
    BY <1>1
  <2> HIDE DEF A, X
  <2>3. Unbeaten(N, X, Names, A \cup {k}, preferred(N, modules, X[k], k))
    BY <1>3, <2>1, PreferredKeeps
  <2> QED
    BY <2>2, <2>3 DEF X
<1>5. Unbeaten(N, SpaceIn(N), Spaces, DOMAIN N, preferred(N, byNS, N[k].src.ns, k))
  <2> DEFINE A == DOMAIN M \ {k}
             X == SpaceIn(N)
  <2>1. A \in SUBSET DOMAIN N /\ X \in [DOMAIN N -> Spaces] /\ Unbeaten(N, X, Spaces, A, byNS)
    BY <1>1, <1>2
  <2>2. A \cup {k} = DOMAIN N /\ X[k] = N[k].src.ns
    BY <1>1
  <2> HIDE DEF A, X
  <2>3. Unbeaten(N, X, Spaces, A \cup {k}, preferred(N, byNS, X[k], k))
    BY <1>3, <2>1, PreferredKeeps
  <2> QED
    BY <2>2, <2>3 DEF X
<1> QED
  BY <1>4, <1>5 DEF Defaults, registerNameDefault
----------------------------------------------------------------------------
(* The invariant holds after each step.                                    *)
Steady == UNCHANGED <<catalog, applied, allImplemented>>

(* What an import may be bound to depends on the registered sources only.  *)
LEMMA SteadyBound ==
    ASSUME catalog' = catalog, NEW M, mods' = M
    PROVE  /\ \A k : Binds(mods, k)' <=> Binds(M, k)
           /\ \A k : Bound(mods, k)' <=> Bound(M, k)
           /\ \A k, imp : Resolves(k, imp)' <=> Resolves(k, imp)
           /\ applied' = applied => (Amended(mods)' <=> Amended(M))
<1>1. \A n, r : registeredSource(n, r)' = registeredSource(n, r)
  BY DEF registeredSource
<1>2. \A k, imp : Resolves(k, imp)' <=> Resolves(k, imp)
  BY <1>1 DEF Resolves
<1>3. \A k : Binds(mods, k)' <=> Binds(M, k)
  BY <1>2 DEF Binds
<1> QED
  BY <1>2, <1>3 DEF Bound, Amended

LEMMA SteadySnapshot ==
    ASSUME Steady, NEW sn, Restorable(sn), snap' = sn
    PROVE  Restorable(snap)'
<1>1. \A n, r : registeredSource(n, r)' = registeredSource(n, r)
  BY DEF Steady, registeredSource
<1>2. \A k, imp : Resolves(k, imp)' <=> Resolves(k, imp)
  BY <1>1 DEF Resolves
<1>3. \A k : Bound(sn.mods, k) => Bound(snap.mods, k)'
  BY <1>2 DEF Bound, Binds
<1>4. Amended(sn.mods) => Amended(snap.mods)'
  BY DEF Amended, Steady
<1> QED
  BY <1>3, <1>4 DEF Restorable

(* An error brings back what the snapshot holds.                           *)
LEMMA FailIndexed ==
    ASSUME Steady, Inputs, NEW sn, Restorable(sn), Fail(sn)
    PROVE  JInv'
<1>1. /\ mods' = sn.mods /\ order' = sn.order /\ modules' = sn.modules /\ byNS' = sn.byNS
      /\ dirty' = sn.dirty /\ ~Loading'
  BY DEF Fail, restore, Loading
<1>2. /\ \A k : Bound(mods, k)' <=> Bound(sn.mods, k)
      /\ Amended(mods)' <=> Amended(sn.mods)
  BY <1>1, SteadyBound DEF Steady
<1>3. Indexed(mods, order, modules, byNS)'
  BY <1>1 DEF Restorable
<1> QED
  BY <1>1, <1>2, <1>3 DEF JInv, Current, InLoad, Inputs, Steady, Restorable

(* A context in which no load is in progress can be restored.              *)
LEMMA SnapshotRestorable == JInv /\ ~Loading => Restorable(snapshot)
  BY DEF JInv, Current, Restorable, snapshot

(* loadModuleSource puts a new module object behind the modules that are   *)
(* being loaded, one that the innermost of them has asked for.             *)
LEMMA LoadModuleSourceIndexed ==
    ASSUME Indexed(mods, order, modules, byNS), Inputs, Steady,
           NEW s \in Sources, NEW i \in BOOLEAN, NEW q \in BOOLEAN, NEW sn, NEW fs,
           Restorable(sn), Waiting(importing), loadModuleSource(s, i, q, sn, fs),
           importing # <<>> => /\ KeyOf(s) \notin DOMAIN mods /\ ~Bound(mods, Top)
                               /\ Resolves(KeyOf(s), NextImport(mods, Top))
    PROVE  JInv'
<1>1. CASE Fail(sn)
  BY <1>1, FailIndexed
<1>2. CASE ~Fail(sn)
  <2> DEFINE k == KeyOf(s)
             old == k \in DOMAIN mods
             m == [src |-> s, bound |-> <<>>,
                   implemented |-> i \/ allImplemented \/ (old /\ mods[k].implemented),
                   requested |-> q \/ (old /\ mods[k].requested)]
             N == [j \in DOMAIN mods \cup {k} |-> IF j = k THEN m ELSE mods[j]]
  <2>1. /\ mods' = N /\ order' = (IF old THEN order ELSE Append(order, k))
        /\ registerNameDefault(N, k) /\ importing' = Append(importing, k) /\ snap' = sn
        /\ equivalentModuleSource(s)
    BY <1>2 DEF loadModuleSource
  <2>2. k \in Keys /\ m \in Module
    BY SourcesAssumption DEF KeyOf, Keys, Module, IsSource, Inputs
  <2>3. /\ m.src = s /\ m.bound = <<>>
        /\ old => (mods[k].implemented => m.implemented)
    OBVIOUS
  <2>4. /\ DOMAIN N = DOMAIN mods \cup {k} /\ N[k] = m
        /\ \A j \in DOMAIN mods : j # k => N[j] = mods[j]
    OBVIOUS
  <2> HIDE DEF m, N
  <2>5. Typed(N)
    BY <2>2, <2>3, <2>4 DEF Typed, Indexed
  <2>6. Enumerated(N, order')
    <3>1. order \in Seq(Keys) /\ ToSet(order) = DOMAIN mods
      BY DEF Indexed, Enumerated
    <3>2. Append(order, k) \in Seq(Keys) /\ ToSet(Append(order, k)) = ToSet(order) \cup {k}
      <4> DEFINE o == Append(order, k)
      <4>1. /\ o \in Seq(Keys) /\ DOMAIN o = DOMAIN order \cup {Len(order) + 1}
            /\ o[Len(order) + 1] = k /\ \A j \in DOMAIN order : o[j] = order[j]
        BY <2>2, <3>1
      <4> HIDE DEF o, k
      <4>2. {o[j] : j \in DOMAIN o} = {order[j] : j \in DOMAIN order} \cup {k}
        BY <4>1
      <4> QED
        BY <4>1, <4>2 DEF o, ToSet
    <3> QED
      BY <2>1, <2>4, <3>1, <3>2 DEF Enumerated
  <2>7. \A j \in DOMAIN mods : N[j].src.ns = mods[j].src.ns
    <3>1. ASSUME old PROVE s.ns = mods[k].src.ns
      <4>1. [mods[k].src EXCEPT !.dir = s.dir, !.plain = s.plain] = s
        BY <2>1, <3>1 DEF equivalentModuleSource
      <4>2. mods[k].src \in Sources
        BY <3>1 DEF Indexed, Typed, Module
      <4> QED
        BY <4>1, <4>2, SourcesAssumption DEF IsSource
    <3> QED
      BY <2>3, <2>4, <3>1
  <2>8. Indexed(N, order', modules', byNS')
    <3>1. k \in DOMAIN mods => (mods[k].implemented => N[k].implemented)
      BY <2>3, <2>4
    <3>2. \A j \in DOMAIN mods \ {k} : N[j].implemented = mods[j].implemented
      BY <2>4
    <3>3. Typed(mods) /\ Defaults(mods, modules, byNS)
      BY DEF Indexed
    <3> HIDE DEF k
    <3>4. Defaults(N, modules', byNS')
      BY <2>1, <2>4, <2>5, <2>7, <3>1, <3>2, <3>3, RegisterKeeps
    <3> QED
      BY <2>5, <2>6, <3>4 DEF Indexed
  <2>9. /\ \A j : Binds(mods, j)' <=> Binds(N, j)
        /\ \A j : Bound(mods, j)' <=> Bound(N, j)
        /\ \A j, imp : Resolves(j, imp)' <=> Resolves(j, imp)
    BY <2>1, SteadyBound DEF Steady
  <2>10. ASSUME NEW j \in DOMAIN mods, j # k
         PROVE  /\ Binds(mods, j) => Binds(N, j)
                /\ Bound(mods, j) <=> (Binds(mods, j) /\ Len(N[j].bound) = Len(N[j].src.imports))
                /\ NextImport(N, j) = NextImport(mods, j)
    BY <2>4, <2>10 DEF Binds, Bound, NextImport
  <2>11. Binds(N, k)
    <3>1. Len(s.imports) \in Nat
      BY SourcesAssumption DEF IsSource
    <3> QED
      BY <2>3, <2>4, <3>1 DEF Binds
  <2>12. k \notin ToSet(importing) /\ importing \in Seq(DOMAIN mods)
    BY DEF Waiting, ToSet
  <2> DEFINE l == Append(importing, k)
  <2>13. /\ Len(importing) \in Nat /\ Len(l) = Len(importing) + 1
         /\ l \in Seq(DOMAIN N) /\ DOMAIN l = 1 .. Len(importing) + 1
         /\ l[Len(importing) + 1] = k
         /\ DOMAIN importing = 1 .. Len(importing)
         /\ \A j \in 1 .. Len(importing) : /\ l[j] = importing[j]
                                           /\ importing[j] \in DOMAIN mods \ {k}
    BY <2>4, <2>12 DEF ToSet
  <2> HIDE DEF k, l
  <2>14. ToSet(l) = ToSet(importing) \cup {k}
    BY <2>13 DEF ToSet
  <2>15. \A a, b \in DOMAIN l : l[a] = l[b] => a = b
    <3>1. \A a, b \in 1 .. Len(importing) : importing[a] = importing[b] => a = b
      BY <2>13 DEF Waiting
    <3> QED
      BY <2>13, <3>1
  <2>16. \A j \in DOMAIN N : Binds(N, j)
    BY <2>4, <2>10, <2>11 DEF Waiting
  <2>17. \A j \in DOMAIN N \ ToSet(l) : Bound(N, j)
    <3> SUFFICES ASSUME NEW j \in DOMAIN N \ ToSet(l) PROVE Bound(N, j)
      OBVIOUS
    <3>1. j \in DOMAIN mods \ ToSet(importing) /\ j # k
      BY <2>4, <2>14
    <3>2. Bound(mods, j) /\ Binds(N, j)
      BY <2>16, <3>1 DEF Waiting
    <3> QED
      BY <2>4, <3>1, <3>2 DEF Bound
  <2>18. ASSUME NEW j \in DOMAIN l, j + 1 \in DOMAIN l
         PROVE  Resolves(l[j + 1], NextImport(N, l[j])) /\ ~Bound(N, l[j])
    <3>1. j \in 1 .. Len(importing) /\ l[j] = importing[j] /\ l[j] \in DOMAIN mods /\ l[j] # k
      BY <2>13, <2>18
    <3>2. ~Bound(mods, l[j]) => ~Bound(N, l[j])
      BY <2>4, <3>1 DEF Bound, Waiting
    <3>3. CASE j + 1 \in 1 .. Len(importing)
      <4>1. Resolves(importing[j + 1], NextImport(mods, importing[j])) /\ ~Bound(mods, importing[j])
        BY <2>13, <3>1, <3>3 DEF Waiting
      <4> QED
        BY <2>10, <2>13, <3>1, <3>2, <3>3, <4>1
    <3>4. CASE j = Len(importing)
      <4>1. Top = l[j] /\ importing # <<>> /\ l[j + 1] = k
        BY <2>13, <3>1, <3>4 DEF Top, Last
      <4>2. ~Bound(mods, Top) /\ Resolves(k, NextImport(mods, Top))
        BY <4>1 DEF k
      <4> QED
        BY <2>10, <3>1, <3>2, <4>1, <4>2
    <3> QED
      BY <2>13, <3>1, <3>3, <3>4
  <2>19. Waiting(importing)'
    <3>1. importing' = l /\ mods' = N
      BY <2>1 DEF l, k
    <3>2. \A j : NextImport(mods, j)' = NextImport(N, j)
      BY <3>1 DEF NextImport
    <3> QED
      BY <2>9, <2>13, <2>15, <2>16, <2>17, <2>18, <3>1, <3>2 DEF Waiting
  <2>20. Restorable(snap)'
    BY <2>1, SteadySnapshot
  <2>21. Loading'
    BY <2>1, <2>13 DEF Loading, l, k
  <2>22. Indexed(mods, order, modules, byNS)'
    BY <2>1, <2>8
  <2> QED
    BY <2>19, <2>20, <2>21, <2>22 DEF JInv, Current, InLoad, Inputs, Steady
<1> QED
  BY <1>1, <1>2

(* An import of m, the innermost of the modules of rest, is bound to k.    *)
LEMMA BindImportIndexed ==
    ASSUME JInv, Loading, Steady, NEW m, NEW k \in DOMAIN mods, NEW rest, rest # <<>>,
           Waiting(rest), m = Last(rest), ~Bound(mods, m), Resolves(k, NextImport(mods, m)),
           bindImport(m, k, rest)
    PROVE  JInv'
<1>1. Indexed(mods, order, modules, byNS) /\ Inputs /\ Restorable(snap)
  BY DEF JInv, Current, InLoad
<1>2. CASE Fail(snap)
  BY <1>1, <1>2, FailIndexed
<1>3. CASE ~Fail(snap)
  <2> DEFINE mark == allImplemented /\ ~mods[k].implemented
             N == [mods EXCEPT ![m].bound = Append(@, k),
                               ![k].implemented = @ \/ allImplemented]
  <2>1. /\ mods' = N /\ importing' = rest /\ UNCHANGED <<order, snap>>
        /\ IF mark THEN registerNameDefault(N, k) ELSE UNCHANGED <<modules, byNS>>
    <3> HIDE DEF mark
    <3> QED
      BY <1>3 DEF bindImport, mark
  <2>2. m \in DOMAIN mods /\ \A j \in DOMAIN mods : mods[j] \in Module
    BY <1>1 DEF Waiting, Last, Indexed, Typed
  <2>3. DOMAIN N = DOMAIN mods
    OBVIOUS
  <2>4. ASSUME NEW j \in DOMAIN mods
        PROVE  N[j] = [mods[j] EXCEPT !.bound = IF j = m THEN Append(@, k) ELSE @,
                                      !.implemented = IF j = k THEN @ \/ allImplemented ELSE @]
    BY <2>2 DEF Module
  <2> HIDE DEF N
  <2>5. k \in Keys /\ allImplemented \in BOOLEAN
    BY <1>1 DEF Indexed, Typed, Inputs
  <2>6. ASSUME NEW j \in DOMAIN mods
        PROVE  /\ N[j] \in Module /\ N[j].src = mods[j].src
               /\ N[j].bound = IF j = m THEN Append(mods[m].bound, k) ELSE mods[j].bound
               /\ N[j].implemented = IF j = k THEN mods[j].implemented \/ allImplemented
                                     ELSE mods[j].implemented
    <3> DEFINE B == IF j = m THEN Append(mods[j].bound, k) ELSE mods[j].bound
               I == IF j = k THEN mods[j].implemented \/ allImplemented ELSE mods[j].implemented
    <3>1. mods[j] \in Module /\ N[j] = [mods[j] EXCEPT !.bound = B, !.implemented = I]
      BY <2>2, <2>4
    <3>2. B \in Seq(Keys)
      BY <2>5, <3>1 DEF Module
    <3>3. I \in BOOLEAN
      BY <2>5, <3>1 DEF Module
    <3> HIDE DEF B, I
    <3>4. N[j] \in Module /\ N[j].src = mods[j].src /\ N[j].bound = B /\ N[j].implemented = I
      BY <3>1, <3>2, <3>3 DEF Module
    <3> QED
      BY <3>4 DEF B, I
  <2>7. DOMAIN N = DOMAIN mods /\ \A j \in DOMAIN mods :
          /\ N[j] \in Module /\ N[j].src = mods[j].src
          /\ N[j].bound = IF j = m THEN Append(mods[m].bound, k) ELSE mods[j].bound
          /\ j # k => N[j].implemented = mods[j].implemented
    BY <2>3, <2>6
  <2>8. N[k].implemented = (mods[k].implemented \/ allImplemented)
    BY <2>6
  <2>9. Typed(N)
    BY <1>1, <2>7 DEF Indexed, Typed
  <2>10. Indexed(N, order', modules', byNS')
    <3>1. Typed(mods) /\ Defaults(mods, modules, byNS)
      BY <1>1 DEF Indexed
    <3>2. CASE mark
      <4>1. DOMAIN N = DOMAIN mods \cup {k} /\ (mods[k].implemented => N[k].implemented)
        BY <2>7, <2>8
      <4>2. Defaults(N, modules', byNS')
        BY <2>1, <2>7, <2>9, <3>1, <3>2, <4>1, RegisterKeeps
      <4> QED
        BY <1>1, <2>1, <2>7, <2>9, <4>2 DEF Indexed, Enumerated
    <3>3. CASE ~mark
      <4>1. \A j \in DOMAIN mods : N[j].implemented = mods[j].implemented
        <5>1. mods[k].implemented \in BOOLEAN /\ allImplemented \in BOOLEAN
          BY <1>1, <2>2 DEF Module, Inputs
        <5> QED
          BY <2>7, <2>8, <3>3, <5>1
      <4>2. NameIn(N) = NameIn(mods) /\ SpaceIn(N) = SpaceIn(mods)
        BY <2>7 DEF NameIn, SpaceIn
      <4>3. \A a, b \in DOMAIN mods : Better(N, a, b) <=> Better(mods, a, b)
        BY <4>1 DEF Better
      <4>4. ASSUME NEW X, NEW P, NEW D, Unbeaten(mods, X, P, DOMAIN mods, D)
            PROVE  Unbeaten(N, X, P, DOMAIN N, D)
        BY <2>7, <4>3, <4>4 DEF Unbeaten
      <4>5. Defaults(N, modules, byNS)
        BY <3>1, <4>2, <4>4 DEF Defaults
      <4> QED
        BY <1>1, <2>1, <2>7, <2>9, <3>3, <4>5 DEF Indexed, Enumerated
    <3> QED
      BY <3>2, <3>3
  <2>11. /\ \A j : Binds(mods, j)' <=> Binds(N, j)
         /\ \A j : Bound(mods, j)' <=> Bound(N, j)
         /\ \A j, imp : Resolves(j, imp)' <=> Resolves(j, imp)
    BY <2>1, SteadyBound DEF Steady
  <2>12. ASSUME NEW j \in DOMAIN mods, j # m
         PROVE  /\ Binds(mods, j) => Binds(N, j)
                /\ Bound(mods, j) <=> (Binds(mods, j) /\ Len(N[j].bound) = Len(N[j].src.imports))
                /\ NextImport(N, j) = NextImport(mods, j)
    BY <2>7, <2>12 DEF Binds, Bound, NextImport
  <2>13. Binds(N, m)
    <3> DEFINE b == mods[m].bound
               imps == mods[m].src.imports
    <3>1. Binds(mods, m) /\ b \in Seq(Keys) /\ imps \in Seq([name : Names, rev : Revs])
      BY <2>2, SourcesAssumption DEF Waiting, Module, IsSource
    <3>2. Len(b) < Len(imps)
      BY <3>1 DEF Binds, Bound
    <3> DEFINE c == Append(b, k)
    <3>3. /\ Len(c) = Len(b) + 1 /\ DOMAIN c = DOMAIN b \cup {Len(b) + 1} /\ c[Len(b) + 1] = k
          /\ \A i \in DOMAIN b : c[i] = b[i]
      BY <3>1
    <3>4. N[m].bound = c /\ N[m].src.imports = imps
      BY <2>2, <2>7
    <3>5. \A i \in DOMAIN b : b[i] \in DOMAIN mods /\ Resolves(b[i], imps[i])
      BY <3>1 DEF Binds
    <3>6. Resolves(k, imps[Len(b) + 1])
      BY DEF NextImport
    <3> HIDE DEF b, c, imps
    <3>7. \A i \in DOMAIN c : c[i] \in DOMAIN N /\ Resolves(c[i], imps[i])
      BY <2>7, <3>3, <3>5, <3>6
    <3>8. Len(c) <= Len(imps)
      BY <3>1, <3>2, <3>3
    <3> QED
      BY <3>4, <3>7, <3>8 DEF Binds
  <2>14. /\ rest \in Seq(DOMAIN mods) /\ Len(rest) \in Nat /\ DOMAIN rest = 1 .. Len(rest)
         /\ \A j \in DOMAIN rest : rest[j] \in DOMAIN mods
         /\ Len(rest) \in DOMAIN rest /\ m = rest[Len(rest)]
    BY DEF Waiting, Last
  <2>15. \A j \in DOMAIN N : Binds(N, j)
    BY <2>7, <2>12, <2>13 DEF Waiting
  <2>16. \A j \in DOMAIN N \ ToSet(rest) : Bound(N, j)
    <3> SUFFICES ASSUME NEW j \in DOMAIN N \ ToSet(rest) PROVE Bound(N, j)
      OBVIOUS
    <3>1. j \in DOMAIN mods /\ j # m
      BY <2>7, <2>14 DEF ToSet
    <3>2. Bound(mods, j) /\ Binds(N, j)
      BY <2>15, <2>7, <3>1 DEF Waiting
    <3> QED
      BY <2>12, <3>1, <3>2 DEF Bound
  <2>17. ASSUME NEW j \in DOMAIN rest, j + 1 \in DOMAIN rest
         PROVE  Resolves(rest[j + 1], NextImport(N, rest[j])) /\ ~Bound(N, rest[j])
    <3>1. rest[j] # m /\ rest[j] \in DOMAIN mods
      BY <2>14, <2>17 DEF Waiting
    <3>2. Resolves(rest[j + 1], NextImport(mods, rest[j])) /\ ~Bound(mods, rest[j])
      BY <2>17 DEF Waiting
    <3>3. Binds(mods, rest[j])
      BY <3>1 DEF Waiting
    <3> QED
      BY <2>12, <3>1, <3>2, <3>3 DEF Bound
  <2>18. Waiting(importing)'
    <3>1. importing' = rest /\ mods' = N
      BY <2>1
    <3>2. \A j : NextImport(mods, j)' = NextImport(N, j)
      BY <3>1 DEF NextImport
    <3>3. /\ rest \in Seq(DOMAIN N) /\ \A a, b \in DOMAIN rest : rest[a] = rest[b] => a = b
      BY <2>7, <2>14 DEF Waiting
    <3> QED
      BY <2>11, <2>15, <2>16, <2>17, <3>1, <3>2, <3>3 DEF Waiting
  <2>19. Restorable(snap)'
    BY <1>1, <2>1, SteadySnapshot
  <2>20. Loading' /\ Indexed(mods, order, modules, byNS)'
    BY <2>1, <2>10 DEF Loading
  <2> QED
    BY <1>1, <2>18, <2>19, <2>20 DEF JInv, Current, InLoad, Inputs, Steady
<1> QED
  BY <1>2, <1>3

(* importTarget answers with a loaded module that the import may be bound  *)
(* to; when it has none, what is found for the import is not loaded.       *)
LEMMA ImportTarget ==
    ASSUME Indexed(mods, order, modules, byNS), NEW i \in [name : Names, rev : Revs],
           importTarget(i) # Nil
    PROVE  importTarget(i) \in DOMAIN mods /\ Resolves(importTarget(i), i)
<1> DEFINE reg == registeredSource(i.name, 0)
<1>1. \A n, r : Key(n, r) # Nil => Key(n, r) \in DOMAIN mods /\ Key(n, r) = <<n, r>>
  BY DEF Key
<1>2. modules[i.name] # Nil => modules[i.name] \in DOMAIN mods /\ modules[i.name][1] = i.name
  BY DEF Indexed, Defaults, Unbeaten, NameIn
<1> HIDE DEF reg
<1>3. CASE i.rev # 0
  BY <1>1, <1>3 DEF importTarget, Resolves
<1>4. CASE i.rev = 0 /\ reg # Nil
  BY <1>1, <1>4 DEF importTarget, Resolves, reg
<1>5. CASE i.rev = 0 /\ reg = Nil
  <2>1. importTarget(i) = (IF Key(i.name, 0) # Nil THEN Key(i.name, 0) ELSE modules[i.name])
    BY <1>5 DEF importTarget, reg
  <2>2. importTarget(i) \in DOMAIN mods /\ importTarget(i)[1] = i.name
    BY <1>1, <1>2, <2>1
  <2> QED
    BY <1>5, <2>2 DEF Resolves, reg
<1> QED
  BY <1>3, <1>4, <1>5

LEMMA MissingImport ==
    ASSUME Indexed(mods, order, modules, byNS), Inputs, NEW i \in [name : Names, rev : Revs],
           importTarget(i) = Nil, NEW s, s = findSourcePathRevision(i.name, i.rev), s # Nil
    PROVE  /\ s \in Sources /\ KeyOf(s) \notin DOMAIN mods
           /\ Resolves(KeyOf(s), i)
<1> DEFINE reg == registeredSource(i.name, 0)
<1>1. /\ s \in Sources /\ s.name = i.name /\ (i.rev # 0 => s.rev = i.rev)
      /\ i.rev = 0 /\ reg # Nil => s = reg
  BY FoundSource DEF Inputs
<1>2. ASSUME NEW n, NEW r, Key(n, r) = Nil PROVE <<n, r>> \notin DOMAIN mods
  <2>1. \A k \in DOMAIN mods : k # Nil
    BY ContextNilAssumption DEF Indexed, Typed, Keys
  <2> QED
    BY <1>2, <2>1 DEF Key
<1>3. KeyOf(s) = <<i.name, s.rev>>
  BY <1>1 DEF KeyOf
<1>4. Resolves(KeyOf(s), i)
  BY <1>1, <1>3 DEF Resolves
<1>5. CASE i.rev # 0
  <2>1. Key(i.name, i.rev) = Nil
    BY <1>5 DEF importTarget
  <2> QED
    BY <1>1, <1>2, <1>3, <1>4, <1>5, <2>1
<1>6. CASE i.rev = 0 /\ reg # Nil
  <2>1. Key(i.name, s.rev) = Nil
    BY <1>1, <1>6 DEF importTarget
  <2> QED
    BY <1>1, <1>2, <1>3, <1>4, <2>1
<1>7. CASE i.rev = 0 /\ reg = Nil
  <2>1. modules[i.name] = Nil
    BY <1>7 DEF importTarget
  <2>2. \A k \in DOMAIN mods : k[1] # i.name
    BY <2>1 DEF Indexed, Defaults, Unbeaten, NameIn
  <2> QED
    BY <1>1, <1>3, <1>4, <2>2
<1> QED
  BY <1>5, <1>6, <1>7

(* A step of the load in progress.                                         *)
LEMMA LoadStepIndexed ==
    ASSUME JInv, LoadStep, allImplemented' = allImplemented
    PROVE  JInv'
<1>1. Loading /\ Steady
  BY DEF LoadStep, loadIncludes, loadImport, loadReturn, Steady
<1>2. /\ Indexed(mods, order, modules, byNS) /\ Inputs /\ Restorable(snap)
      /\ Waiting(importing)
  BY <1>1 DEF JInv, Current, InLoad
<1> DEFINE n == Len(importing)
<1>3. /\ importing \in Seq(DOMAIN mods) /\ n \in Nat /\ n # 0 /\ DOMAIN importing = 1 .. n
      /\ n \in DOMAIN importing /\ Top = importing[n] /\ Top \in DOMAIN mods
  BY <1>1, <1>2 DEF Waiting, Loading, Top, Last
<1>4. /\ mods[Top].bound \in Seq(Keys) /\ Binds(mods, Top)
      /\ mods[Top].src.imports \in Seq([name : Names, rev : Revs])
  <2>1. mods[Top] \in Module /\ Binds(mods, Top)
    BY <1>2, <1>3 DEF Waiting, Indexed, Typed
  <2>2. \A s \in Sources : s.imports \in Seq([name : Names, rev : Revs])
    BY SourcesAssumption DEF IsSource
  <2> QED
    BY <2>1, <2>2 DEF Module
<1>5. CASE loadIncludes
  BY <1>1, <1>2, <1>5, FailIndexed DEF loadIncludes
<1>6. CASE loadImport
  <2> DEFINE i == NextImport(mods, Top)
  <2>1. /\ i \in [name : Names, rev : Revs] /\ ~Bound(mods, Top)
    <3>1. Done < Len(Here.src.imports)
      BY <1>6 DEF loadImport
    <3>2. ASSUME NEW S, NEW l \in Seq(S), NEW b \in Seq(Keys), Len(b) < Len(l)
          PROVE  l[Len(b) + 1] \in S /\ Len(b) # Len(l)
      <4>1. Len(b) + 1 \in 1 .. Len(l) /\ Len(b) # Len(l)
        BY <3>2
      <4> QED
        BY <4>1, ElementOfSeq
    <3> QED
      BY <1>4, <3>1, <3>2 DEF Done, Here, NextImport, Bound
  <2>2. \/ Fail(snap)
        \/ importTarget(i) # Nil /\ bindImport(Top, importTarget(i), importing)
        \/ \E s : /\ s = findSourcePathRevision(i.name, i.rev) /\ s # Nil
                  /\ importTarget(i) = Nil
                  /\ loadModuleSource(s, FALSE, FALSE, snap, features)
    BY <1>6 DEF loadImport, NextImport, Done, Here
  <2> HIDE DEF i
  <2>3. CASE Fail(snap)
    BY <1>1, <1>2, <2>3, FailIndexed
  <2>4. CASE importTarget(i) # Nil /\ bindImport(Top, importTarget(i), importing)
    <3> DEFINE k == importTarget(i)
    <3>1. k \in DOMAIN mods /\ Resolves(k, NextImport(mods, Top)) /\ bindImport(Top, k, importing)
      BY <1>2, <2>1, <2>4, ImportTarget DEF i
    <3>2. importing # <<>> /\ Top = Last(importing)
      BY <1>1 DEF Loading, Top
    <3> HIDE DEF k
    <3> QED
      BY <1>1, <1>2, <2>1, <3>1, <3>2, BindImportIndexed
  <2>5. ASSUME NEW s, s = findSourcePathRevision(i.name, i.rev), s # Nil,
               importTarget(i) = Nil, loadModuleSource(s, FALSE, FALSE, snap, features)
        PROVE  JInv'
    <3>1. s \in Sources /\ KeyOf(s) \notin DOMAIN mods /\ Resolves(KeyOf(s), NextImport(mods, Top))
      BY <1>2, <2>1, <2>5, MissingImport DEF i
    <3> QED
      BY <1>1, <1>2, <2>1, <2>5, <3>1, LoadModuleSourceIndexed
  <2> QED
    BY <2>2, <2>3, <2>4, <2>5
<1>7. CASE loadReturn
  <2> DEFINE rest == Front(importing)
  <2>1. Bound(mods, Top)
    BY <1>4, <1>7 DEF loadReturn, Done, Here, Bound
  <2>2. /\ rest \in Seq(DOMAIN mods) /\ Len(rest) = n - 1 /\ DOMAIN rest = 1 .. n - 1
        /\ \A j \in 1 .. n - 1 : rest[j] = importing[j]
    BY <1>3 DEF Front
  <2>3. ToSet(importing) = ToSet(rest) \cup {Top}
    BY <1>3, <2>2 DEF ToSet
  <2>4. \A k \in DOMAIN mods \ ToSet(rest) : Bound(mods, k)
    BY <1>2, <2>1, <2>3 DEF Waiting
  <2>5. CASE rest = <<>>
    <3>1. /\ ~Loading' /\ dirty' /\ UNCHANGED index
      BY <1>7, <2>5 DEF loadReturn, Loading
    <3>2. \A k \in DOMAIN mods : Bound(mods, k)
      BY <2>4, <2>5 DEF ToSet
    <3>3. \A k \in DOMAIN mods' : Bound(mods, k)'
      BY <1>1, <3>1, <3>2, SteadyBound DEF index, Steady
    <3> QED
      BY <1>1, <1>2, <3>1, <3>3 DEF JInv, Current, InLoad, Inputs, Steady, index
  <2>6. CASE rest # <<>>
    <3> DEFINE m == Last(rest)
    <3>1. n - 1 \in 1 .. n - 1 /\ m = importing[n - 1] /\ n - 1 \in DOMAIN importing
      BY <1>3, <2>2, <2>6 DEF Last
    <3>2. bindImport(m, Top, rest)
      BY <1>7, <2>6 DEF loadReturn
    <3>3. Resolves(Top, NextImport(mods, m)) /\ ~Bound(mods, m)
      <4>1. (n - 1) + 1 = n
        BY <1>3
      <4> QED
        BY <1>2, <1>3, <3>1, <4>1 DEF Waiting
    <3>4. Waiting(rest)
      <4>1. \A i, j \in DOMAIN rest : rest[i] = rest[j] => i = j
        BY <1>2, <1>3, <2>2 DEF Waiting
      <4>2. ASSUME NEW j \in DOMAIN rest, j + 1 \in DOMAIN rest
            PROVE  Resolves(rest[j + 1], NextImport(mods, rest[j])) /\ ~Bound(mods, rest[j])
        <5>1. /\ j \in DOMAIN importing /\ j + 1 \in DOMAIN importing
              /\ rest[j] = importing[j] /\ rest[j + 1] = importing[j + 1]
          BY <1>3, <2>2, <4>2
        <5> QED
          BY <1>2, <5>1 DEF Waiting
      <4> QED
        BY <1>2, <2>2, <2>4, <4>1, <4>2 DEF Waiting
    <3> HIDE DEF rest, m
    <3>5. m = Last(rest)
      BY DEF m
    <3> QED
      BY <1>1, <1>3, <2>6, <3>2, <3>3, <3>4, <3>5, BindImportIndexed
  <2> QED
    BY <2>5, <2>6
<1> QED
  BY <1>5, <1>6, <1>7 DEF LoadStep

(* A call that begins a load.                                              *)
LEMMA StartLoadIndexed ==
    ASSUME JInv, NEW b, StartLoad(b), allImplemented' = allImplemented
    PROVE  JInv'
<1>1. ~Loading /\ Steady
  BY DEF StartLoad, LoadModule, LoadModuleFromPath, ensureMutable, Idle, Steady
<1>2. /\ Indexed(mods, order, modules, byNS) /\ Inputs /\ Restorable(snapshot)
      /\ \A k \in DOMAIN mods : Bound(mods, k)
  BY <1>1, SnapshotRestorable DEF JInv, Current
<1>3. importing = <<>> /\ Waiting(importing)
  <2>1. importing = <<>> /\ ToSet(importing) = {} /\ DOMAIN importing = {}
    BY <1>1 DEF Loading, ToSet
  <2> QED
    BY <1>2, <2>1 DEF Waiting, Bound
<1>4. \/ Fail(snapshot)
      \/ \E s \in Sources : \E fs : loadModuleSource(s, TRUE, TRUE, snapshot, fs)
  <2>1. CASE \E n \in Names, r \in Revs :
               \E fs \in {features, features \cup {n}} : LoadModule(b, n, r, fs)
    <3>1. PICK n, r, fs : LoadModule(b, n, r, fs)
      BY <2>1
    <3>2. PICK s : /\ s = findSourcePathRevision(n, r)
                   /\ IF s = Nil THEN Fail(snapshot)
                      ELSE loadModuleSource(s, TRUE, TRUE, snapshot, fs)
      BY <3>1 DEF LoadModule
    <3>3. s # Nil => s \in Sources
      BY <1>2, <3>2, FoundSource DEF Inputs
    <3> QED
      BY <3>2, <3>3
  <2>2. CASE \E s \in Sources : LoadModuleFromPath(b, s)
    BY <2>2 DEF LoadModuleFromPath
  <2> QED
    BY <2>1, <2>2 DEF StartLoad
<1> QED
  BY <1>1, <1>2, <1>3, <1>4, FailIndexed, LoadModuleSourceIndexed

(* No module object changes, and the context does not become clean.        *)
LEMMA FrameIndexed ==
    ASSUME JInv, ~Loading, Steady, UNCHANGED <<mods, order, modules, byNS, importing>>,
           ~dirty' => ~dirty
    PROVE  JInv'
<1>1. (\A k : Bound(mods, k)' <=> Bound(mods, k)) /\ (Amended(mods)' <=> Amended(mods))
  BY SteadyBound DEF Steady
<1> QED
  BY <1>1 DEF JInv, Current, InLoad, Inputs, Loading, Steady

(* A rebuild implements what the amendments and the leafref paths name; it *)
(* leaves the context clean only if no amendment has been missed.          *)
LEMMA RebuildIndexed ==
    ASSUME JInv, ~Loading, rebuild, allImplemented' = allImplemented
    PROVE  JInv'
<1>1. /\ catalog' = catalog /\ importing' = importing /\ order' = order
      /\ Indexed(mods, order, modules, byNS) /\ \A k \in DOMAIN mods : Bound(mods, k)
  BY DEF rebuild, JInv, Current, index
<1>2. CASE unknownFeature
  BY <1>1, <1>2, FrameIndexed DEF rebuild, Steady, index
<1>3. CASE ~unknownFeature
  <2>1. PICK S, w :
          /\ S = implementAmendmentTargets(Implemented) /\ w = resolveLeafRefs(S)
          /\ mods' = [k \in DOMAIN mods |-> [mods[k] EXCEPT !.implemented = k \in w.impl]]
          /\ markImplemented(mods', w.impl \ Implemented)
          /\ applied' = Amending(S)
          /\ dirty' = ~(settled(Amending(S), w.impl) /\ ~w.err)
    BY <1>3 DEF rebuild
  <2>2. PICK M : M = mods'
    OBVIOUS
  <2> DEFINE K == w.impl \ Implemented
  <2>3. Typed(mods) /\ Enumerated(mods, order) /\ Defaults(mods, modules, byNS)
    BY <1>1 DEF Indexed
  <2>4. Implemented \subseteq S /\ S \subseteq DOMAIN mods /\ Targets(S) \subseteq S
    <3>1. Implemented \in SUBSET DOMAIN mods
      BY DEF Implemented
    <3> QED
      BY <1>1, <2>1, <2>3, <3>1, AmendmentTargets
  <2>5. S \subseteq w.impl /\ w.impl \subseteq DOMAIN mods
    BY <1>1, <2>1, <2>3, <2>4, LeafRefTargets
  <2>6. DOMAIN M = DOMAIN mods /\ \A k \in DOMAIN mods :
          /\ M[k] \in Module /\ M[k].src = mods[k].src /\ M[k].bound = mods[k].bound
          /\ M[k].implemented = (k \in w.impl)
    <3>1. /\ DOMAIN M = DOMAIN mods
          /\ \A k \in DOMAIN mods : M[k] = [mods[k] EXCEPT !.implemented = k \in w.impl]
      BY <2>1, <2>2
    <3>2. ASSUME NEW m \in Module, NEW p \in BOOLEAN, NEW o, o = [m EXCEPT !.implemented = p]
          PROVE  /\ o \in Module /\ o.src = m.src /\ o.bound = m.bound /\ o.implemented = p
      BY <3>2 DEF Module
    <3>3. ASSUME NEW k \in DOMAIN mods
          PROVE  /\ M[k] \in Module /\ M[k].src = mods[k].src /\ M[k].bound = mods[k].bound
                 /\ M[k].implemented = (k \in w.impl)
      <4> DEFINE p == k \in w.impl
      <4>1. mods[k] \in Module /\ p \in BOOLEAN /\ M[k] = [mods[k] EXCEPT !.implemented = p]
        BY <2>3, <3>1 DEF Typed
      <4> HIDE DEF p
      <4>2. /\ M[k] \in Module /\ M[k].src = mods[k].src /\ M[k].bound = mods[k].bound
            /\ M[k].implemented = p
        BY <3>2, <4>1
      <4> QED
        BY <4>2 DEF p
    <3> QED
      BY <3>1, <3>3
  <2>7. Typed(M) /\ Enumerated(M, order)
    BY <2>3, <2>6 DEF Typed, Enumerated
  <2>8. \A k \in DOMAIN mods : /\ mods[k].implemented => M[k].implemented
                               /\ k \notin K => M[k].implemented = mods[k].implemented
    <3>1. \A k \in DOMAIN mods : mods[k].implemented \in BOOLEAN
      BY <2>3 DEF Typed, Module
    <3> QED
      BY <2>4, <2>5, <2>6, <3>1 DEF Implemented
  <2>9. K \in SUBSET DOMAIN M /\ DOMAIN M = DOMAIN mods \cup K
    BY <2>5, <2>6
  <2>10. /\ NameIn(M) \in [DOMAIN M -> Names] /\ SpaceIn(M) \in [DOMAIN M -> Spaces]
         /\ \A k \in DOMAIN mods : NameIn(mods)[k] = NameIn(M)[k] /\ SpaceIn(mods)[k] = SpaceIn(M)[k]
    BY <2>6, <2>7, SourcesAssumption DEF NameIn, SpaceIn, Typed, Module, IsSource, Keys
  <2>11. /\ modules' = preferredInOrder(M, K, modules, NameIn(M))
         /\ byNS' = preferredInOrder(M, K, byNS, SpaceIn(M))
    BY <2>1, <2>2 DEF markImplemented, NameIn, SpaceIn
  <2> HIDE DEF K
  <2>12. /\ Typed(mods) /\ Typed(M) /\ DOMAIN M = DOMAIN mods \cup K
         /\ \A j \in DOMAIN mods \ K : M[j].implemented = mods[j].implemented
         /\ \A k \in DOMAIN mods : mods[k].implemented => M[k].implemented
    BY <2>3, <2>7, <2>8, <2>9
  <2>13. Unbeaten(M, NameIn(M), Names, DOMAIN M \ K, modules)
    <3>1. Unbeaten(mods, NameIn(mods), Names, DOMAIN mods, modules)
      BY <2>3 DEF Defaults
    <3>2. \A j \in DOMAIN mods : NameIn(mods)[j] = NameIn(M)[j]
      BY <2>10, <2>2
    <3>3. Unbeaten(M, NameIn(M), Names, DOMAIN mods \ K, modules)
      BY <2>12, <3>1, <3>2, OthersUnbeaten
    <3> QED
      BY <2>6, <2>2, <3>3
  <2>14. Unbeaten(M, SpaceIn(M), Spaces, DOMAIN M \ K, byNS)
    <3>1. Unbeaten(mods, SpaceIn(mods), Spaces, DOMAIN mods, byNS)
      BY <2>3 DEF Defaults
    <3>2. \A j \in DOMAIN mods : SpaceIn(mods)[j] = SpaceIn(M)[j]
      BY <2>10, <2>2
    <3>3. Unbeaten(M, SpaceIn(M), Spaces, DOMAIN mods \ K, byNS)
      BY <2>12, <3>1, <3>2, OthersUnbeaten
    <3> QED
      BY <2>6, <2>2, <3>3
  <2>15. Unbeaten(M, NameIn(M), Names, DOMAIN M, modules')
    BY <2>7, <2>9, <2>10, <2>11, <2>2, <2>13, PreferredInOrder
  <2>16. Unbeaten(M, SpaceIn(M), Spaces, DOMAIN M, byNS')
    BY <2>7, <2>9, <2>10, <2>11, <2>2, <2>14, PreferredInOrder
  <2>17. Indexed(mods, order, modules, byNS)'
    BY <1>1, <2>7, <2>2, <2>15, <2>16 DEF Indexed, Defaults
  <2>18. \A k \in DOMAIN mods' : Bound(mods, k)'
    <3>1. \A k \in DOMAIN M : Bound(M, k)
      BY <1>1, <2>6, <2>2 DEF Bound, Binds
    <3> QED
      BY <1>1, <2>2, <3>1, SteadyBound
  <2>19. ASSUME ~dirty' PROVE Amended(mods)'
    <3>1. {k \in DOMAIN M : M[k].implemented} = w.impl
      BY <2>5, <2>6
    <3>2. Amending(S) = Amending(w.impl)
      BY <2>1, <2>19 DEF settled
    <3>3. {k \in w.impl : M[k].src.amends # {}} = applied'
      BY <2>1, <2>5, <2>6, <3>2 DEF Amending
    <3>4. ASSUME NEW k \in w.impl, NEW i \in M[k].src.amends PROVE M[k].bound[i] \in w.impl
      <4>1. k \in Amending(w.impl) /\ M[k].bound[i] \in Named(k, mods[k].src.amends)
        BY <2>5, <2>6, <3>4 DEF Amending, Named
      <4>2. k \in S
        BY <3>2, <4>1 DEF Amending
      <4> QED
        BY <2>4, <2>5, <4>1, <4>2 DEF Targets
    <3> QED
      BY <2>2, <3>1, <3>3, <3>4 DEF Amended
  <2> QED
    BY <1>1, <2>17, <2>18, <2>19 DEF JInv, Current, InLoad, Inputs, Loading
<1> QED
  BY <1>2, <1>3

(* A change of the settings: sources are registered before any module is   *)
(* loaded, and no other change touches what an import may be bound to.     *)
LEMMA ConfigureIndexed ==
    ASSUME JInv, NEW b, Configure(b), allImplemented' = allImplemented
    PROVE  JInv'
<1>1. ~Loading /\ applied' = applied /\ UNCHANGED <<mods, order, modules, byNS, importing>>
  BY DEF Configure, SetSearchPath, UnsetSearchPath, SetFeatures, SetPolicy, SetValidationMode,
         RegisterSourcePaths, ensureMutable, Idle, visible, index, run
<1>2. ~dirty' => ~dirty
  BY DEF Configure, SetSearchPath, UnsetSearchPath, SetFeatures, SetPolicy, SetValidationMode,
         RegisterSourcePaths, visible
<1>3. CASE catalog' = catalog
  BY <1>1, <1>2, <1>3, FrameIndexed DEF Steady
<1>4. CASE \E s \in Sources : RegisterSourcePaths(b, {s})
  <2>1. order = <<>> /\ catalog' \subseteq Sources
    BY <1>4 DEF RegisterSourcePaths, JInv, Inputs
  <2>2. DOMAIN mods = {}
    BY <2>1 DEF JInv, Current, Indexed, Enumerated, ToSet
  <2>3. Amended(mods)' <=> Amended(mods)
    BY <1>1 DEF Amended
  <2> QED
    BY <1>1, <1>2, <2>1, <2>2, <2>3 DEF JInv, Current, InLoad, Inputs, Loading
<1> QED
  BY <1>3, <1>4 DEF Configure, SetSearchPath, UnsetSearchPath, SetFeatures, SetPolicy,
                    SetValidationMode

(* A context without modules is indexed, and nothing is bound in it.       *)
LEMMA NothingIsIndexed ==
    Indexed(<<>>, <<>>, [n \in Names |-> Nil], [x \in Spaces |-> Nil])
<1>1. DOMAIN <<>> = {} /\ ToSet(<<>>) = {} /\ <<>> \in Seq(Keys)
  BY DEF ToSet
<1> QED
  BY <1>1 DEF Indexed, Typed, Enumerated, Defaults, Unbeaten

LEMMA CloseIndexed ==
    ASSUME JInv, Close, allImplemented' = allImplemented
    PROVE  JInv'
<1>1. /\ mods' = <<>> /\ order' = <<>> /\ ~Loading' /\ catalog' = {} /\ applied' = {}
      /\ modules' = [n \in Names |-> Nil] /\ byNS' = [x \in Spaces |-> Nil]
  BY DEF Close, Idle, Loading, run
<1>2. Indexed(mods, order, modules, byNS)'
  BY <1>1, NothingIsIndexed
<1>3. DOMAIN mods' = {} /\ Amended(mods)'
  BY <1>1 DEF Amended
<1> QED
  BY <1>1, <1>2, <1>3 DEF JInv, Current, InLoad, Inputs

LEMMA InitIndexed == Init => JInv
<1> SUFFICES ASSUME Init PROVE JInv
  OBVIOUS
<1>1. Indexed(mods, order, modules, byNS)
  BY NothingIsIndexed DEF Init
<1>2. ~Loading /\ DOMAIN mods = {} /\ catalog = {} /\ applied = {}
  BY DEF Init, Loading
<1>3. allImplemented \in BOOLEAN
  BY FlagsAssumption DEF Init
<1> QED
  BY <1>1, <1>2, <1>3 DEF JInv, Current, InLoad, Inputs, Amended

(* The invariant is inductive.                                             *)
LEMMA NextIndexed ==
    ASSUME IInv, JInv, [Next]_vars
    PROVE  JInv'
<1>1. CASE UNCHANGED vars
  <2>1. UNCHANGED <<mods, order, modules, byNS, dirty, allImplemented, catalog, importing, snap,
                    applied>>
    BY <1>1 DEF vars, visible, index, run
  <2>2. /\ \A k : Bound(mods, k)' <=> Bound(mods, k)
        /\ \A k : Binds(mods, k)' <=> Binds(mods, k)
        /\ \A k, imp : Resolves(k, imp)' <=> Resolves(k, imp)
        /\ Amended(mods)' <=> Amended(mods)
    BY <2>1, SteadyBound
  <2>3. Restorable(snap) => Restorable(snap)'
    BY <2>1, SteadySnapshot DEF Steady
  <2>4. Waiting(importing) => Waiting(importing)'
    BY <2>1, <2>2 DEF Waiting, NextImport
  <2> QED
    BY <2>1, <2>2, <2>3, <2>4 DEF JInv, Current, InLoad, Inputs, Loading
<1>2. ASSUME NEW b \in Builders, Call(b), allImplemented' = allImplemented
      PROVE  JInv'
  BY <1>2, StartLoadIndexed, ConfigureIndexed DEF Call
<1>3. CASE LoadStep /\ allImplemented' = allImplemented
  BY <1>3, LoadStepIndexed
<1>4. CASE rebuild /\ allImplemented' = allImplemented
  <2>1. ~Loading
    BY <1>4 DEF rebuild, IInv, Serial
  <2> QED
    BY <1>4, <2>1, RebuildIndexed
<1>5. CASE (Schema \/ \E b \in Builders : Build(b)) /\ allImplemented' = allImplemented
  <2>1. /\ ~Loading /\ Steady /\ UNCHANGED <<mods, order, modules, byNS, importing, dirty>>
    BY <1>5 DEF Schema, Build, ensureMutable, Idle, Steady, visible, index
  <2> QED
    BY <2>1, FrameIndexed
<1>6. CASE Close /\ allImplemented' = allImplemented
  BY <1>6, CloseIndexed
<1> QED
  BY <1>1, <1>2, <1>3, <1>4, <1>5, <1>6 DEF Next

LEMMA IndexesHold == Spec => []JInv
<1>1. IInv /\ JInv /\ [Next]_vars => JInv'
  BY NextIndexed
<1> QED
  BY InitIndexed, InvariantHolds, <1>1, PTL DEF Spec

----------------------------------------------------------------------------
(* loadImports, loadModuleSource: between calls, after any order of loads, *)
(* cycles of imports, errors and settings, every import of every loaded    *)
(* module is bound to a loaded module of its name, to the revision that it *)
(* pins, or to the newest registered revision.                             *)
THEOREM ImportsAreBound == Spec => []ImportsBound
<1>1. JInv => ImportsBound
  BY DEF JInv, Current, Bound, Binds, Resolves, ImportsBound
<1> QED
  BY IndexesHold, <1>1, PTL

(* registerNameDefault, markImplemented, preferModuleDefault: the default  *)
(* of a name and of a namespace is its newest implemented revision, or its *)
(* newest if none is implemented, in the middle of a load as well.         *)
THEOREM DefaultsAreBest == Spec => []DefaultIsBest
<1>1. ASSUME JInv PROVE DefaultIsBest
  <2>1. \A k \in DOMAIN mods : k # Nil
    BY <1>1, ContextNilAssumption DEF JInv, Current, Indexed, Typed, Keys
  <2>2. Defaults(mods, modules, byNS)
    BY <1>1 DEF JInv, Current, Indexed
  <2> DEFINE best(S, k) == IF S = {} THEN k = Nil ELSE k \in S /\ \A j \in S : ~Better(mods, j, k)
  <2>3. ASSUME NEW X, NEW P, NEW D, Unbeaten(mods, X, P, DOMAIN mods, D), NEW p \in P
        PROVE  best({k \in DOMAIN mods : X[k] = p}, D[p])
    BY <2>1, <2>3 DEF Unbeaten
  <2>4. ASSUME NEW n \in Names PROVE best({k \in DOMAIN mods : k[1] = n}, modules[n])
    <3>1. {k \in DOMAIN mods : k[1] = n} = {k \in DOMAIN mods : NameIn(mods)[k] = n}
      BY DEF NameIn
    <3> HIDE DEF best
    <3> QED
      BY <2>2, <2>3, <3>1 DEF Defaults
  <2>5. ASSUME NEW x \in Spaces PROVE best({k \in DOMAIN mods : mods[k].src.ns = x}, byNS[x])
    <3>1. {k \in DOMAIN mods : mods[k].src.ns = x} = {k \in DOMAIN mods : SpaceIn(mods)[k] = x}
      BY DEF SpaceIn
    <3> HIDE DEF best
    <3> QED
      BY <2>2, <2>3, <3>1 DEF Defaults
  <2> QED
    BY <2>4, <2>5 DEF Better, DefaultIsBest
<1> QED
  BY IndexesHold, <1>1, PTL

(* rebuildIfDirty, implementAmendmentTargets, resolveLeafRefs: a context   *)
(* that is not dirty has applied the amendments of exactly its implemented *)
(* modules, and has implemented every module that they name.               *)
THEOREM AmendmentsAreComplete == Spec => []AmendmentsComplete
<1>1. JInv => AmendmentsComplete
  BY DEF JInv, Current, Amended, AmendmentsComplete, Amending, Implemented, Named
<1> QED
  BY IndexesHold, <1>1, PTL
=============================================================================
