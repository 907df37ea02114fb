------------------------ MODULE SchemaContext_proofs ------------------------
(***************************************************************************)
(* Proofs about SchemaContext: for every set of sources, every number of   *)
(* copies of the builder and calls of any number.                          *)
(***************************************************************************)
EXTENDS SchemaContext, TLAPS

(* What the snapshot of the load in progress restores, in the shape of     *)
(* visible.                                                                *)
Saved == <<<<snap.mods, snap.order, snap.modules, snap.byNS>>,
           <<snap.paths, snap.features, snap.vendor>>, snap.dirty>>

(* A load can go back to where its call began, and has not failed yet.     *)
Transactional == Loading => Saved = before /\ result # "failed"

(* A module object has its fields, and no other name has its namespace.    *)
Shaped(M) == \A k \in DOMAIN M :
                DOMAIN M[k] = {"src", "bound", "implemented", "requested"}
Owned(M) == \A j, k \in DOMAIN M : M[j].src.ns = M[k].src.ns => j[1] = k[1]

Registry == /\ Shaped(mods) /\ Owned(mods)
            /\ Loading => Shaped(snap.mods) /\ Owned(snap.mods)

(* A rebuild does not run in a load, and nothing runs in a context that is *)
(* frozen, which is clean.                                                 *)
Serial == /\ user # Nil => ~Loading
          /\ frozen /\ ~closed => Idle /\ ~dirty

IInv == Transactional /\ FailedLoadInvisible /\ Registry /\ Serial

----------------------------------------------------------------------------
(* The registry after the object of module k has been put into it.         *)
LEMMA AddModule ==
    ASSUME NEW M, Shaped(M), Owned(M), NEW s, NEW m, m.src = s,
           DOMAIN m = {"src", "bound", "implemented", "requested"},
           \A k \in DOMAIN M : M[k].src.ns = s.ns => k[1] = s.name,
           NEW N, DOMAIN N = DOMAIN M \cup {KeyOf(s)}, N[KeyOf(s)] = m,
           \A j \in DOMAIN M : j # KeyOf(s) => N[j] = M[j]
    PROVE  Shaped(N) /\ Owned(N)
<1>1. KeyOf(s)[1] = s.name
  BY DEF KeyOf
<1> QED
  BY <1>1 DEF Shaped, Owned

(* Binding an import, and marking modules implemented, leave the sources.  *)
LEMMA KeepSources ==
    ASSUME NEW M, NEW N, Shaped(M), Owned(M), DOMAIN N = DOMAIN M,
           \A k \in DOMAIN M : DOMAIN N[k] = DOMAIN M[k] /\ N[k].src = M[k].src
    PROVE  Shaped(N) /\ Owned(N)
  BY DEF Shaped, Owned

(* An import is bound: the module objects keep their sources.              *)
LEMMA BindKeeps ==
    ASSUME NEW M, NEW m, NEW k, Shaped(M), Owned(M)
    PROVE  LET N == [M EXCEPT ![m].bound = Append(@, k),
                              ![k].implemented = @ \/ allImplemented]
           IN  Shaped(N) /\ Owned(N)
<1> DEFINE O == [M EXCEPT ![m].bound = Append(@, k)]
           N == [O EXCEPT ![k].implemented = @ \/ allImplemented]
<1>1. DOMAIN O = DOMAIN M /\ \A j \in DOMAIN M : DOMAIN O[j] = DOMAIN M[j] /\ O[j].src = M[j].src
  BY DEF Shaped
<1> HIDE DEF O
<1>2. DOMAIN N = DOMAIN M /\ \A j \in DOMAIN M : DOMAIN N[j] = DOMAIN M[j] /\ N[j].src = M[j].src
  BY <1>1 DEF Shaped
<1>3. Shaped(N) /\ Owned(N)
  BY <1>2, KeepSources
<1> QED
  BY <1>3 DEF O

(* Modules are promoted: the module objects keep their sources.            *)
LEMMA MarkKeeps ==
    ASSUME NEW M, NEW S, Shaped(M), Owned(M)
    PROVE  LET N == [k \in DOMAIN M |-> [M[k] EXCEPT !.implemented = k \in S]]
           IN  Shaped(N) /\ Owned(N)
<1> DEFINE N == [k \in DOMAIN M |-> [M[k] EXCEPT !.implemented = k \in S]]
<1>1. \A k \in DOMAIN M : DOMAIN N[k] = DOMAIN M[k] /\ N[k].src = M[k].src
  BY DEF Shaped
<1> QED
  BY <1>1, KeepSources

----------------------------------------------------------------------------
(* The invariant holds after an error and after a step of loading, given   *)
(* what the snapshot sn restores.                                          *)
Restores(sn) == /\ <<<<sn.mods, sn.order, sn.modules, sn.byNS>>,
                     <<sn.paths, sn.features, sn.vendor>>, sn.dirty>> = before'
                /\ Shaped(sn.mods) /\ Owned(sn.mods)

(* Where the state of a load is kept: what the other variables do.         *)
Outside == UNCHANGED <<frozen, closed, user>>

(* An error: restore brings back the state in which the call began.        *)
LEMMA FailKeeps ==
    ASSUME NEW sn, Restores(sn), Fail(sn), Outside, ~frozen \/ closed, user = Nil
    PROVE  IInv'
<1>1. ~Loading' /\ visible' = before'
  BY DEF Fail, restore, Restores, Loading, visible, index, settings
<1>2. Registry'
  BY <1>1 DEF Fail, restore, Restores, Registry, Loading, Shaped, Owned
<1> QED
  BY <1>1, <1>2 DEF IInv, Transactional, FailedLoadInvisible, Serial, Outside

(* loadModuleSource fails, or adds a module that owns its namespace.       *)
LEMMA LoadModuleSourceKeeps ==
    ASSUME NEW s, NEW i, NEW q, NEW sn, NEW fs, Restores(sn), Registry,
           loadModuleSource(s, i, q, sn, fs), Outside, ~frozen \/ closed, user = Nil
    PROVE  IInv'
<1>1. CASE Fail(sn)
  BY <1>1, FailKeeps
<1>2. CASE ~namespaceOwner(s) /\ ~Fail(sn)
  <2> DEFINE k == KeyOf(s)
             old == k \in DOMAIN mods
             m == [src |-> s, bound |-> <<>>,
                   implemented |-> i \/ allImplemented \/ (old /\ mods[k].implemented),
                   requested |-> q \/ (old /\ mods[k].requested)]
             M == [j \in DOMAIN mods \cup {k} |-> IF j = k THEN m ELSE mods[j]]
  <2>1. mods' = M /\ snap' = sn /\ result' = "none"
    BY <1>2 DEF loadModuleSource
  <2>2. m.src = s /\ DOMAIN m = {"src", "bound", "implemented", "requested"}
    OBVIOUS
  <2>3. \A j \in DOMAIN mods : mods[j].src.ns = s.ns => j[1] = s.name
    BY <1>2 DEF namespaceOwner
  <2> HIDE DEF m
  <2>4. Shaped(M) /\ Owned(M)
    <3>1. /\ DOMAIN M = DOMAIN mods \cup {KeyOf(s)} /\ M[KeyOf(s)] = m
          /\ \A j \in DOMAIN mods : j # KeyOf(s) => M[j] = mods[j]
      OBVIOUS
    <3> HIDE DEF M
    <3> QED
      BY <2>2, <2>3, <3>1, AddModule DEF Registry
  <2> HIDE DEF M
  <2>5. Registry'
    BY <2>1, <2>4 DEF Registry, Restores, Shaped, Owned
  <2>6. Transactional'
    BY <2>1 DEF Transactional, Saved, Restores
  <2> QED
    BY <2>1, <2>5, <2>6 DEF IInv, FailedLoadInvisible, Serial, Outside
<1> QED
  BY <1>1, <1>2 DEF loadModuleSource

(* bindImport fails or binds one import.                                   *)
LEMMA BindImportKeeps ==
    ASSUME NEW m, NEW k, NEW rest, Loading, IInv, before' = before,
           bindImport(m, k, rest), Outside
    PROVE  IInv'
<1>1. Restores(snap) /\ (~frozen \/ closed) /\ user = Nil
  BY DEF Restores, IInv, Transactional, Saved, Registry, Serial, Idle
<1>2. CASE Fail(snap)
  BY <1>1, <1>2, FailKeeps
<1>3. CASE ~Fail(snap)
  <2> DEFINE M == [mods EXCEPT ![m].bound = Append(@, k),
                               ![k].implemented = @ \/ allImplemented]
  <2>1. mods' = M /\ UNCHANGED <<snap, result>>
    BY <1>3 DEF bindImport
  <2>2. Shaped(M) /\ Owned(M)
    BY BindKeeps DEF IInv, Registry
  <2> HIDE DEF M
  <2>3. Registry'
    BY <1>1, <2>1, <2>2 DEF Registry, Restores, Shaped, Owned
  <2>4. Transactional'
    BY <1>1, <2>1 DEF Transactional, Saved, Restores, IInv
  <2>5. FailedLoadInvisible'
    BY <2>1 DEF FailedLoadInvisible, IInv, Transactional
  <2>6. Serial'
    BY <1>1 DEF Serial, Outside
  <2> QED
    BY <2>3, <2>4, <2>5, <2>6 DEF IInv
<1> QED
  BY <1>2, <1>3

----------------------------------------------------------------------------
(* The invariant: its first state, its steps.                              *)
LEMMA InitKeeps == Init => IInv
<1> SUFFICES ASSUME Init PROVE IInv
  OBVIOUS
<1>1. DOMAIN mods = {}
  BY DEF Init
<1> QED
  BY <1>1 DEF Init, IInv, Transactional, FailedLoadInvisible, Registry, Shaped, Owned,
              Serial, Loading

(* A call that begins a load, from LoadModule or LoadModuleFromPath.       *)
LEMMA StartLoadKeeps ==
    ASSUME NEW b, IInv, StartLoad(b)
    PROVE  IInv'
<1>1. ASSUME ensureMutable(b), before' = visible
      PROVE  Restores(snapshot) /\ Registry /\ (~frozen \/ closed) /\ user = Nil
  BY <1>1 DEF Restores, snapshot, visible, index, settings, IInv, Registry,
              ensureMutable, Idle
<1>2. ASSUME NEW n, NEW r, NEW fs, LoadModule(b, n, r, fs)
      PROVE  IInv'
  <2>1. Restores(snapshot) /\ Registry /\ (~frozen \/ closed) /\ user = Nil /\ Outside
    BY <1>1, <1>2 DEF LoadModule, Outside, phase
  <2>2. \/ Fail(snapshot)
        \/ \E s : loadModuleSource(s, TRUE, TRUE, snapshot, fs)
    BY <1>2 DEF LoadModule
  <2> QED
    BY <2>1, <2>2, FailKeeps, LoadModuleSourceKeeps
<1>3. ASSUME NEW s, LoadModuleFromPath(b, s)
      PROVE  IInv'
  <2>1. Restores(snapshot) /\ Registry /\ (~frozen \/ closed) /\ user = Nil /\ Outside
    BY <1>1, <1>3 DEF LoadModuleFromPath, Outside, phase
  <2> QED
    BY <1>3, <2>1, LoadModuleSourceKeeps DEF LoadModuleFromPath
<1> QED
  BY <1>2, <1>3 DEF StartLoad

(* A step of the load in progress.                                         *)
LEMMA LoadStepKeeps ==
    ASSUME IInv, LoadStep
    PROVE  IInv'
<1>1. Loading /\ before' = before /\ Outside
  BY DEF LoadStep, loadIncludes, loadImport, loadReturn, Outside, phase
<1>2. Restores(snap) /\ (~frozen \/ closed) /\ user = Nil /\ Registry
  BY <1>1 DEF Restores, IInv, Transactional, Saved, Registry, Serial, Idle
<1>3. CASE loadIncludes
  BY <1>1, <1>2, <1>3, FailKeeps DEF loadIncludes
<1>4. CASE loadImport
  <2>1. \/ Fail(snap)
        \/ \E k : bindImport(Top, k, importing)
        \/ \E s : loadModuleSource(s, FALSE, FALSE, snap, features)
    BY <1>4 DEF loadImport
  <2> QED
    BY <1>1, <1>2, <2>1, FailKeeps, BindImportKeeps, LoadModuleSourceKeeps
<1>5. CASE loadReturn
  <2>1. CASE Front(importing) # <<>>
    BY <1>1, <1>5, <2>1, BindImportKeeps DEF loadReturn
  <2>2. CASE Front(importing) = <<>>
    <3>1. /\ ~Loading' /\ result' = "ok" /\ UNCHANGED <<mods, user, frozen, closed>>
      BY <1>1, <1>5, <2>2 DEF loadReturn, Loading, index, Outside
    <3> QED
      BY <1>2, <3>1 DEF IInv, Transactional, FailedLoadInvisible, Registry, Serial,
                        Shaped, Owned
  <2> QED
    BY <2>1, <2>2
<1> QED
  BY <1>3, <1>4, <1>5 DEF LoadStep

(* A change of the settings, between calls.                                *)
LEMMA ConfigureKeeps ==
    ASSUME NEW b, IInv, Configure(b), Quiet
    PROVE  IInv'
<1>1. Idle /\ (~frozen \/ closed) /\ UNCHANGED <<mods, importing, snap, user, frozen, closed>>
  BY DEF Configure, SetSearchPath, UnsetSearchPath, SetFeatures, SetPolicy,
         SetValidationMode, RegisterSourcePaths, ensureMutable, visible, index, phase, run,
         IInv, Serial, Idle
<1> QED
  BY <1>1 DEF Quiet, IInv, Transactional, FailedLoadInvisible, Registry, Serial, Idle,
              Loading, Shaped, Owned

(* A rebuild: it freezes the context only when it leaves it clean.         *)
LEMMA RebuildKeeps ==
    ASSUME IInv, rebuild, Quiet
    PROVE  IInv'
<1>1. /\ ~Loading /\ user # Nil /\ (~frozen \/ closed)
      /\ UNCHANGED <<importing, snap, closed>>
  BY DEF rebuild, IInv, Serial, Idle
<1>2. CASE unknownFeature
  BY <1>1, <1>2 DEF rebuild, Quiet, index, IInv, Transactional, FailedLoadInvisible,
                    Registry, Serial, Loading, Shaped, Owned
<1>3. CASE ~unknownFeature
  <2>1. PICK S, w : 
          /\ mods' = [k \in DOMAIN mods |-> [mods[k] EXCEPT !.implemented = k \in w.impl]]
          /\ user' = IF settled(Amending(S), w.impl) THEN Nil ELSE user
          /\ dirty' = ~(settled(Amending(S), w.impl) /\ ~w.err)
          /\ frozen' = (frozen \/ (settled(Amending(S), w.impl) /\ ~w.err /\ user \in Builders))
    BY <1>3 DEF rebuild
  <2>2. Shaped(mods') /\ Owned(mods')
    BY <2>1, MarkKeeps DEF IInv, Registry
  <2>3. Registry'
    BY <1>1, <2>2 DEF Registry, Loading, Shaped, Owned
  <2>4. Serial'
    BY <1>1, <2>1 DEF Serial, Idle, Loading
  <2> QED
    BY <1>1, <2>3, <2>4 DEF IInv, Transactional, FailedLoadInvisible, Loading, Quiet
<1> QED
  BY <1>2, <1>3

(* A reader waits for the rebuild of a context that is not clean.          *)
LEMMA SchemaKeeps == IInv /\ Schema /\ Quiet => IInv'
  BY DEF Schema, Quiet, IInv, Transactional, FailedLoadInvisible, Registry, Serial, Idle,
         Loading, Shaped, Owned, visible, index, phase

(* Build freezes a clean context, or waits for a rebuild.                  *)
LEMMA BuildKeeps == ASSUME NEW b, IInv, Build(b), Quiet PROVE IInv'
  BY DEF Build, ensureMutable, Quiet, IInv, Transactional, FailedLoadInvisible, Registry,
         Serial, Idle, Loading, Shaped, Owned, visible, index

(* Close leaves no module.                                                 *)
LEMMA CloseKeeps == IInv /\ Close /\ Quiet => IInv'
<1> SUFFICES ASSUME IInv, Close, Quiet PROVE IInv'
  OBVIOUS
<1>1. ~Loading /\ ~Loading' /\ closed' /\ DOMAIN mods' = {}
  BY DEF Close, Idle, Loading, run
<1> QED
  BY <1>1 DEF Quiet, IInv, Transactional, FailedLoadInvisible, Registry, Serial, Shaped, Owned

(* The invariant is inductive.                                             *)
LEMMA NextKeeps ==
    ASSUME IInv, [Next]_vars
    PROVE  IInv'
<1>1. CASE UNCHANGED vars
  BY <1>1 DEF vars, visible, index, settings, phase, run, history, IInv, Transactional,
              Saved, FailedLoadInvisible, Registry, Serial, Idle, Loading, Shaped, Owned
<1>2. ASSUME NEW b \in Builders, Call(b)
      PROVE  IInv'
  BY <1>2, StartLoadKeeps, ConfigureKeeps DEF Call
<1>3. CASE LoadStep
  BY <1>3, LoadStepKeeps
<1>4. CASE (rebuild \/ Schema \/ Close \/ \E b \in Builders : Build(b)) /\ Quiet
  BY <1>4, RebuildKeeps, SchemaKeeps, BuildKeeps, CloseKeeps
<1> QED
  BY <1>1, <1>2, <1>3, <1>4 DEF Next

(* The invariant holds in every behaviour.                                 *)
LEMMA InvariantHolds == Spec => []IInv
<1>1. IInv /\ [Next]_vars => IInv'
  BY NextKeeps
<1> QED
  BY InitKeeps, <1>1, PTL DEF Spec

----------------------------------------------------------------------------
(* Context.LoadModule, loadModuleSource, restore: a load that fails, at    *)
(* whatever import and at whatever step, leaves modules, default modules,  *)
(* search path, features and validation mode as they were when the call    *)
(* began.                                                                  *)
THEOREM LoadsAreTransactional == Spec => []FailedLoadInvisible
<1>1. IInv => FailedLoadInvisible
  BY DEF IInv
<1> QED
  BY InvariantHolds, <1>1, PTL

(* namespaceOwner: no order of loads, failed loads and rebuilds gives two  *)
(* modules of different names the same namespace.                          *)
THEOREM NamespacesAreOwned == Spec => []NamespaceOwned
<1>1. IInv => NamespaceOwned
  BY DEF IInv, Registry, Owned, NamespaceOwned
<1> QED
  BY InvariantHolds, <1>1, PTL

(* ContextBuilder.Build, ensureMutable: what goroutines read in a frozen   *)
(* context does not change until Close, whichever copy of the builder is   *)
(* used, and there is nothing left to rebuild.                             *)
THEOREM FrozenContextsAreReadOnly == Spec => FrozenIsReadOnly
<1>1. ASSUME IInv, [Next]_vars
      PROVE  [frozen /\ ~closed' => ~dirty /\ UNCHANGED <<visible, catalog, applied>>]_vars
  <2> SUFFICES ASSUME Next, frozen, ~closed'
               PROVE  ~dirty /\ UNCHANGED <<visible, catalog, applied>>
    BY <1>1
  <2>1. ~closed
    BY DEF Next, Call, StartLoad, LoadModule, LoadModuleFromPath, Configure, SetSearchPath,
           UnsetSearchPath, SetFeatures, SetPolicy, SetValidationMode, RegisterSourcePaths,
           LoadStep, loadIncludes, loadImport, loadReturn, rebuild, Schema, Build, Close, phase
  <2>2. ~dirty /\ ~Loading /\ user = Nil
    BY <1>1, <2>1 DEF IInv, Serial, Idle
  <2>3. ~LoadStep /\ ~rebuild /\ ~Schema /\ ~Close
    BY <2>2 DEF LoadStep, loadIncludes, loadImport, loadReturn, rebuild, Schema, Close
  <2>4. ASSUME NEW b PROVE ~Call(b) /\ ~Build(b)
    BY DEF Call, StartLoad, LoadModule, LoadModuleFromPath, Configure, SetSearchPath,
           UnsetSearchPath, SetFeatures, SetPolicy, SetValidationMode, RegisterSourcePaths,
           Build, ensureMutable
  <2> QED
    BY <2>3, <2>4 DEF Next
<1> QED
  BY InvariantHolds, <1>1, PTL DEF Spec, FrozenIsReadOnly
=============================================================================
