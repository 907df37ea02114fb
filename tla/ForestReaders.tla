---------------------------- MODULE ForestReaders ----------------------------
(***************************************************************************)
(* The readers of the schema forest of go/libyangbackend: the forest is    *)
(* built by the first of several concurrent readers, kept under forestMu   *)
(* and dropped by every load.  What a forest holds is in Forest; here it is*)
(* what building it from the compiled context gives.                       *)
(***************************************************************************)
EXTENDS Integers, Probe, TLAPS

CONSTANTS Readers,    \* the goroutines that read the schema
          Libraries   \* what libyang holds at first and after each load

VARIABLES loads,    \* how many loads libyang has done
          frozen,   \* a data tree exists
          schemaForest,   \* Context.forest
          built,    \* how many forests were built
          mu,       \* the holder of forestMu
          pc,       \* where each reader is
          seen,     \* the loads done when its operation began
          got       \* and the forest it returned a handle on
fvars == <<loads, frozen, schemaForest, built, mu, pc, seen, got>>

NoForest == [serial |-> 0]
Holding(n) == probe.question.libs[n + 1]
Compiled == Holding(loads)
Forested(c) == Compute("BuildForest", <<c>>)

ForestIdle ==
    /\ loads = 0 /\ frozen = FALSE /\ schemaForest = NoForest /\ built = 0 /\ mu = {}
    /\ pc = [r \in Readers |-> "idle"]
    /\ seen = [r \in Readers |-> 0] /\ got = [r \in Readers |-> NoForest]

AskForest == Unasked /\ \E lib \in Libraries : Ask("forest", [libs |-> lib])

------------------------------------------------------------------------------
(* The context and its readers.  A load must not race with a read (the     *)
(* documented contract); reads race with each other.                       *)
NoReaders == \A r \in Readers : pc[r] = "idle"

(* LoadModule and LoadModuleFromPath: refused once a data tree exists; a   *)
(* load that fails leaves libyang and the forest as they are.              *)
Load ==
    /\ Asked("forest") /\ NoReaders /\ ~frozen /\ loads + 1 < Len(probe.question.libs)
    /\ loads' = loads + 1
    /\ schemaForest' = NoForest
    /\ UNCHANGED <<probe, frozen, built, mu, pc, seen, got>>

(* The first data tree.                                                    *)
Freeze ==
    /\ Asked("forest") /\ NoReaders /\ ~frozen
    /\ frozen' = TRUE
    /\ UNCHANGED <<probe, loads, schemaForest, built, mu, pc, seen, got>>

(* Schema, Modules and, on a live tree, Schema of one of its nodes.        *)
StartRead(r) ==
    /\ Asked("forest") /\ pc[r] = "idle"
    /\ pc' = [pc EXCEPT ![r] = "lock"]
    /\ seen' = [seen EXCEPT ![r] = loads]
    /\ got' = [got EXCEPT ![r] = NoForest]
    /\ UNCHANGED <<probe, loads, frozen, schemaForest, built, mu>>

AnyoneEnters(r) == TRUE
MayEnter(r) == mu = {}
LockForest(r) ==
    /\ pc[r] = "lock" /\ MayEnter(r)
    /\ mu' = mu \cup {r}
    /\ pc' = [pc EXCEPT ![r] = IF schemaForest = NoForest THEN "build" ELSE "unlock"]
    /\ UNCHANGED <<probe, loads, frozen, schemaForest, built, seen, got>>

BuildLocked(r) ==
    /\ pc[r] = "build"
    /\ schemaForest' = [serial |-> built + 1, loads |-> loads, content |-> Forested(Compiled)]
    /\ built' = built + 1
    /\ pc' = [pc EXCEPT ![r] = "unlock"]
    /\ UNCHANGED <<probe, loads, frozen, mu, seen, got>>

Unlock(r) ==
    /\ pc[r] = "unlock"
    /\ mu' = mu \ {r}
    /\ got' = [got EXCEPT ![r] = schemaForest]
    /\ pc' = [pc EXCEPT ![r] = "use"]
    /\ UNCHANGED <<probe, loads, frozen, schemaForest, built, seen>>

(* The reader uses the handle and is done; it keeps the handle.            *)
EndRead(r) ==
    /\ pc[r] = "use"
    /\ pc' = [pc EXCEPT ![r] = "idle"]
    /\ UNCHANGED <<probe, loads, frozen, schemaForest, built, mu, seen, got>>

ForestNext ==
    \/ AskForest /\ UNCHANGED fvars
    \/ Load \/ Freeze
    \/ \E r \in Readers : StartRead(r) \/ LockForest(r) \/ BuildLocked(r) \/ Unlock(r) \/ EndRead(r)

------------------------------------------------------------------------------
(* Any number of readers build the forest once per load: a handle being    *)
(* used is on the forest the context keeps, which is that of what libyang  *)
(* held when the reader's operation began, and handles taken with no load  *)
(* between them are on one forest, so that they may be compared and mixed  *)
(* (schemaForest, LoadModule, Modules, NodeRef.Schema).                    *)
HandlesCurrent ==
    /\ \A r \in Readers : pc[r] = "use" =>
        /\ got[r] = schemaForest
        /\ got[r].loads = seen[r] /\ got[r].content = Forested(Holding(seen[r]))
    /\ \A r, s \in Readers :
        NoForest \notin {got[r], got[s]} /\ got[r].loads = got[s].loads => got[r] = got[s]

------------------------------------------------------------------------------
ForestSpec == Unasked /\ ForestIdle /\ [][ForestNext]_<<probe, fvars>>

(* What every reader relies on: one of them at most is in the critical     *)
(* section, a forest is kept only for what libyang holds now, and a forest *)
(* that was handed out is the one kept unless a load has come since.       *)
Entered(r) == r \in mu <=> pc[r] \in {"build", "unlock"}
Exclusive == \A r, s \in mu : r = s
KeptCurrent ==
    schemaForest # NoForest =>
        schemaForest = [serial |-> built, loads |-> loads, content |-> Forested(Compiled)]
ReaderCurrent(r) ==
    /\ pc[r] # "idle" => Asked("forest") /\ seen[r] = loads
    /\ pc[r] = "build" => schemaForest = NoForest
    /\ pc[r] \in {"unlock", "use"} => schemaForest # NoForest
    /\ pc[r] = "use" => got[r] = schemaForest
    /\ got[r] # NoForest => got[r].loads \in 0 .. loads
    /\ got[r] # NoForest /\ got[r].loads = loads => got[r] = schemaForest
OneForestPerLoad ==
    \A r, s \in Readers :
        NoForest \notin {got[r], got[s]} /\ got[r].loads = got[s].loads => got[r] = got[s]
ReadersInv ==
    /\ loads \in Nat /\ built \in Nat /\ mu \subseteq Readers
    /\ pc \in [Readers -> {"idle", "lock", "build", "unlock", "use"}]
    /\ DOMAIN seen = Readers /\ DOMAIN got = Readers
    /\ Exclusive /\ KeptCurrent /\ OneForestPerLoad
    /\ schemaForest # NoForest => Asked("forest")
    /\ \A r \in Readers : Entered(r) /\ ReaderCurrent(r)

LEMMA ReadersInit == Unasked /\ ForestIdle => ReadersInv
  BY DEF ForestIdle, ReadersInv, Entered, Exclusive, KeptCurrent, ReaderCurrent, OneForestPerLoad

(* The forest a reader builds is one.                                      *)
LEMMA BuiltIsForest ==
    ASSUME NEW n \in Nat, NEW k, NEW c
    PROVE  [serial |-> n + 1, loads |-> k, content |-> c] # NoForest
<1>1. [serial |-> n + 1, loads |-> k, content |-> c].serial = n + 1  OBVIOUS
<1>2. NoForest.serial = 0  BY DEF NoForest
<1> QED  BY <1>1, <1>2

LEMMA ReadersStep == ReadersInv /\ [ForestNext]_<<probe, fvars>> => ReadersInv'
<1> SUFFICES ASSUME ReadersInv, [ForestNext]_<<probe, fvars>> PROVE ReadersInv'
    OBVIOUS
<1>1. CASE AskForest /\ UNCHANGED fvars
  <2>1. Unasked /\ UNCHANGED fvars  BY <1>1 DEF AskForest
  <2>2. ~Asked("forest")  BY <2>1 DEF Unasked, Asked, NoProbe
  <2>3. schemaForest = NoForest /\ \A r \in Readers : pc[r] = "idle"
    BY <2>2 DEF ReadersInv, ReaderCurrent
  <2> QED
    BY <2>1, <2>3 DEF ReadersInv, fvars, Entered, Exclusive, KeptCurrent, ReaderCurrent, OneForestPerLoad
<1>2. CASE Load
  <2>1. \A r \in Readers : got[r] # NoForest => got[r].loads \in 0 .. loads' /\ got[r].loads # loads'
    BY <1>2 DEF Load, ReadersInv, ReaderCurrent
  <2> QED
    BY <1>2, <2>1 DEF Load, NoReaders, ReadersInv, Entered, Exclusive, KeptCurrent, ReaderCurrent, OneForestPerLoad
<1>3. CASE Freeze
  BY <1>3 DEF Freeze, ReadersInv, Entered, Exclusive, KeptCurrent, ReaderCurrent, OneForestPerLoad, Asked,
       Compiled, Holding, Forested
<1>4. ASSUME NEW r \in Readers, StartRead(r) PROVE ReadersInv'
  <2> USE <1>4 DEF StartRead, ReadersInv
  <2>1. KeptCurrent' /\ Exclusive'  BY DEF KeptCurrent, Exclusive, Compiled, Holding, Forested
  <2>2. OneForestPerLoad'  BY DEF OneForestPerLoad
  <2>3. \A s \in Readers : Entered(s)' /\ ReaderCurrent(s)'  BY DEF Entered, ReaderCurrent, Asked
  <2> QED  BY <2>1, <2>2, <2>3 DEF Asked
<1>5. ASSUME NEW r \in Readers, LockForest(r) PROVE ReadersInv'
  <2> USE <1>5 DEF LockForest, MayEnter, ReadersInv
  <2>1. KeptCurrent' /\ Exclusive'  BY DEF KeptCurrent, Exclusive, Compiled, Holding, Forested
  <2>2. OneForestPerLoad'  BY DEF OneForestPerLoad
  <2>3. \A s \in Readers : Entered(s)' /\ ReaderCurrent(s)'  BY DEF Entered, ReaderCurrent, Asked
  <2> QED  BY <2>1, <2>2, <2>3 DEF Asked
<1>6. ASSUME NEW r \in Readers, BuildLocked(r) PROVE ReadersInv'
  <2> USE <1>6 DEF BuildLocked, ReadersInv
  <2>1. schemaForest = NoForest /\ Asked("forest")  BY DEF ReaderCurrent
  <2>2. schemaForest' # NoForest  BY BuiltIsForest
  <2>3. KeptCurrent' /\ Exclusive'  BY DEF KeptCurrent, Exclusive, Compiled, Holding, Forested
  <2>4. OneForestPerLoad'  BY DEF OneForestPerLoad
  <2>5. \A s \in Readers : pc[s] \in {"idle", "lock"} \/ s = r  BY <2>1 DEF Entered, Exclusive, ReaderCurrent
  <2>6. \A s \in Readers : Entered(s)'  BY DEF Entered
  <2>7. \A s \in Readers : got[s] # NoForest => got[s].loads # loads  BY <2>1 DEF ReaderCurrent
  <2>8. \A s \in Readers : ReaderCurrent(s)'  BY <2>1, <2>2, <2>5, <2>7 DEF ReaderCurrent, Asked
  <2> QED  BY <2>1, <2>3, <2>4, <2>6, <2>8 DEF Asked
<1>7. ASSUME NEW r \in Readers, Unlock(r) PROVE ReadersInv'
  <2> USE <1>7 DEF Unlock, ReadersInv
  <2>1. /\ schemaForest # NoForest /\ schemaForest.loads = loads
        /\ Asked("forest")
    BY DEF ReaderCurrent, KeptCurrent
  <2>2. KeptCurrent' /\ Exclusive'  BY DEF KeptCurrent, Exclusive, Compiled, Holding, Forested
  <2>3. OneForestPerLoad'  BY <2>1 DEF OneForestPerLoad, ReaderCurrent
  <2>4. \A s \in Readers : Entered(s)'  BY DEF Entered
  <2>5. \A s \in Readers : ReaderCurrent(s)'  BY <2>1 DEF ReaderCurrent, Asked
  <2> QED  BY <2>1, <2>2, <2>3, <2>4, <2>5 DEF Asked
<1>8. ASSUME NEW r \in Readers, EndRead(r) PROVE ReadersInv'
  <2> USE <1>8 DEF EndRead, ReadersInv
  <2>1. KeptCurrent' /\ Exclusive'  BY DEF KeptCurrent, Exclusive, Compiled, Holding, Forested
  <2>2. OneForestPerLoad'  BY DEF OneForestPerLoad
  <2>3. \A s \in Readers : Entered(s)' /\ ReaderCurrent(s)'  BY DEF Entered, ReaderCurrent, Asked
  <2> QED  BY <2>1, <2>2, <2>3 DEF Asked
<1>9. CASE UNCHANGED <<probe, fvars>>
  BY <1>9 DEF fvars, ReadersInv, Entered, Exclusive, KeptCurrent, ReaderCurrent, OneForestPerLoad, Asked,
       Compiled, Holding, Forested
<1> QED  BY <1>1, <1>2, <1>3, <1>4, <1>5, <1>6, <1>7, <1>8, <1>9 DEF ForestNext

(* However many readers race, whatever libyang holds and however often it  *)
(* loads between them, a handle in use is on the forest of what libyang    *)
(* held when the operation began, and two handles taken with no load       *)
(* between them are on one forest (schemaForest under forestMu, and the    *)
(* loads that drop it).                                                    *)
THEOREM ReadersShareForest == ForestSpec => []HandlesCurrent
<1>1. ReadersInv => HandlesCurrent
  BY DEF ReadersInv, HandlesCurrent, ReaderCurrent, KeptCurrent, OneForestPerLoad, Compiled
<1> QED  BY <1>1, ReadersInit, ReadersStep, PTL DEF ForestSpec
=============================================================================
