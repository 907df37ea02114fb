-------------------------- MODULE RawContext_proofs --------------------------
(***************************************************************************)
(* Proofs about RawContext: for every number of goroutines and handles.    *)
(***************************************************************************)
EXTENDS RawContext, FiniteSetTheorems, TLAPS

(* Which call a goroutine at a label can be executing.                     *)
OpAtLabel(p) ==
    LET o == job[p].op IN
    /\ pc[p] \in {"loadCloseReq", "loadDestroyed", "addLive", "recheck"} =>
          o \in AcquiringOps /\ ~failed[p]
    /\ pc[p] \in {"hold", "rlock", "unhold"} => o \in {"parse", "newdata"} /\ ~failed[p]
    /\ pc[p] \in {"lock", "checkFrozen", "unlock"} => o = "load" /\ ~failed[p]
    /\ pc[p] = "call" =>
          o \in {"search", "load", "parse", "schema", "use", "dup", "diff", "insert"}
          /\ ~failed[p]
    /\ pc[p] = "retain" => o = "newdata" \/ (o \in {"parse", "dup", "diff"} /\ ~failed[p])
    /\ pc[p] = "freeze" => o = "newdata" \/ (o \in {"parse", "dup"} /\ ~failed[p])
    /\ pc[p] = "casReleased" => o \in {"insert", "free"} /\ ~failed[p]
    /\ pc[p] = "free" => o = "free" /\ ~failed[p]
    /\ pc[p] \in {"dec", "check"} =>
          o \in AcquiringOps \/ (o \in {"insert", "free"} /\ ~failed[p])
    /\ pc[p] \in {"cas", "destroy"} =>
          o \in AcquiringOps
          \/ (o \in {"insert", "free", "close", "finalize"} /\ ~failed[p])
    /\ pc[p] \in {"storeCloseReq", "loadLive"} => o = "close" /\ ~failed[p]

(* What a goroutine in a call knows of the handles it works on.            *)
OnHandles(p) ==
    LET j == job[p] IN
    /\ pc[p] \in {"call", "retain", "freeze"} /\ j.op \in HandleOps =>
          j.src \in Handles /\ hs[j.src] = "open" /\ kind[j.src] # "shell"
    /\ pc[p] # "idle" /\ j.op = "insert" =>
          /\ j.src \in Handles /\ hs[j.src] = "open" /\ kind[j.src] # "shell"
          /\ j.ent \in Handles /\ j.ent # j.src
    /\ pc[p] = "casReleased" /\ j.op = "insert" => hs[j.ent] = "open"
    /\ pc[p] = "dec" /\ j.op = "insert" => hs[j.ent] = "freeing"
    /\ pc[p] # "idle" /\ j.op = "free" => j.src \in Handles
    /\ pc[p] = "casReleased" /\ j.op = "free" => hs[j.src] \in {"open", "closed"}
    /\ pc[p] \in {"free", "dec"} /\ j.op = "free" => hs[j.src] = "freeing"
    /\ j.op \in {"parse", "newdata", "dup", "diff"} /\ pc[p] # "idle" => j.dst \in Handles
    /\ j.op \in {"parse", "newdata", "dup", "diff"}
       /\ \/ pc[p] \in {"loadCloseReq", "loadDestroyed", "addLive", "recheck",
                        "hold", "rlock", "call", "retain"}
          \/ failed[p] /\ pc[p] \in {"dec", "check", "cas", "destroy"}
          => hs[j.dst] = "none"

(* A handle is in the hands of one goroutine at a time.                    *)
Exclusive == \A p, q \in Procs : \A h \in Handles :
                Uses(p, h) /\ Uses(q, h) => p = q

(* Nothing holds the context, and nothing can start to hold it.            *)
Drained == /\ \A h \in Handles : ~Retained(h)
           /\ \A p \in Procs : ~Admitted(p)
Gone == /\ ~ctxRef
        /\ \A h \in Handles : ~hRef[h] /\ hs[h] \in {"none", "closed"}
        /\ \A p \in Threads : pc[p] = "idle"
        /\ pc[GC] = "idle" \/ job[GC].op = "finalize"
Dead == Drained /\ (closeReq \/ Gone)

DrainInv ==
    /\ \A p \in Procs : pc[p] = "loadLive" => closeReq
    /\ \A p \in Procs : pc[p] = "check" /\ closeReq => Drained
    /\ \A p \in Procs : pc[p] = "cas" => Dead
    /\ \A p \in Procs : pc[p] = "destroy" => destroyed
    /\ ctx = "freed" => destroyed
    /\ destroyed => Dead

IInv == /\ TypeOK
        /\ \A p \in Procs : OpAtLabel(p)
        /\ \A p \in Procs : OnHandles(p)
        /\ Exclusive
        /\ LiveCounts
        /\ DrainInv

----------------------------------------------------------------------------
USE GCAssumption, NoHandleAssumption

(* Every call starts through Start, with a well-formed job.                *)
LEMMA StartsTyped ==
    ASSUME TypeOK, NEW p \in Procs, NEW l \in Labels, NEW j \in Jobs, Start(p, l, j)
    PROVE  TypeOK'
BY DEF TypeOK, Start, Goto, atomics, mutex, handles

(* A step preserves the type invariant.                                    *)
LEMMA TypeStep == TypeOK /\ [Next]_vars => TypeOK'
<1> SUFFICES ASSUME TypeOK, [Next]_vars PROVE TypeOK'
  OBVIOUS
<1> USE DEF Procs, Labels, Ops, AcquiringOps, HandleOps
<1>1. ASSUME NEW p \in Threads, StartCall(p) PROVE TypeOK'
  <2>1. CASE StartSearch(p) \/ StartLoad(p) \/ StartSchema(p) \/ StartClose(p)
    <3>1. \E l \in Labels, o \in Ops : Start(p, l, [Idle EXCEPT !.op = o])
      BY <2>1 DEF StartSearch, StartLoad, StartSchema, StartClose
    <3>2. \A o \in Ops : [Idle EXCEPT !.op = o] \in Jobs
      BY DEF Jobs, Idle
    <3> QED BY <3>1, <3>2, StartsTyped
  <2>2. ASSUME NEW h \in Handles,
               StartParse(p, h) \/ StartNewData(p, h) \/ StartUse(p, h) \/ StartFree(p, h)
        PROVE  TypeOK'
    <3>1. \E l \in Labels, j \in Jobs : Start(p, l, j)
      BY <2>2 DEF StartParse, StartNewData, StartUse, StartFree, Jobs, Idle
    <3> QED BY <3>1, StartsTyped
  <2>3. ASSUME NEW h \in Handles, NEW d \in Handles,
               StartDuplicate(p, h, d) \/ StartInsert(p, h, d)
        PROVE  TypeOK'
    <3>1. \E l \in Labels, j \in Jobs : Start(p, l, j)
      BY <2>3 DEF StartDuplicate, StartInsert, Jobs, Idle
    <3> QED BY <3>1, StartsTyped
  <2>4. ASSUME NEW h \in Handles, NEW e \in Handles, NEW d \in Handles, StartDiff(p, h, e, d)
        PROVE  TypeOK'
    <3>1. \E l \in Labels, j \in Jobs : Start(p, l, j)
      BY <2>4 DEF StartDiff, Jobs
    <3> QED BY <3>1, StartsTyped
  <2> QED BY <1>1, <2>1, <2>2, <2>3, <2>4 DEF StartCall
<1>2. ASSUME NEW p \in Procs, Step(p) PROVE TypeOK'
  <2> USE DEF TypeOK, Goto, atomics, mutex, handles
  <2>1. CASE AcquireLoadCloseReq(p)
    BY <2>1 DEF AcquireLoadCloseReq, AfterFail
  <2>10. CASE AcquireLoadDestroyed(p)
    BY <2>10 DEF AcquireLoadDestroyed, AfterFail
  <2>11. CASE AcquireAddLive(p)
    BY <2>11 DEF AcquireAddLive
  <2>12. CASE AcquireRecheck(p)
    BY <2>12 DEF AcquireRecheck, AfterAcquire
  <2>2. CASE HoldSchema(p) \/ RLock(p) \/ BeginLoadLock(p) \/ BeginLoadCheckFrozen(p)
    BY <2>2 DEF HoldSchema, RLock, BeginLoadLock, BeginLoadCheckFrozen, Held
  <2>3. CASE CallReturns(p)
    BY <2>3 DEF CallReturns, AfterCall
  <2>4. CASE Retain(p)
    <3>1. KindOf(p) \in {"tree", "diff", "shell"}
      BY DEF KindOf
    <3>2. hs' \in [Handles -> {"none", "open", "freeing", "closed"}]
      BY <2>4 DEF Retain
    <3>5. live' \in Int
      BY <2>4 DEF Retain
    <3>6. kind' \in [Handles -> {"tree", "diff", "shell"}]
      <4>1. kind' = [kind EXCEPT ![job[p].dst] = KindOf(p)]
        BY <2>4 DEF Retain
      <4> QED BY <3>1, <4>1
    <3>3. hRef' \in [Handles -> BOOLEAN]
      BY <2>4 DEF Retain
    <3>4. pc' \in [Procs -> Labels]
      BY <2>4 DEF Retain
    <3> QED BY <2>4, <3>2, <3>3, <3>4, <3>5, <3>6 DEF Retain
  <2>5. CASE Freeze(p) \/ Unhold(p) \/ Unlock(p)
    BY <2>5 DEF Freeze, Unhold, Unlock
  <2>6. CASE CasReleased(p) \/ FreeNodes(p)
    BY <2>6 DEF CasReleased, FreeNodes
  <2>7. CASE ReleaseDec(p) \/ ReleaseCheck(p)
    BY <2>7 DEF ReleaseDec, ReleaseCheck, AfterRelease, AfterFail
  <2>8. CASE DestroyCas(p) \/ DestroyCtx(p)
    BY <2>8 DEF DestroyCas, DestroyCtx, AfterRelease, AfterFail
  <2>9. CASE CloseStore(p) \/ CloseLoadLive(p)
    BY <2>9 DEF CloseStore, CloseLoadLive
  <2> QED BY <1>2, <2>1, <2>2, <2>3, <2>4, <2>5, <2>6, <2>7, <2>8, <2>9,
         <2>10, <2>11, <2>12 DEF Step
<1>3. CASE Finalizers
  <2>1. \E l \in Labels, j \in Jobs : Start(GC, l, j)
    BY <1>3 DEF Finalizers, FinalizeContext, FinalizeHandle, Jobs, Idle
  <2> QED BY <2>1, StartsTyped
<1>4. CASE Drop
  BY <1>4 DEF Drop, DropContext, DropHandle, TypeOK, atomics, mutex, handles
<1>5. CASE LiveOn \/ UNCHANGED vars
  BY <1>5 DEF LiveOn, vars, TypeOK, atomics, mutex, handles
<1> QED BY <1>1, <1>2, <1>3, <1>4, <1>5 DEF Next

(* A new context is well typed.                                            *)
LEMMA InitTypeOK == NewContext => TypeOK
<1> SUFFICES ASSUME NewContext PROVE TypeOK
  OBVIOUS
<1>1. Idle \in Jobs
  BY DEF Idle, Jobs, Ops
<1>2. "idle" \in Labels
  BY DEF Labels
<1>3. live \in Int
  BY DEF NewContext
<1>4. /\ closeReq \in BOOLEAN /\ destroyed \in BOOLEAN /\ frozen \in BOOLEAN
      /\ ctxRef \in BOOLEAN
  BY Zenon DEF NewContext
<1>5. /\ failed \in [Procs -> BOOLEAN] /\ hRef \in [Handles -> BOOLEAN]
  BY DEF NewContext
<1> QED BY <1>1, <1>2, <1>3, <1>4, <1>5 DEF NewContext, TypeOK

(* The variables of RawContext keep their types, in every schedule.        *)
THEOREM TypeCorrect == Spec => []TypeOK
<1> QED BY InitTypeOK, TypeStep, PTL DEF Spec

----------------------------------------------------------------------------
(* The ways a call starts: label, job, and what is known of its handles.   *)
BeginsWith(p, l, j) ==
      /\ Start(p, l, j)
      /\ j.src \in Handles => Unused(j.src) /\ hs[j.src] # "none"
      /\ j.ent \in Handles => Unused(j.ent) /\ hs[j.ent] # "none"
      /\ j.dst \in Handles => Unused(j.dst) /\ hs[j.dst] = "none"
      /\ \/ l = "loadCloseReq" /\ ctxRef /\ p \in Threads
            /\ \/ j.op \in {"search", "load"}
               \/ j.op \in {"parse", "newdata"} /\ j.dst \in Handles
         \/ l = "call" /\ ctxRef /\ p \in Threads /\ j.op = "schema"
         \/ l = "storeCloseReq" /\ ctxRef /\ p \in Threads /\ j.op = "close"
         \/ /\ l = "call" /\ p \in Threads
            /\ j.src \in Handles /\ Usable(j.src) /\ kind[j.src] # "shell"
            /\ \/ j.op = "use"
               \/ j.op \in {"dup", "diff"} /\ j.dst \in Handles
         \/ /\ l = "casReleased" /\ j.op = "insert" /\ p \in Threads
            /\ j.src \in Handles /\ Usable(j.src) /\ kind[j.src] # "shell"
            /\ j.ent \in Handles /\ Usable(j.ent) /\ j.ent # j.src
         \/ /\ l = "casReleased" /\ j.op = "free"
            /\ j.src \in Handles
            /\ \/ hs[j.src] = "open"
               \/ hs[j.src] = "closed" /\ hRef[j.src]
         \/ l = "cas" /\ j.op = "finalize" /\ FinalizeContext /\ p = GC
Begins(p) == \E l \in Labels, j \in Jobs : BeginsWith(p, l, j)

(* Each Start action is one of the ways of BeginsWith.                     *)
LEMMA StartsBegin ==
    ASSUME TypeOK, NEW p \in Threads, StartCall(p)
    PROVE  Begins(p)
<1>1. CASE StartSearch(p)
  <2> DEFINE j == [Idle EXCEPT !.op = "search"]
  <2>1. j \in Jobs /\ j.op = "search" /\ j.src = NoHandle /\ j.ent = NoHandle /\ j.dst = NoHandle
    BY DEF Jobs, Idle, Ops, AcquiringOps, HandleOps
  <2>2. Start(p, "loadCloseReq", j)
    BY <1>1 DEF StartSearch
  <2> HIDE DEF j
  <2>3. BeginsWith(p, "loadCloseReq", j)
    BY <1>1, <2>1, <2>2 DEF StartSearch, BeginsWith, Fresh, Usable, requireContext
  <2> QED BY <2>1, <2>3 DEF Begins, Labels
<1>2. CASE StartLoad(p)
  <2> DEFINE j == [Idle EXCEPT !.op = "load"]
  <2>1. j \in Jobs /\ j.op = "load" /\ j.src = NoHandle /\ j.ent = NoHandle /\ j.dst = NoHandle
    BY DEF Jobs, Idle, Ops, AcquiringOps, HandleOps
  <2>2. Start(p, "loadCloseReq", j)
    BY <1>2 DEF StartLoad
  <2> HIDE DEF j
  <2>3. BeginsWith(p, "loadCloseReq", j)
    BY <1>2, <2>1, <2>2 DEF StartLoad, BeginsWith, Fresh, Usable, requireContext
  <2> QED BY <2>1, <2>3 DEF Begins, Labels
<1>3. CASE StartSchema(p)
  <2> DEFINE j == [Idle EXCEPT !.op = "schema"]
  <2>1. j \in Jobs /\ j.op = "schema" /\ j.src = NoHandle /\ j.ent = NoHandle /\ j.dst = NoHandle
    BY DEF Jobs, Idle, Ops, AcquiringOps, HandleOps
  <2>2. Start(p, "call", j)
    BY <1>3 DEF StartSchema
  <2> HIDE DEF j
  <2>3. BeginsWith(p, "call", j)
    BY <1>3, <2>1, <2>2 DEF StartSchema, BeginsWith, Fresh, Usable, requireContext
  <2> QED BY <2>1, <2>3 DEF Begins, Labels
<1>4. CASE StartClose(p)
  <2> DEFINE j == [Idle EXCEPT !.op = "close"]
  <2>1. j \in Jobs /\ j.op = "close" /\ j.src = NoHandle /\ j.ent = NoHandle /\ j.dst = NoHandle
    BY DEF Jobs, Idle, Ops, AcquiringOps, HandleOps
  <2>2. Start(p, "storeCloseReq", j)
    BY <1>4 DEF StartClose
  <2> HIDE DEF j
  <2>3. BeginsWith(p, "storeCloseReq", j)
    BY <1>4, <2>1, <2>2 DEF StartClose, BeginsWith, Fresh, Usable, requireContext
  <2> QED BY <2>1, <2>3 DEF Begins, Labels
<1>5. ASSUME NEW h \in Handles, StartParse(p, h) PROVE Begins(p)
  <2> DEFINE j == [Idle EXCEPT !.op = "parse", !.dst = h]
  <2>1. j \in Jobs /\ j.op = "parse" /\ j.src = NoHandle /\ j.ent = NoHandle /\ j.dst = h
    BY DEF Jobs, Idle, Ops, AcquiringOps, HandleOps
  <2>2. Start(p, "loadCloseReq", j)
    BY <1>5 DEF StartParse
  <2> HIDE DEF j
  <2>3. BeginsWith(p, "loadCloseReq", j)
    BY <1>5, <2>1, <2>2 DEF StartParse, BeginsWith, Fresh, Usable, requireContext
  <2> QED BY <2>1, <2>3 DEF Begins, Labels
<1>6. ASSUME NEW h \in Handles, StartNewData(p, h) PROVE Begins(p)
  <2> DEFINE j == [Idle EXCEPT !.op = "newdata", !.dst = h]
  <2>1. j \in Jobs /\ j.op = "newdata" /\ j.src = NoHandle /\ j.ent = NoHandle /\ j.dst = h
    BY DEF Jobs, Idle, Ops, AcquiringOps, HandleOps
  <2>2. Start(p, "loadCloseReq", j)
    BY <1>6 DEF StartNewData
  <2> HIDE DEF j
  <2>3. BeginsWith(p, "loadCloseReq", j)
    BY <1>6, <2>1, <2>2 DEF StartNewData, BeginsWith, Fresh, Usable, requireContext
  <2> QED BY <2>1, <2>3 DEF Begins, Labels
<1>7. ASSUME NEW h \in Handles, StartUse(p, h) PROVE Begins(p)
  <2> DEFINE j == [Idle EXCEPT !.op = "use", !.src = h]
  <2>1. j \in Jobs /\ j.op = "use" /\ j.src = h /\ j.ent = NoHandle /\ j.dst = NoHandle
    BY DEF Jobs, Idle, Ops, AcquiringOps, HandleOps
  <2>2. Start(p, "call", j)
    BY <1>7 DEF StartUse
  <2> HIDE DEF j
  <2>3. BeginsWith(p, "call", j)
    BY <1>7, <2>1, <2>2 DEF StartUse, BeginsWith, Fresh, Usable, requireContext
  <2> QED BY <2>1, <2>3 DEF Begins, Labels
<1>8. ASSUME NEW h \in Handles, StartFree(p, h) PROVE Begins(p)
  <2> DEFINE j == [Idle EXCEPT !.op = "free", !.src = h]
  <2>1. j \in Jobs /\ j.op = "free" /\ j.src = h /\ j.ent = NoHandle /\ j.dst = NoHandle
    BY DEF Jobs, Idle, Ops, AcquiringOps, HandleOps
  <2>2. Start(p, "casReleased", j)
    BY <1>8 DEF StartFree
  <2> HIDE DEF j
  <2>3. BeginsWith(p, "casReleased", j)
    BY <1>8, <2>1, <2>2 DEF StartFree, BeginsWith, Fresh, Usable, requireContext
  <2> QED BY <2>1, <2>3 DEF Begins, Labels
<1>9. ASSUME NEW h \in Handles, NEW d \in Handles, StartDuplicate(p, h, d) PROVE Begins(p)
  <2> DEFINE j == [Idle EXCEPT !.op = "dup", !.src = h, !.dst = d]
  <2>1. j \in Jobs /\ j.op = "dup" /\ j.src = h /\ j.ent = NoHandle /\ j.dst = d
    BY DEF Jobs, Idle, Ops, AcquiringOps, HandleOps
  <2>2. Start(p, "call", j)
    BY <1>9 DEF StartDuplicate
  <2> HIDE DEF j
  <2>3. BeginsWith(p, "call", j)
    BY <1>9, <2>1, <2>2 DEF StartDuplicate, BeginsWith, Fresh, Usable, requireContext
  <2> QED BY <2>1, <2>3 DEF Begins, Labels
<1>10. ASSUME NEW h \in Handles, NEW d \in Handles, StartInsert(p, h, d) PROVE Begins(p)
  <2> DEFINE j == [Idle EXCEPT !.op = "insert", !.src = h, !.ent = d]
  <2>1. j \in Jobs /\ j.op = "insert" /\ j.src = h /\ j.ent = d /\ j.dst = NoHandle
    BY DEF Jobs, Idle, Ops, AcquiringOps, HandleOps
  <2>2. Start(p, "casReleased", j)
    BY <1>10 DEF StartInsert
  <2> HIDE DEF j
  <2>3. BeginsWith(p, "casReleased", j)
    BY <1>10, <2>1, <2>2 DEF StartInsert, BeginsWith, Fresh, Usable, requireContext
  <2> QED BY <2>1, <2>3 DEF Begins, Labels
<1>11. ASSUME NEW h \in Handles, NEW e \in Handles, NEW d \in Handles, StartDiff(p, h, e, d)
      PROVE Begins(p)
  <2> DEFINE j == [op |-> "diff", src |-> h, ent |-> e, dst |-> d]
  <2>1. j \in Jobs /\ j.op = "diff" /\ j.src = h /\ j.ent = e /\ j.dst = d
    BY DEF Jobs, Idle, Ops, AcquiringOps, HandleOps
  <2>2. Start(p, "call", j)
    BY <1>11 DEF StartDiff
  <2> HIDE DEF j
  <2>3. BeginsWith(p, "call", j)
    BY <1>11, <2>1, <2>2 DEF StartDiff, BeginsWith, Fresh, Usable, requireContext
  <2> QED BY <2>1, <2>3 DEF Begins, Labels
<1> QED BY <1>1, <1>2, <1>3, <1>4, <1>5, <1>6, <1>7, <1>8, <1>9, <1>10, <1>11 DEF StartCall

(* So are the starts of the finalizers.                                    *)
LEMMA FinalizersBegin == TypeOK /\ Finalizers => Begins(GC)
<1> SUFFICES ASSUME TypeOK, Finalizers PROVE Begins(GC)
  OBVIOUS
<1>1. CASE FinalizeContext
  <2> DEFINE j == [Idle EXCEPT !.op = "finalize"]
  <2>1. j \in Jobs /\ j.op = "finalize" /\ j.src = NoHandle /\ j.ent = NoHandle /\ j.dst = NoHandle
    BY DEF Jobs, Idle, Ops, AcquiringOps, HandleOps
  <2>2. Start(GC, "cas", j)
    BY <1>1 DEF FinalizeContext
  <2> HIDE DEF j
  <2>3. BeginsWith(GC, "cas", j)
    BY <1>1, <2>1, <2>2 DEF FinalizeContext, BeginsWith, Fresh, Usable, requireContext
  <2> QED BY <2>1, <2>3 DEF Begins, Labels
<1>2. ASSUME NEW h \in Handles, FinalizeHandle(h) PROVE Begins(GC)
  <2> DEFINE j == [Idle EXCEPT !.op = "free", !.src = h]
  <2>1. j \in Jobs /\ j.op = "free" /\ j.src = h /\ j.ent = NoHandle /\ j.dst = NoHandle
    BY DEF Jobs, Idle, Ops, AcquiringOps, HandleOps
  <2>2. Start(GC, "casReleased", j)
    BY <1>2 DEF FinalizeHandle
  <2> HIDE DEF j
  <2>3. BeginsWith(GC, "casReleased", j)
    BY <1>2, <2>1, <2>2 DEF FinalizeHandle, BeginsWith, Fresh, Usable, requireContext
  <2> QED BY <2>1, <2>3 DEF Begins, Labels
<1> QED BY <1>1, <1>2 DEF Finalizers

(* Every step is the start of a call, a step of a call, or leaves the      *)
(* goroutines and all they share alone.                                    *)
LEMMA NextCases ==
    ASSUME TypeOK, [Next]_vars
    PROVE  \/ \E p \in Procs : Begins(p)
           \/ \E p \in Procs : Step(p)
           \/ Drop
           \/ UNCHANGED vars
BY StartsBegin, FinalizersBegin DEF Next, Procs, LiveOn

----------------------------------------------------------------------------
(* The label of a goroutine determines what it may be executing.           *)
OpsAtLabels == \A p \in Procs : OpAtLabel(p)

(* Every step keeps calls at the labels of their own code.                 *)
LEMMA OpsAtLabelsStep ==
    ASSUME TypeOK, OpsAtLabels, [Next]_vars
    PROVE  OpsAtLabels'
<1> USE DEF OpsAtLabels
<1>1. ASSUME NEW p \in Procs, Begins(p) PROVE OpsAtLabels'
  <2>1. PICK l \in Labels, j \in Jobs : BeginsWith(p, l, j)
    BY <1>1 DEF Begins
  <2>2. ASSUME NEW q \in Procs, q # p PROVE OpAtLabel(q)'
    BY <2>1, <2>2 DEF BeginsWith, Start, Goto, OpAtLabel, TypeOK
  <2>3. OpAtLabel(p)'
    <3>1. pc'[p] = l /\ job'[p] = j /\ failed'[p] = FALSE
      BY <2>1 DEF BeginsWith, Start, Goto, TypeOK
    <3> QED BY <2>1, <3>1 DEF BeginsWith, OpAtLabel, AcquiringOps
  <2> QED BY <2>2, <2>3
<1>2. ASSUME NEW p \in Procs, Step(p) PROVE OpsAtLabels'
  <2>1. ASSUME NEW q \in Procs, q # p PROVE OpAtLabel(q)'
    BY <1>2, <2>1 DEF Step, AcquireLoadCloseReq, AcquireLoadDestroyed, AcquireAddLive,
          AcquireRecheck, HoldSchema, RLock, BeginLoadLock, BeginLoadCheckFrozen,
          CallReturns, Retain, Freeze, Unhold, Unlock, CasReleased, FreeNodes,
          ReleaseDec, ReleaseCheck, DestroyCas, DestroyCtx, CloseStore, CloseLoadLive,
          Goto, OpAtLabel, TypeOK
  <2>2. OpAtLabel(p)'
    <3> USE DEF OpAtLabel, TypeOK, Goto, AcquiringOps
    <3>1. CASE AcquireLoadCloseReq(p) \/ AcquireLoadDestroyed(p)
      BY <3>1 DEF AcquireLoadCloseReq, AcquireLoadDestroyed, AfterFail
    <3>2. CASE AcquireAddLive(p) \/ AcquireRecheck(p)
      BY <3>2 DEF AcquireAddLive, AcquireRecheck, AfterAcquire
    <3>3. CASE HoldSchema(p) \/ RLock(p) \/ BeginLoadLock(p) \/ BeginLoadCheckFrozen(p)
      BY <3>3 DEF HoldSchema, RLock, BeginLoadLock, BeginLoadCheckFrozen, Held
    <3>4. CASE CallReturns(p)
      BY <3>4 DEF CallReturns, AfterCall
    <3>5. CASE Retain(p) \/ Freeze(p) \/ Unhold(p) \/ Unlock(p)
      BY <3>5 DEF Retain, Freeze, Unhold, Unlock, Creates
    <3>6. CASE CasReleased(p) \/ FreeNodes(p)
      BY <3>6 DEF CasReleased, FreeNodes
    <3>7. CASE ReleaseDec(p) \/ ReleaseCheck(p)
      BY <3>7 DEF ReleaseDec, ReleaseCheck, AfterRelease, AfterFail
    <3>8. CASE DestroyCas(p) \/ DestroyCtx(p)
      BY <3>8 DEF DestroyCas, DestroyCtx, AfterRelease, AfterFail
    <3>9. CASE CloseStore(p) \/ CloseLoadLive(p)
      BY <3>9 DEF CloseStore, CloseLoadLive
    <3> QED BY <1>2, <3>1, <3>2, <3>3, <3>4, <3>5, <3>6, <3>7, <3>8, <3>9 DEF Step
  <2> QED BY <2>1, <2>2
<1>3. CASE Drop
  BY <1>3 DEF Drop, DropContext, DropHandle, OpAtLabel
<1>4. CASE UNCHANGED vars
  BY <1>4 DEF vars, OpAtLabel
<1> QED BY <1>1, <1>2, <1>3, <1>4, NextCases

----------------------------------------------------------------------------
(* A step of a call moves only its own goroutine, keeps the jobs, and      *)
(* touches only handles that its goroutine uses.                           *)
LEMMA StepFrame ==
    ASSUME TypeOK, OpsAtLabels, NEW p \in Procs, Step(p)
    PROVE  /\ job' = job
           /\ pc[p] # "idle"
           /\ ctxRef' = ctxRef
           /\ \A q \in Procs : q # p => pc'[q] = pc[q] /\ failed'[q] = failed[q]
           /\ \A h \in Handles : ~Uses(p, h) =>
                 hs'[h] = hs[h] /\ kind'[h] = kind[h] /\ hRef'[h] = hRef[h]
<1> USE DEF TypeOK, Goto, Uses
<1>1. CASE Retain(p)
  BY <1>1 DEF Retain, handles
<1>2. CASE CasReleased(p) \/ ReleaseDec(p)
  <2>1. OpAtLabel(p)
    BY DEF OpsAtLabels
  <2> QED BY <1>2, <2>1 DEF CasReleased, ReleaseDec, Released, OpAtLabel, handles
<1>3. CASE AcquireLoadCloseReq(p) \/ AcquireLoadDestroyed(p) \/ AcquireAddLive(p)
           \/ AcquireRecheck(p) \/ HoldSchema(p) \/ RLock(p) \/ BeginLoadLock(p)
           \/ BeginLoadCheckFrozen(p) \/ CallReturns(p)
  BY <1>3 DEF AcquireLoadCloseReq, AcquireLoadDestroyed, AcquireAddLive,
          AcquireRecheck, HoldSchema, RLock, BeginLoadLock, BeginLoadCheckFrozen,
          CallReturns, handles
<1>4. CASE Freeze(p) \/ Unhold(p) \/ Unlock(p) \/ FreeNodes(p) \/ ReleaseCheck(p)
           \/ DestroyCas(p) \/ DestroyCtx(p) \/ CloseStore(p) \/ CloseLoadLive(p)
  BY <1>4 DEF Freeze, Unhold, Unlock, FreeNodes, ReleaseCheck, DestroyCas, DestroyCtx,
          CloseStore, CloseLoadLive, handles
<1> QED BY <1>1, <1>2, <1>3, <1>4 DEF Step

(* The start of a call moves only its own goroutine.                       *)
LEMMA StartFrame ==
    ASSUME TypeOK, NEW p \in Procs, NEW l \in Labels, NEW j \in Jobs, BeginsWith(p, l, j)
    PROVE  /\ pc[p] = "idle" /\ pc'[p] = l /\ job'[p] = j /\ failed'[p] = FALSE
           /\ \A q \in Procs : q # p =>
                 pc'[q] = pc[q] /\ job'[q] = job[q] /\ failed'[q] = failed[q]
           /\ hs' = hs /\ kind' = kind /\ hRef' = hRef /\ ctxRef' = ctxRef
           /\ live' = live /\ ctx' = ctx
           /\ closeReq' = closeReq /\ destroyed' = destroyed /\ frozen' = frozen
           /\ readers' = readers /\ writers' = writers
BY DEF BeginsWith, Start, Goto, TypeOK, handles, atomics, mutex

(* Every step keeps a handle in the hands of one goroutine.                *)
LEMMA ExclusiveStep ==
    ASSUME TypeOK, OpsAtLabels, Exclusive, [Next]_vars
    PROVE  Exclusive'
<1>1. ASSUME NEW p \in Procs, Begins(p) PROVE Exclusive'
  <2>1. PICK l \in Labels, j \in Jobs : BeginsWith(p, l, j)
    BY <1>1 DEF Begins
  <2>2. \A q \in Procs, h \in Handles : q # p => (Uses(q, h)' <=> Uses(q, h))
    BY <2>1, StartFrame DEF Uses
  <2>3. \A h \in Handles : Uses(p, h)' => Unused(h)
    <3> SUFFICES ASSUME NEW h \in Handles, Uses(p, h)' PROVE Unused(h)
      OBVIOUS
    <3>1. h \in {j.src, j.ent, j.dst}
      BY <2>1, StartFrame DEF Uses
    <3>2. /\ j.src \in Handles => Unused(j.src)
          /\ j.ent \in Handles => Unused(j.ent)
          /\ j.dst \in Handles => Unused(j.dst)
      BY <2>1 DEF BeginsWith
    <3> QED BY <3>1, <3>2
  <2> QED BY <2>2, <2>3 DEF Exclusive, Unused
<1>2. ASSUME NEW p \in Procs, Step(p) PROVE Exclusive'
  <2>1. \A q \in Procs, h \in Handles : Uses(q, h)' => Uses(q, h)
    BY <1>2, StepFrame DEF Uses
  <2> QED BY <2>1 DEF Exclusive
<1>3. CASE Drop
  BY <1>3 DEF Drop, DropContext, DropHandle, Exclusive, Uses
<1>4. CASE UNCHANGED vars
  BY <1>4 DEF vars, Exclusive, Uses
<1> QED BY <1>1, <1>2, <1>3, <1>4, NextCases

----------------------------------------------------------------------------
(* From here on: no caller operates on a handle it has closed.             *)
Hands == \A p \in Procs : OnHandles(p)

(* Every step keeps what goroutines know of their handles.                 *)
LEMMA HandsStep ==
    ASSUME ~UseAfterClose, TypeOK, OpsAtLabels, Exclusive, Hands, [Next]_vars
    PROVE  Hands'
<1> USE DEF Hands
<1>1. ASSUME NEW p \in Procs, Begins(p) PROVE Hands'
  <2>1. PICK l \in Labels, j \in Jobs : BeginsWith(p, l, j)
    BY <1>1 DEF Begins
  <2>2. ASSUME NEW q \in Procs, q # p PROVE OnHandles(q)'
    <3>1. /\ pc'[q] = pc[q] /\ job'[q] = job[q] /\ failed'[q] = failed[q]
          /\ hs' = hs /\ kind' = kind
      BY <2>1, <2>2, StartFrame
    <3>2. OnHandles(q)
      OBVIOUS
    <3> QED BY <3>1, <3>2 DEF OnHandles
  <2>3. OnHandles(p)'
    <3>1. /\ pc'[p] = l /\ job'[p] = j /\ failed'[p] = FALSE
          /\ hs' = hs /\ kind' = kind
      BY <2>1, StartFrame
    <3> HIDE DEF Hands
    <3> QED BY <2>1, <3>1 DEF OnHandles, BeginsWith, Usable, HandleOps
  <2> QED BY <2>2, <2>3
<1>2. ASSUME NEW p \in Procs, Step(p) PROVE Hands'
  <2>1. ASSUME NEW q \in Procs, q # p PROVE OnHandles(q)'
    <3>1. \A h \in Handles : Uses(q, h) => hs'[h] = hs[h] /\ kind'[h] = kind[h]
      BY <1>2, <2>1, StepFrame DEF Exclusive
    <3>2. pc'[q] = pc[q] /\ failed'[q] = failed[q] /\ job' = job
      BY <1>2, <2>1, StepFrame
    <3>3. OnHandles(q)
      OBVIOUS
    <3> QED BY <3>1, <3>2, <3>3 DEF OnHandles, Uses
  <2>2. OnHandles(p)'
    <3>1. OnHandles(p) /\ OpAtLabel(p) /\ job' = job
      BY <1>2, StepFrame DEF OpsAtLabels
    <3> USE <3>1 DEF OnHandles, OpAtLabel, TypeOK, Goto, AcquiringOps, HandleOps, handles
    <3>2. CASE AcquireLoadCloseReq(p) \/ AcquireLoadDestroyed(p)
      BY <3>2 DEF AcquireLoadCloseReq, AcquireLoadDestroyed, AfterFail
    <3>3. CASE AcquireAddLive(p) \/ AcquireRecheck(p)
      BY <3>3 DEF AcquireAddLive, AcquireRecheck, AfterAcquire
    <3>4. CASE HoldSchema(p) \/ RLock(p) \/ BeginLoadLock(p) \/ BeginLoadCheckFrozen(p)
      BY <3>4 DEF HoldSchema, RLock, BeginLoadLock, BeginLoadCheckFrozen, Held
    <3>5. CASE CallReturns(p)
      BY <3>5 DEF CallReturns, AfterCall
    <3>6. CASE Retain(p)
      BY <3>6 DEF Retain
    <3>7. CASE Freeze(p) \/ Unhold(p) \/ Unlock(p)
      BY <3>7 DEF Freeze, Unhold, Unlock, Creates
    <3>8. CASE CasReleased(p) \/ FreeNodes(p)
      BY <3>8 DEF CasReleased, FreeNodes, Released
    <3>9. CASE ReleaseDec(p)
      BY <3>9 DEF ReleaseDec, AfterRelease, AfterFail, Released
    <3>10. CASE ReleaseCheck(p)
      BY <3>10 DEF ReleaseCheck, AfterRelease, AfterFail
    <3>11. CASE DestroyCas(p) \/ DestroyCtx(p)
      BY <3>11 DEF DestroyCas, DestroyCtx, AfterRelease, AfterFail
    <3>12. CASE CloseStore(p) \/ CloseLoadLive(p)
      BY <3>12 DEF CloseStore, CloseLoadLive
    <3> QED BY <1>2, <3>2, <3>3, <3>4, <3>5, <3>6, <3>7, <3>8, <3>9, <3>10, <3>11, <3>12
            DEF Step
  <2> QED BY <2>1, <2>2
<1>3. CASE Drop
  BY <1>3 DEF Drop, DropContext, DropHandle, OnHandles, handles
<1>4. CASE UNCHANGED vars
  BY <1>4 DEF vars, handles, OnHandles
<1> QED BY <1>1, <1>2, <1>3, <1>4, NextCases

----------------------------------------------------------------------------
(* live counts: one unit per counting goroutine, one per open handle.      *)
(* Only finitely many goroutines and handles count.                        *)
LEMMA CountingFinite ==
    /\ IsFiniteSet(Procs)
    /\ \A S : S \subseteq Procs => IsFiniteSet(S) /\ Cardinality(S) \in Nat
    /\ \A S : S \subseteq Handles => IsFiniteSet(S) /\ Cardinality(S) \in Nat
<1>1. IsFiniteSet(Procs)
  BY FiniteAssumption, FS_AddElement DEF Procs
<1>2. IsFiniteSet(Handles)
  BY FiniteAssumption
<1> QED BY <1>1, <1>2, FS_Subset, FS_CardinalityType

(* A step of goroutine p leaves the counting sets alone, or moves p or one *)
(* handle in or out, and live follows.                                     *)
CountSame == live' = live /\ CountingThreads' = CountingThreads
                          /\ CountingHandles' = CountingHandles
CountThread(p) ==
    /\ CountingHandles' = CountingHandles
    /\ \/ /\ p \notin CountingThreads /\ CountingThreads' = CountingThreads \cup {p}
          /\ live' = live + 1
       \/ /\ p \in CountingThreads /\ CountingThreads' = CountingThreads \ {p}
          /\ live' = live - 1
CountHandle(h) ==
    /\ CountingThreads' = CountingThreads
    /\ \/ /\ h \notin CountingHandles /\ CountingHandles' = CountingHandles \cup {h}
          /\ live' = live + 1
       \/ /\ h \in CountingHandles /\ CountingHandles' = CountingHandles \ {h}
          /\ live' = live - 1

(* acquire, retain and release move one unit of live together with the     *)
(* goroutine or the handle that accounts for it.                           *)
LEMMA StepCounts ==
    ASSUME TypeOK, OpsAtLabels, Hands, NEW p \in Procs, Step(p)
    PROVE  CountSame \/ CountThread(p) \/ \E h \in Handles : CountHandle(h)
<1>1. OpAtLabel(p) /\ OnHandles(p)
  BY DEF OpsAtLabels, Hands
<1>2. \A q \in Procs : q # p => (CountsThread(q)' <=> CountsThread(q))
  BY StepFrame DEF CountsThread
<1> USE DEF TypeOK, Goto
<1>3. CASE AcquireAddLive(p)
  <2>1. ~CountsThread(p) /\ CountsThread(p)' /\ live' = live + 1 /\ hs' = hs
    BY <1>1, <1>3 DEF AcquireAddLive, CountsThread, OpAtLabel, handles
  <2> QED BY <1>2, <2>1 DEF CountThread, CountingThreads, CountingHandles
<1>4. CASE Retain(p)
  <2>1. (CountsThread(p)' <=> CountsThread(p)) /\ live' = live + 1
    BY <1>1, <1>4 DEF Retain, CountsThread, OpAtLabel, AcquiringOps
  <2>2. /\ job[p].dst \in Handles /\ hs[job[p].dst] = "none"
        /\ hs' = [hs EXCEPT ![job[p].dst] = "open"]
    BY <1>1, <1>4 DEF Retain, OpAtLabel, OnHandles
  <2>3. CountingThreads' = CountingThreads
    BY <1>2, <2>1 DEF CountingThreads
  <2>4. /\ job[p].dst \notin CountingHandles
        /\ CountingHandles' = CountingHandles \cup {job[p].dst}
    BY <2>2 DEF CountingHandles
  <2> QED BY <2>1, <2>2, <2>3, <2>4 DEF CountHandle
<1>5. CASE ReleaseDec(p) /\ job[p].op \in AcquiringOps
  <2>1. CountsThread(p) /\ ~CountsThread(p)' /\ live' = live - 1 /\ hs' = hs
    BY <1>1, <1>5 DEF ReleaseDec, CountsThread, OpAtLabel, AfterRelease, AfterFail, AcquiringOps
  <2> QED BY <1>2, <2>1 DEF CountThread, CountingThreads, CountingHandles
<1>6. CASE ReleaseDec(p) /\ job[p].op \notin AcquiringOps
  <2>1. ~CountsThread(p) /\ ~CountsThread(p)' /\ live' = live - 1
    BY <1>1, <1>6 DEF ReleaseDec, CountsThread
  <2>2. /\ Released(p) \in Handles /\ hs[Released(p)] = "freeing"
        /\ hs' = [hs EXCEPT ![Released(p)] = "closed"]
    BY <1>1, <1>6 DEF ReleaseDec, OpAtLabel, OnHandles, Released
  <2>3. CountingThreads' = CountingThreads
    BY <1>2, <2>1 DEF CountingThreads
  <2>4. /\ Released(p) \in CountingHandles
        /\ CountingHandles' = CountingHandles \ {Released(p)}
    BY <2>2 DEF CountingHandles
  <2> QED BY <2>1, <2>2, <2>3, <2>4 DEF CountHandle
<1>7. CASE CasReleased(p)
  <2>1. ~CountsThread(p) /\ ~CountsThread(p)' /\ live' = live
    BY <1>1, <1>7 DEF CasReleased, CountsThread, OpAtLabel, AcquiringOps
  <2>2. CountingHandles' = CountingHandles
    BY <1>7 DEF CasReleased, CountingHandles
  <2> QED BY <1>2, <2>1, <2>2 DEF CountSame, CountingThreads
<1>8. CASE \/ AcquireLoadCloseReq(p) \/ AcquireLoadDestroyed(p) \/ AcquireRecheck(p)
           \/ HoldSchema(p) \/ RLock(p) \/ BeginLoadLock(p) \/ BeginLoadCheckFrozen(p)
           \/ CallReturns(p) \/ Freeze(p) \/ Unhold(p) \/ Unlock(p) \/ FreeNodes(p)
           \/ ReleaseCheck(p) \/ DestroyCas(p) \/ DestroyCtx(p)
           \/ CloseStore(p) \/ CloseLoadLive(p)
  <2>1. live' = live /\ hs' = hs
    BY <1>8 DEF AcquireLoadCloseReq, AcquireLoadDestroyed, AcquireRecheck, HoldSchema,
          RLock, BeginLoadLock, BeginLoadCheckFrozen, CallReturns, Freeze, Unhold, Unlock,
          FreeNodes, ReleaseCheck, DestroyCas, DestroyCtx, CloseStore, CloseLoadLive, handles
  <2>2. CountsThread(p)' <=> CountsThread(p)
    <3> USE <1>1 DEF CountsThread, OpAtLabel, AcquiringOps
    <3>1. CASE AcquireLoadCloseReq(p) \/ AcquireLoadDestroyed(p) \/ AcquireRecheck(p)
      BY <3>1 DEF AcquireLoadCloseReq, AcquireLoadDestroyed, AcquireRecheck, AfterFail,
            AfterAcquire
    <3>2. CASE HoldSchema(p) \/ RLock(p) \/ BeginLoadLock(p) \/ BeginLoadCheckFrozen(p)
      BY <3>2 DEF HoldSchema, RLock, BeginLoadLock, BeginLoadCheckFrozen, Held
    <3>3. CASE CallReturns(p)
      BY <3>3 DEF CallReturns, AfterCall
    <3>4. CASE Freeze(p) \/ Unhold(p) \/ Unlock(p) \/ FreeNodes(p)
      BY <3>4 DEF Freeze, Unhold, Unlock, FreeNodes, Creates
    <3>5. CASE ReleaseCheck(p) \/ DestroyCas(p) \/ DestroyCtx(p)
      BY <3>5 DEF ReleaseCheck, DestroyCas, DestroyCtx, AfterRelease, AfterFail
    <3>6. CASE CloseStore(p) \/ CloseLoadLive(p)
      BY <3>6 DEF CloseStore, CloseLoadLive
    <3> QED BY <1>8, <3>1, <3>2, <3>3, <3>4, <3>5, <3>6
  <2> QED BY <1>2, <2>1, <2>2 DEF CountSame, CountingThreads, CountingHandles
<1> QED BY <1>3, <1>4, <1>5, <1>6, <1>7, <1>8 DEF Step

(* Every step keeps live equal to the number of counting goroutines and    *)
(* handles.                                                                *)
LEMMA LiveCountsStep ==
    ASSUME TypeOK, OpsAtLabels, Hands, LiveCounts, [Next]_vars
    PROVE  LiveCounts'
<1>0. CountingThreads \subseteq Procs /\ CountingHandles \subseteq Handles
  BY DEF CountingThreads, CountingHandles
<1>1. ASSUME CountSame PROVE LiveCounts'
  BY <1>1 DEF CountSame, LiveCounts
<1>2. ASSUME NEW p \in Procs, CountThread(p) PROVE LiveCounts'
  <2>1. /\ p \notin CountingThreads =>
              Cardinality(CountingThreads \cup {p}) = Cardinality(CountingThreads) + 1
        /\ p \in CountingThreads =>
              Cardinality(CountingThreads \ {p}) = Cardinality(CountingThreads) - 1
    BY <1>0, CountingFinite, FS_AddElement, FS_RemoveElement
  <2> QED BY <1>0, <1>2, <2>1, CountingFinite DEF CountThread, LiveCounts
<1>3. ASSUME NEW h \in Handles, CountHandle(h) PROVE LiveCounts'
  <2>1. /\ h \notin CountingHandles =>
              Cardinality(CountingHandles \cup {h}) = Cardinality(CountingHandles) + 1
        /\ h \in CountingHandles =>
              Cardinality(CountingHandles \ {h}) = Cardinality(CountingHandles) - 1
    BY <1>0, CountingFinite, FS_AddElement, FS_RemoveElement
  <2>2. Cardinality(CountingThreads) \in Nat /\ Cardinality(CountingHandles) \in Nat
    BY <1>0, CountingFinite
  <2>3. CountingThreads' = CountingThreads
    BY <1>3 DEF CountHandle
  <2>4. CASE h \notin CountingHandles
    <3>1. live' = live + 1 /\ CountingHandles' = CountingHandles \cup {h}
      BY <1>3, <2>4 DEF CountHandle
    <3> QED BY <2>1, <2>2, <2>3, <2>4, <3>1 DEF LiveCounts
  <2>5. CASE h \in CountingHandles
    <3>1. live' = live - 1 /\ CountingHandles' = CountingHandles \ {h}
      BY <1>3, <2>5 DEF CountHandle
    <3> QED BY <2>1, <2>2, <2>3, <2>5, <3>1 DEF LiveCounts
  <2> QED BY <2>4, <2>5
<1>4. ASSUME NEW p \in Procs, Begins(p) PROVE CountSame
  <2>1. PICK l \in Labels, j \in Jobs : BeginsWith(p, l, j)
    BY <1>4 DEF Begins
  <2>2. \A q \in Procs : q # p => (CountsThread(q)' <=> CountsThread(q))
    BY <2>1, StartFrame DEF CountsThread
  <2>3. ~CountsThread(p) /\ ~CountsThread(p)'
    BY <2>1, StartFrame DEF CountsThread, BeginsWith, AcquiringOps
  <2> QED BY <2>1, <2>2, <2>3, StartFrame DEF CountSame, CountingThreads, CountingHandles
<1>5. CASE Drop
  <2>1. CountSame
    BY <1>5 DEF Drop, DropContext, DropHandle, CountSame, CountingThreads, CountingHandles,
                CountsThread, handles
  <2> QED BY <2>1, <1>1
<1>6. CASE UNCHANGED vars
  <2>1. CountSame
    BY <1>6 DEF vars, CountSame, CountingThreads, CountingHandles, CountsThread, handles
  <2> QED BY <2>1, <1>1
<1> QED BY <1>1, <1>2, <1>3, <1>4, <1>5, <1>6, NextCases, StepCounts

----------------------------------------------------------------------------
(* A count of zero means that nothing holds the context.                   *)
LEMMA ZeroDrains == LiveCounts /\ live = 0 => Drained
<1> SUFFICES ASSUME LiveCounts, live = 0 PROVE Drained
  OBVIOUS
<1>1. CountingThreads \subseteq Procs /\ CountingHandles \subseteq Handles
  BY DEF CountingThreads, CountingHandles
<1>2. /\ IsFiniteSet(CountingThreads) /\ Cardinality(CountingThreads) \in Nat
      /\ IsFiniteSet(CountingHandles) /\ Cardinality(CountingHandles) \in Nat
  BY <1>1, CountingFinite
<1>3. Cardinality(CountingThreads) = 0 /\ Cardinality(CountingHandles) = 0
  BY <1>2 DEF LiveCounts
<1>4. CountingThreads = {} /\ CountingHandles = {}
  BY <1>2, <1>3, FS_EmptySet
<1>5. \A h \in Handles : ~Retained(h)
  BY <1>4 DEF CountingHandles, Retained
<1>6. \A p \in Procs : ~Admitted(p)
  BY <1>4 DEF CountingThreads, CountsThread, Admitted
<1> QED BY <1>5, <1>6 DEF Drained

(* Once nothing holds the context, only an acquire that passes its second  *)
(* check brings a holder in.                                               *)
LEMMA DrainedStep ==
    ASSUME TypeOK, OpsAtLabels, Hands, Drained, NEW p \in Procs, Step(p),
           closeReq \/ pc[p] # "recheck"
    PROVE  Drained'
<1>1. OpAtLabel(p) /\ OnHandles(p) /\ ~Admitted(p)
  BY DEF OpsAtLabels, Hands, Drained
<1>2. ASSUME NEW q \in Procs PROVE ~Admitted(q)'
  <2>1. CASE q # p
    BY <2>1, StepFrame DEF Drained, Admitted
  <2>2. CASE q = p
    <3> SUFFICES ~Admitted(p)'
      BY <2>2
    <3> USE <1>1 DEF Admitted, OpAtLabel, AcquiringOps, TypeOK, Goto
    <3>1. CASE AcquireLoadCloseReq(p) \/ AcquireLoadDestroyed(p)
      BY <3>1 DEF AcquireLoadCloseReq, AcquireLoadDestroyed, AfterFail
    <3>2. CASE AcquireAddLive(p) \/ AcquireRecheck(p)
      BY <3>2 DEF AcquireAddLive, AcquireRecheck
    <3>3. CASE HoldSchema(p) \/ RLock(p) \/ BeginLoadLock(p) \/ BeginLoadCheckFrozen(p)
      BY <3>3 DEF HoldSchema, RLock, BeginLoadLock, BeginLoadCheckFrozen
    <3>4. CASE CallReturns(p) \/ Retain(p) \/ Freeze(p) \/ Unhold(p) \/ Unlock(p)
      BY <3>4 DEF CallReturns, Retain, Freeze, Unhold, Unlock
    <3>5. CASE CasReleased(p) \/ FreeNodes(p)
      BY <3>5 DEF CasReleased, FreeNodes
    <3>6. CASE ReleaseDec(p) \/ ReleaseCheck(p)
      BY <3>6 DEF ReleaseDec, ReleaseCheck, AfterRelease, AfterFail
    <3>7. CASE DestroyCas(p) \/ DestroyCtx(p)
      BY <3>7 DEF DestroyCas, DestroyCtx, AfterRelease, AfterFail
    <3>8. CASE CloseStore(p) \/ CloseLoadLive(p)
      BY <3>8 DEF CloseStore, CloseLoadLive
    <3> QED BY <3>1, <3>2, <3>3, <3>4, <3>5, <3>6, <3>7, <3>8 DEF Step
  <2> QED BY <2>1, <2>2
<1>3. ASSUME NEW h \in Handles PROVE ~Retained(h)'
  <2>0. ~Retained(h)
    BY DEF Drained
  <2>1. CASE Retain(p)
    <3>1. job[p].op = "newdata" /\ failed[p]
      <4>1. job[p].op \notin HandleOps
        BY <1>1, <2>1 DEF Retain, OnHandles, Drained, Retained, HandleOps
      <4>2. ~(job[p].op \in {"parse", "newdata"} /\ ~failed[p])
        BY <1>1, <2>1 DEF Retain, Admitted, AcquiringOps
      <4> QED BY <1>1, <2>1, <4>1, <4>2 DEF Retain, OpAtLabel, HandleOps, TypeOK
    <3>2. KindOf(p) = "shell"
      BY <3>1 DEF KindOf
    <3>3. /\ hs' = [hs EXCEPT ![job[p].dst] = "open"]
          /\ kind' = [kind EXCEPT ![job[p].dst] = KindOf(p)]
      BY <2>1 DEF Retain
    <3> QED BY <2>0, <3>2, <3>3 DEF Retained, TypeOK
  <2>2. CASE CasReleased(p)
    BY <2>0, <2>2 DEF CasReleased, Retained, TypeOK
  <2>3. CASE ReleaseDec(p)
    BY <2>0, <2>3 DEF ReleaseDec, Retained, TypeOK
  <2>4. CASE ~(Retain(p) \/ CasReleased(p) \/ ReleaseDec(p))
    <3>1. hs' = hs /\ kind' = kind
      BY <2>4 DEF Step, AcquireLoadCloseReq, AcquireLoadDestroyed, AcquireAddLive,
          AcquireRecheck, HoldSchema, RLock, BeginLoadLock, BeginLoadCheckFrozen,
          CallReturns, Freeze, Unhold, Unlock, FreeNodes, ReleaseCheck, DestroyCas,
          DestroyCtx, CloseStore, CloseLoadLive, handles
    <3> QED BY <2>0, <3>1 DEF Retained
  <2> QED BY <2>1, <2>2, <2>3, <2>4
<1> QED BY <1>2, <1>3 DEF Drained

(* An unreachable context stays unreachable.                               *)
LEMMA GoneStep ==
    ASSUME TypeOK, OpsAtLabels, Gone, NEW p \in Procs, Step(p)
    PROVE  Gone' /\ pc[p] # "recheck"
<1>1. p = GC /\ job[p].op = "finalize" /\ pc[p] \in {"cas", "destroy"}
  <2>1. pc[p] # "idle"
    BY StepFrame
  <2>2. p = GC /\ job[p].op = "finalize"
    BY <2>1 DEF Gone, Procs
  <2>3. OpAtLabel(p) /\ pc[p] \in Labels
    BY DEF OpsAtLabels, TypeOK
  <2>4. /\ pc[p] \notin {"loadCloseReq", "loadDestroyed", "addLive", "recheck", "hold",
                          "rlock", "unhold", "lock", "checkFrozen", "unlock"}
        /\ pc[p] \notin {"call", "retain", "freeze", "casReleased", "free", "dec",
                          "check", "storeCloseReq", "loadLive"}
    BY <2>2, <2>3 DEF OpAtLabel, AcquiringOps
  <2> QED BY <2>1, <2>2, <2>3, <2>4 DEF Labels
<1>2. DestroyCas(p) \/ DestroyCtx(p)
  BY <1>1 DEF Step, AcquireLoadCloseReq, AcquireLoadDestroyed, AcquireAddLive,
          AcquireRecheck, HoldSchema, RLock, BeginLoadLock, BeginLoadCheckFrozen,
          CallReturns, Retain, Freeze, Unhold, Unlock, CasReleased, FreeNodes,
          ReleaseDec, ReleaseCheck, CloseStore, CloseLoadLive
<1>3. hs' = hs /\ hRef' = hRef /\ ctxRef' = ctxRef /\ job' = job
  BY <1>2 DEF DestroyCas, DestroyCtx, handles
<1>4. \A q \in Threads : pc'[q] = pc[q]
  BY <1>1, StepFrame DEF Procs
<1> QED BY <1>1, <1>3, <1>4 DEF Gone

(* Starting a call admits nobody and opens nothing.                        *)
LEMMA DrainedBegin ==
    ASSUME TypeOK, Drained, NEW p \in Procs, NEW l \in Labels, NEW j \in Jobs,
           BeginsWith(p, l, j)
    PROVE  Drained'
<1>1. ASSUME NEW q \in Procs PROVE ~Admitted(q)'
  <2>1. CASE q # p
    BY <2>1, StartFrame DEF Drained, Admitted
  <2>2. CASE q = p
    <3>1. pc'[p] = l /\ job'[p] = j
      BY StartFrame
    <3> QED BY <2>2, <3>1 DEF BeginsWith, Admitted, AcquiringOps
  <2> QED BY <2>1, <2>2
<1>2. hs' = hs /\ kind' = kind
  BY StartFrame
<1>3. \A h \in Handles : ~Retained(h)'
  BY <1>2 DEF Drained, Retained
<1> QED BY <1>1, <1>3 DEF Drained

(* The only call that starts on an unreachable context is its finalizer.   *)
LEMMA GoneBegin ==
    ASSUME TypeOK, Gone, NEW p \in Procs, NEW l \in Labels, NEW j \in Jobs,
           BeginsWith(p, l, j)
    PROVE  Gone'
<1>1. l = "cas" /\ j.op = "finalize" /\ p = GC
  BY DEF BeginsWith, Gone, Usable
<1>2. /\ hs' = hs /\ hRef' = hRef /\ ctxRef' = ctxRef /\ job'[p] = j
      /\ \A q \in Procs : q # p => pc'[q] = pc[q]
  BY StartFrame
<1> QED BY <1>1, <1>2 DEF Gone, Procs

(* The context finalizer finds nothing that holds the context.             *)
LEMMA FinalizeDrained ==
    ASSUME TypeOK, FinalizeContext, NEW l \in Labels, NEW j \in Jobs,
           BeginsWith(GC, l, j), j.op = "finalize"
    PROVE  Dead'
<1>1. Drained
  <2>1. \A h \in Handles : ~Retained(h)
    BY DEF FinalizeContext, Retained
  <2>2. \A p \in Procs : ~Admitted(p)
    BY DEF FinalizeContext, Admitted
  <2> QED BY <2>1, <2>2 DEF Drained
<1>2. Drained'
  BY <1>1, DrainedBegin DEF Procs
<1>3. Gone
  BY DEF FinalizeContext, Gone, Procs
<1>4. Gone'
  BY <1>3, GoneBegin DEF Procs
<1> QED BY <1>2, <1>4 DEF Dead

(* Every step keeps destroyCtx out of reach while something holds the      *)
(* context, if no Close falls between the two operations of a release.     *)
LEMMA DrainInvStep ==
    ASSUME ~StaleRelease, TypeOK, OpsAtLabels, Hands, LiveCounts, LiveCounts', DrainInv,
           [Next]_vars
    PROVE  DrainInv'
<1>1. ASSUME NEW p \in Procs, Begins(p) PROVE DrainInv'
  <2>1. PICK l \in Labels, j \in Jobs : BeginsWith(p, l, j)
    BY <1>1 DEF Begins
  <2>2. /\ closeReq' = closeReq /\ destroyed' = destroyed /\ ctx' = ctx
        /\ pc'[p] = l /\ \A q \in Procs : q # p => pc'[q] = pc[q]
    BY <2>1, StartFrame
  <2>3. Drained => Drained'
    BY <2>1, DrainedBegin
  <2>4. Dead => Dead'
    BY <2>1, <2>2, <2>3, GoneBegin DEF Dead
  <2>5. l \notin {"loadLive", "check", "destroy"}
    BY <2>1 DEF BeginsWith
  <2>6. l = "cas" => Dead'
    BY <2>1, FinalizeDrained DEF BeginsWith
  <2> QED BY <2>2, <2>3, <2>4, <2>5, <2>6 DEF DrainInv
<1>2. ASSUME NEW p \in Procs, Step(p) PROVE DrainInv'
  <2>1. closeReq => closeReq'
    BY <1>2 DEF Step, AcquireLoadCloseReq, AcquireLoadDestroyed, AcquireAddLive,
          AcquireRecheck, HoldSchema, RLock, BeginLoadLock, BeginLoadCheckFrozen,
          CallReturns, Retain, Freeze, Unhold, Unlock, CasReleased, FreeNodes,
          ReleaseDec, ReleaseCheck, DestroyCas, DestroyCtx, CloseStore, CloseLoadLive, atomics
  <2>2. Drained /\ closeReq => Drained'
    BY <1>2, DrainedStep
  <2>3. Dead => Dead'
    <3>1. CASE Dead /\ closeReq
      BY <2>1, <2>2, <3>1 DEF Dead
    <3>2. CASE Dead /\ Gone
      BY <1>2, <3>2, GoneStep, DrainedStep DEF Dead
    <3> QED BY <3>1, <3>2 DEF Dead
  <2>4. \A q \in Procs : q # p => pc'[q] = pc[q]
    BY <1>2, StepFrame
  <2>5. CASE CloseStore(p)
    <3>1. /\ closeReq' /\ destroyed' = destroyed /\ ctx' = ctx /\ pc'[p] = "loadLive"
          /\ \A q \in Procs : pc[q] # "check"
      BY <2>5 DEF CloseStore, Goto, TypeOK
    <3> QED BY <2>3, <2>4, <3>1 DEF DrainInv
  <2>6. CASE ReleaseDec(p)
    <3>1. /\ closeReq' = closeReq /\ destroyed' = destroyed /\ ctx' = ctx
          /\ pc'[p] \notin {"loadLive", "cas", "destroy"}
          /\ pc'[p] = "check" => live' = 0
      BY <2>6 DEF ReleaseDec, Goto, TypeOK, AfterRelease, AfterFail, atomics
    <3>2. live' = 0 => Drained'
      <4>1. (LiveCounts /\ live = 0 => Drained)'
        BY ZeroDrains, PTL
      <4> QED BY <4>1
    <3> QED BY <2>2, <2>3, <2>4, <3>1, <3>2 DEF DrainInv
  <2>7. CASE ReleaseCheck(p)
    <3>1. /\ closeReq' = closeReq /\ destroyed' = destroyed /\ ctx' = ctx
          /\ pc[p] = "check" /\ pc'[p] \notin {"loadLive", "check", "destroy"}
          /\ pc'[p] = "cas" => closeReq
      BY <2>7 DEF ReleaseCheck, Goto, TypeOK, AfterRelease, AfterFail, atomics
    <3>2. pc'[p] = "cas" => Dead'
      BY <2>3, <3>1 DEF DrainInv, Dead
    <3> QED BY <2>2, <2>3, <2>4, <3>1, <3>2 DEF DrainInv
  <2>8. CASE CloseLoadLive(p)
    <3>1. /\ closeReq' = closeReq /\ destroyed' = destroyed /\ ctx' = ctx
          /\ pc[p] = "loadLive" /\ pc'[p] \notin {"loadLive", "check", "destroy"}
          /\ pc'[p] = "cas" => live = 0
      BY <2>8 DEF CloseLoadLive, Goto, TypeOK, atomics
    <3>2. pc'[p] = "cas" => Dead'
      BY <2>3, <3>1, ZeroDrains DEF DrainInv, Dead
    <3> QED BY <2>2, <2>3, <2>4, <3>1, <3>2 DEF DrainInv
  <2>9. CASE DestroyCas(p)
    <3>1. /\ closeReq' = closeReq /\ destroyed' /\ ctx' = ctx
          /\ pc[p] = "cas" /\ pc'[p] \notin {"loadLive", "check", "cas"}
      BY <2>9 DEF DestroyCas, Goto, TypeOK, AfterRelease, AfterFail
    <3> QED BY <2>2, <2>3, <2>4, <3>1 DEF DrainInv
  <2>10. CASE DestroyCtx(p)
    <3>1. /\ closeReq' = closeReq /\ destroyed' = destroyed
          /\ pc[p] = "destroy" /\ pc'[p] \notin {"loadLive", "check", "cas", "destroy"}
      BY <2>10 DEF DestroyCtx, Goto, TypeOK, AfterRelease, AfterFail, atomics
    <3> QED BY <2>2, <2>3, <2>4, <3>1 DEF DrainInv
  <2>11. CASE ~(\/ CloseStore(p) \/ ReleaseDec(p) \/ ReleaseCheck(p) \/ CloseLoadLive(p)
                \/ DestroyCas(p) \/ DestroyCtx(p))
    <3>1. /\ closeReq' = closeReq /\ destroyed' = destroyed /\ ctx' = ctx
          /\ pc'[p] \notin {"loadLive", "check", "cas", "destroy"}
      <4> USE DEF Goto, TypeOK, atomics
      <4>1. CASE \/ AcquireLoadCloseReq(p) \/ AcquireLoadDestroyed(p) \/ AcquireAddLive(p)
                 \/ AcquireRecheck(p)
        BY <4>1 DEF AcquireLoadCloseReq, AcquireLoadDestroyed, AcquireAddLive,
          AcquireRecheck, AfterFail, AfterAcquire
      <4>2. CASE HoldSchema(p) \/ RLock(p) \/ BeginLoadLock(p) \/ BeginLoadCheckFrozen(p)
        BY <4>2 DEF HoldSchema, RLock, BeginLoadLock, BeginLoadCheckFrozen, Held
      <4>3. CASE CallReturns(p)
        BY <4>3 DEF CallReturns, AfterCall
      <4>4. CASE Retain(p) \/ Freeze(p) \/ Unhold(p) \/ Unlock(p)
        BY <4>4 DEF Retain, Freeze, Unhold, Unlock
      <4>5. CASE CasReleased(p) \/ FreeNodes(p)
        BY <4>5 DEF CasReleased, FreeNodes
      <4> QED BY <1>2, <2>11, <4>1, <4>2, <4>3, <4>4, <4>5 DEF Step
    <3> QED BY <2>2, <2>3, <2>4, <3>1 DEF DrainInv
  <2> QED BY <2>5, <2>6, <2>7, <2>8, <2>9, <2>10, <2>11
<1>3. CASE Drop
  <2>1. /\ pc' = pc /\ job' = job /\ hs' = hs /\ kind' = kind /\ failed' = failed
        /\ closeReq' = closeReq /\ destroyed' = destroyed /\ ctx' = ctx
        /\ ~ctxRef => ~ctxRef'
        /\ \A h \in Handles : ~hRef[h] => ~hRef'[h]
    BY <1>3 DEF Drop, DropContext, DropHandle, handles, atomics, TypeOK
  <2>2. (Drained => Drained') /\ (Gone => Gone')
    BY <2>1 DEF Drained, Retained, Admitted, Gone
  <2> QED BY <2>1, <2>2 DEF DrainInv, Dead
<1>4. CASE UNCHANGED vars
  BY <1>4 DEF vars, handles, atomics, DrainInv, Dead, Drained, Gone, Retained, Admitted
<1> QED BY <1>1, <1>2, <1>3, <1>4, NextCases

----------------------------------------------------------------------------
(* A new context satisfies the inductive invariant.                        *)
LEMMA InitIInv == NewContext => IInv
<1> SUFFICES ASSUME NewContext PROVE IInv
  OBVIOUS
<1>1. TypeOK
  BY InitTypeOK
<1>2. \A p \in Procs : pc[p] = "idle" /\ job[p] = Idle /\ failed[p] = FALSE
  BY DEF NewContext
<1>3. \A p \in Procs : OpAtLabel(p)
  BY <1>2 DEF OpAtLabel
<1>4. \A p \in Procs : OnHandles(p)
  BY <1>2 DEF OnHandles, Idle
<1>5. Exclusive
  BY <1>2 DEF Exclusive, Uses
<1>6. LiveCounts
  <2>1. CountingThreads = {}
    BY <1>2 DEF CountingThreads, CountsThread
  <2>2. CountingHandles = {}
    BY DEF NewContext, CountingHandles
  <2> QED BY <2>1, <2>2, FS_EmptySet DEF LiveCounts, NewContext
<1>7. DrainInv
  BY <1>2 DEF DrainInv, NewContext
<1> QED BY <1>1, <1>3, <1>4, <1>5, <1>6, <1>7 DEF IInv

(* The invariant is inductive.                                             *)
LEMMA IInvStep ==
    ASSUME ~UseAfterClose, ~StaleRelease, IInv, [Next]_vars
    PROVE  IInv'
<1>1. TypeOK /\ OpsAtLabels /\ Hands /\ Exclusive /\ LiveCounts /\ DrainInv
  BY DEF IInv, OpsAtLabels, Hands
<1>2. TypeOK'
  BY <1>1, TypeStep
<1>3. OpsAtLabels'
  BY <1>1, OpsAtLabelsStep
<1>4. Exclusive'
  BY <1>1, ExclusiveStep
<1>5. Hands'
  BY <1>1, HandsStep
<1>6. LiveCounts'
  BY <1>1, LiveCountsStep
<1>7. DrainInv'
  BY <1>1, <1>6, DrainInvStep
<1> QED BY <1>2, <1>3, <1>4, <1>5, <1>6, <1>7 DEF IInv, OpsAtLabels, Hands

(* The invariant implies the two safety properties of acquire and release. *)
LEMMA IInvSafe == IInv => ContextOutlivesHolders /\ NoUseAfterDestroy
<1> SUFFICES ASSUME IInv PROVE ContextOutlivesHolders /\ NoUseAfterDestroy
  OBVIOUS
<1>1. destroyed => Drained
  BY DEF IInv, DrainInv, Dead
<1>2. ContextOutlivesHolders
  BY <1>1 DEF ContextOutlivesHolders, Drained
<1>3. ASSUME NEW p \in Procs, InLibyang(p), job[p].op # "schema"
      PROVE  ctx = "alloc"
  <2>1. OpAtLabel(p) /\ OnHandles(p)
    BY DEF IInv
  <2>2. ~Drained
    <3>1. CASE pc[p] = "call" /\ job[p].op \in AcquiringOps
      BY <2>1, <3>1 DEF Drained, Admitted, OpAtLabel
    <3>2. CASE pc[p] = "call" /\ job[p].op \notin AcquiringOps
      BY <1>3, <2>1, <3>2 DEF Drained, Retained, OpAtLabel, OnHandles, AcquiringOps, HandleOps
    <3>3. CASE pc[p] = "free" /\ kind[job[p].src] # "shell"
      BY <2>1, <3>3 DEF Drained, Retained, OpAtLabel, OnHandles
    <3> QED BY <1>3, <3>1, <3>2, <3>3 DEF InLibyang
  <2>3. ctx \in {"alloc", "freed"} /\ (ctx = "freed" => destroyed)
    BY DEF IInv, TypeOK, DrainInv
  <2> QED BY <1>1, <2>2, <2>3
<1> QED BY <1>2, <1>3 DEF NoUseAfterDestroy

(* For any number of goroutines, trees and diffs: provided callers do not  *)
(* operate on handles they have closed, and Close never stores closeReq    *)
(* between the two atomic operations of a release, acquire, retain and     *)
(* release keep the libyang context alive as long as an admitted call, a   *)
(* tree or a diff holds it.                                                *)
THEOREM HoldersKeepContext ==
    ASSUME ~UseAfterClose, ~StaleRelease
    PROVE  Spec => []ContextOutlivesHolders
<1>1. IInv /\ [Next]_vars => IInv'
  BY IInvStep
<1> QED BY <1>1, InitIInv, IInvSafe, PTL DEF Spec

(* Under the same two conditions no admitted call and no operation of an   *)
(* unclosed tree or diff runs in libyang after ly_ctx_destroy.             *)
THEOREM NoCallAfterDestroy ==
    ASSUME ~UseAfterClose, ~StaleRelease
    PROVE  Spec => []NoUseAfterDestroy
<1>1. IInv /\ [Next]_vars => IInv'
  BY IInvStep
<1> QED BY <1>1, InitIInv, IInvSafe, PTL DEF Spec

----------------------------------------------------------------------------
(* ly_ctx_destroy runs at most once, whatever the schedule: the compare-   *)
(* and-swap admits one goroutine, and only that one frees the context.     *)
OnceInv == /\ \A p \in Procs : pc[p] = "destroy" => destroyed /\ ctx = "alloc"
           /\ \A p, q \in Procs : pc[p] = "destroy" /\ pc[q] = "destroy" => p = q
           /\ ctx = "freed" => destroyed

(* Every step keeps the destroy in one pair of hands.                      *)
LEMMA OnceStep ==
    ASSUME TypeOK, OpsAtLabels, OnceInv, [Next]_vars
    PROVE  OnceInv'
<1>1. ASSUME NEW p \in Procs, Begins(p) PROVE OnceInv'
  <2>1. PICK l \in Labels, j \in Jobs : BeginsWith(p, l, j)
    BY <1>1 DEF Begins
  <2>2. l # "destroy"
    BY <2>1 DEF BeginsWith
  <2>3. /\ pc'[p] = l /\ destroyed' = destroyed /\ ctx' = ctx
        /\ \A q \in Procs : q # p => pc'[q] = pc[q]
    BY <2>1, StartFrame
  <2> QED BY <2>2, <2>3 DEF OnceInv
<1>2. ASSUME NEW p \in Procs, Step(p) PROVE OnceInv'
  <2>1. \A q \in Procs : q # p => pc'[q] = pc[q]
    BY <1>2, StepFrame
  <2>2. CASE DestroyCas(p)
    <3>1. /\ destroyed' /\ ctx' = ctx /\ (pc'[p] = "destroy" => ~destroyed)
      BY <2>2 DEF DestroyCas, Goto, TypeOK, AfterRelease, AfterFail
    <3>2. ~destroyed => ctx = "alloc"
      BY DEF OnceInv, TypeOK
    <3> QED BY <2>1, <3>1, <3>2 DEF OnceInv
  <2>3. CASE DestroyCtx(p)
    <3>1. pc[p] = "destroy" /\ pc'[p] # "destroy" /\ destroyed' = destroyed
      BY <2>3 DEF DestroyCtx, Goto, TypeOK, AfterRelease, AfterFail, atomics
    <3> QED BY <2>1, <3>1 DEF OnceInv
  <2>4. CASE ~(DestroyCas(p) \/ DestroyCtx(p))
    <3>1. destroyed' = destroyed /\ ctx' = ctx
      BY <1>2, <2>4 DEF Step, AcquireLoadCloseReq, AcquireLoadDestroyed, AcquireAddLive,
          AcquireRecheck, HoldSchema, RLock, BeginLoadLock, BeginLoadCheckFrozen,
          CallReturns, Retain, Freeze, Unhold, Unlock, CasReleased, FreeNodes,
          ReleaseDec, ReleaseCheck, CloseStore, CloseLoadLive, atomics
    <3>2. pc'[p] # "destroy"
      <4> USE DEF Goto, TypeOK
      <4>1. CASE \/ AcquireLoadCloseReq(p) \/ AcquireLoadDestroyed(p) \/ AcquireAddLive(p)
                 \/ AcquireRecheck(p)
        BY <4>1 DEF AcquireLoadCloseReq, AcquireLoadDestroyed, AcquireAddLive,
          AcquireRecheck, AfterFail, AfterAcquire
      <4>2. CASE HoldSchema(p) \/ RLock(p) \/ BeginLoadLock(p) \/ BeginLoadCheckFrozen(p)
        BY <4>2 DEF HoldSchema, RLock, BeginLoadLock, BeginLoadCheckFrozen, Held
      <4>3. CASE CallReturns(p)
        BY <4>3 DEF CallReturns, AfterCall
      <4>4. CASE Retain(p) \/ Freeze(p) \/ Unhold(p) \/ Unlock(p)
        BY <4>4 DEF Retain, Freeze, Unhold, Unlock
      <4>5. CASE CasReleased(p) \/ FreeNodes(p) \/ CloseStore(p) \/ CloseLoadLive(p)
        BY <4>5 DEF CasReleased, FreeNodes, CloseStore, CloseLoadLive
      <4>6. CASE ReleaseDec(p) \/ ReleaseCheck(p)
        BY <4>6 DEF ReleaseDec, ReleaseCheck, AfterRelease, AfterFail
      <4> QED BY <1>2, <2>4, <4>1, <4>2, <4>3, <4>4, <4>5, <4>6 DEF Step
    <3> QED BY <2>1, <3>1, <3>2 DEF OnceInv
  <2> QED BY <2>2, <2>3, <2>4
<1>3. CASE Drop \/ UNCHANGED vars
  <2>1. pc' = pc /\ destroyed' = destroyed /\ ctx' = ctx
    BY <1>3 DEF Drop, DropContext, DropHandle, vars, atomics
  <2> QED BY <2>1 DEF OnceInv
<1> QED BY <1>1, <1>2, <1>3, NextCases

(* The destroy of destroyCtx happens at most once, with no assumption on   *)
(* the callers or on the schedule.                                         *)
THEOREM DestroyAtMostOnce == Spec => []DestroyedOnce
<1>1. NewContext => TypeOK /\ OpsAtLabels /\ OnceInv
  BY InitIInv DEF IInv, OpsAtLabels, OnceInv, NewContext
<1>2. TypeOK /\ OpsAtLabels /\ OnceInv /\ [Next]_vars => (TypeOK /\ OpsAtLabels /\ OnceInv)'
  BY TypeStep, OpsAtLabelsStep, OnceStep
<1>3. OnceInv => DestroyedOnce
  BY DEF OnceInv, DestroyedOnce
<1> QED BY <1>1, <1>2, <1>3, PTL DEF Spec

(* live is exact in every schedule, stale releases included: one unit per  *)
(* admitted or backing-out call and one per tree or diff not yet released. *)
THEOREM LiveIsExact ==
    ASSUME ~UseAfterClose
    PROVE  Spec => []LiveCounts
<1> DEFINE J == TypeOK /\ OpsAtLabels /\ Exclusive /\ Hands /\ LiveCounts
<1>1. NewContext => J
  BY InitIInv DEF IInv, OpsAtLabels, Hands
<1>2. J /\ [Next]_vars => J'
  BY TypeStep, OpsAtLabelsStep, ExclusiveStep, HandsStep, LiveCountsStep
<1>3. J => LiveCounts
  OBVIOUS
<1> QED BY <1>1, <1>2, <1>3, PTL DEF Spec

----------------------------------------------------------------------------
(* Somebody is on the way to the destroy of a closed context that nothing  *)
(* counts any more.                                                        *)
LeakInv == /\ closeReq /\ ~destroyed /\ live = 0 =>
                 \E p \in Procs : pc[p] \in {"loadLive", "check", "cas"}
           /\ destroyed => ctx = "freed" \/ \E p \in Procs : pc[p] = "destroy"

(* Every step hands the duty to destroy on, or does it.                    *)
LEMMA LeakStep ==
    ASSUME TypeOK, OpsAtLabels, LiveCounts, LeakInv, [Next]_vars
    PROVE  LeakInv'
<1>1. ASSUME NEW p \in Procs, Begins(p) PROVE LeakInv'
  <2>1. PICK l \in Labels, j \in Jobs : BeginsWith(p, l, j)
    BY <1>1 DEF Begins
  <2>2. /\ pc[p] = "idle" /\ \A q \in Procs : q # p => pc'[q] = pc[q]
        /\ closeReq' = closeReq /\ destroyed' = destroyed /\ ctx' = ctx /\ live' = live
    BY <2>1, StartFrame
  <2> QED BY <2>2 DEF LeakInv
<1>2. ASSUME NEW p \in Procs, Step(p) PROVE LeakInv'
  <2> USE DEF TypeOK, Goto
  <2>1. \A q \in Procs : q # p => pc'[q] = pc[q]
    BY <1>2, StepFrame
  <2>2. CASE DestroyCas(p)
    BY <2>1, <2>2 DEF DestroyCas, LeakInv
  <2>3. CASE DestroyCtx(p)
    BY <2>1, <2>3 DEF DestroyCtx, LeakInv, atomics
  <2>4. CASE CloseStore(p)
    BY <2>1, <2>4 DEF CloseStore, LeakInv
  <2>5. CASE CloseLoadLive(p) \/ ReleaseCheck(p)
    BY <2>1, <2>5 DEF CloseLoadLive, ReleaseCheck, LeakInv, atomics
  <2>6. CASE ReleaseDec(p)
    BY <2>1, <2>6 DEF ReleaseDec, LeakInv, atomics
  <2>7. CASE AcquireAddLive(p)
    <3>1. live \in Nat
      <4>1. CountingThreads \subseteq Procs /\ CountingHandles \subseteq Handles
        BY DEF CountingThreads, CountingHandles
      <4> QED BY <4>1, CountingFinite DEF LiveCounts
    <3>2. live' # 0 /\ destroyed' = destroyed /\ ctx' = ctx /\ pc[p] # "destroy"
      BY <2>7, <3>1 DEF AcquireAddLive, atomics
    <3> QED BY <2>1, <3>2 DEF LeakInv
  <2>8. CASE Retain(p)
    <3>1. live \in Nat
      <4>1. CountingThreads \subseteq Procs /\ CountingHandles \subseteq Handles
        BY DEF CountingThreads, CountingHandles
      <4> QED BY <4>1, CountingFinite DEF LiveCounts
    <3>2. live' # 0 /\ destroyed' = destroyed /\ ctx' = ctx /\ pc[p] # "destroy"
      BY <2>8, <3>1 DEF Retain, atomics
    <3> QED BY <2>1, <3>2 DEF LeakInv
  <2>9. CASE \/ AcquireLoadCloseReq(p) \/ AcquireLoadDestroyed(p) \/ AcquireRecheck(p)
             \/ HoldSchema(p) \/ RLock(p) \/ BeginLoadLock(p) \/ BeginLoadCheckFrozen(p)
             \/ CallReturns(p) \/ Freeze(p) \/ Unhold(p) \/ Unlock(p) \/ CasReleased(p)
             \/ FreeNodes(p)
    <3>1. /\ pc[p] \notin {"loadLive", "check", "cas", "destroy"}
          /\ closeReq' = closeReq /\ destroyed' = destroyed /\ ctx' = ctx /\ live' = live
      BY <2>9 DEF AcquireLoadCloseReq, AcquireLoadDestroyed, AcquireRecheck, HoldSchema,
          RLock, BeginLoadLock, BeginLoadCheckFrozen, CallReturns, Freeze, Unhold, Unlock,
          CasReleased, FreeNodes, atomics
    <3> QED BY <2>1, <3>1 DEF LeakInv
  <2> QED BY <1>2, <2>2, <2>3, <2>4, <2>5, <2>6, <2>7, <2>8, <2>9 DEF Step
<1>3. CASE Drop \/ UNCHANGED vars
  <2>1. pc' = pc /\ closeReq' = closeReq /\ destroyed' = destroyed /\ ctx' = ctx /\ live' = live
    BY <1>3 DEF Drop, DropContext, DropHandle, vars, atomics
  <2> QED BY <2>1 DEF LeakInv
<1> QED BY <1>1, <1>2, <1>3, NextCases

(* Close, release: in every schedule, stale releases included, a closed    *)
(* context has been destroyed when nothing runs and nothing is open: no    *)
(* order of the decrement, the closeReq store and the two checks loses the *)
(* destroy.                                                                *)
THEOREM NothingLeaks ==
    ASSUME ~UseAfterClose
    PROVE  Spec => []NoLeak
<1> DEFINE J == TypeOK /\ OpsAtLabels /\ Exclusive /\ Hands /\ LiveCounts /\ LeakInv
<1>1. NewContext => J
  BY InitIInv DEF IInv, OpsAtLabels, Hands, LeakInv, NewContext
<1>2. J /\ [Next]_vars => J'
  BY TypeStep, OpsAtLabelsStep, ExclusiveStep, HandsStep, LiveCountsStep, LeakStep
<1>3. J => NoLeak
  <2> SUFFICES ASSUME J, closeReq, \A p \in Procs : pc[p] = "idle",
                      \A h \in Handles : hs[h] \in {"none", "closed"}
               PROVE  ctx = "freed"
    BY DEF NoLeak
  <2>1. CountingThreads = {} /\ CountingHandles = {}
    BY DEF CountingThreads, CountsThread, CountingHandles
  <2>2. live = 0
    BY <2>1, FS_EmptySet DEF LiveCounts
  <2> QED BY <2>2 DEF LeakInv
<1> QED BY <1>1, <1>2, <1>3, PTL DEF Spec

----------------------------------------------------------------------------
(* RawContext implements ContextLifecycle under the refinement mapping     *)
(* phaseBar, holdersBar.                                                   *)

(* A step leaves the holders, brings one in, or lets one go.               *)
Same  == /\ \A q \in Procs : Admitted(q)' <=> Admitted(q)
         /\ \A h \in Handles : Retained(h)' <=> Retained(h)
Joins(x) == holdersBar' = holdersBar \cup {x}
Goes(x)  == holdersBar' = holdersBar \ {x} \/ holdersBar' = holdersBar

(* A step of a call that changes closeReq or destroyed is one of two.      *)
LEMMA StepPhase ==
    ASSUME NEW p \in Procs, Step(p), ~CloseStore(p), ~DestroyCas(p)
    PROVE  closeReq' = closeReq /\ destroyed' = destroyed
BY DEF Step, AcquireLoadCloseReq, AcquireLoadDestroyed, AcquireAddLive, AcquireRecheck,
       HoldSchema, RLock, BeginLoadLock, BeginLoadCheckFrozen, CallReturns, Retain, Freeze,
       Unhold, Unlock, CasReleased, FreeNodes, ReleaseDec, ReleaseCheck, DestroyCtx,
       CloseLoadLive, atomics

(* The mapping depends on nothing else.                                    *)
LEMMA SameHolders == Same => holdersBar' = holdersBar
BY DEF Same, holdersBar

(* The steps that leave the holders alone.                                 *)
LEMMA QuietSteps ==
    ASSUME IInv, NEW p \in Procs, Step(p), ~Retain(p), ~ReleaseDec(p),
           ~(AcquireRecheck(p) /\ ~closeReq)
    PROVE  Same
<1>1. /\ \A q \in Procs : q # p => pc'[q] = pc[q] /\ failed'[q] = failed[q]
      /\ job' = job
  BY StepFrame DEF IInv, OpsAtLabels
<1>2. OpAtLabel(p) /\ OnHandles(p)
  BY DEF IInv
<1> USE DEF IInv, TypeOK, Goto
<1>3. \A h \in Handles : Retained(h)' <=> Retained(h)
  <2>1. CASE CasReleased(p)
    BY <2>1 DEF CasReleased, Retained
  <2>2. CASE ~CasReleased(p)
    BY <2>2 DEF Step, AcquireLoadCloseReq, AcquireLoadDestroyed, AcquireAddLive,
       AcquireRecheck, HoldSchema, RLock, BeginLoadLock, BeginLoadCheckFrozen, CallReturns,
       Freeze, Unhold, Unlock, FreeNodes, ReleaseCheck, DestroyCas, DestroyCtx, CloseStore,
       CloseLoadLive, handles, Retained
  <2> QED BY <2>1, <2>2
<1>4. Admitted(p)' <=> Admitted(p)
  <2> USE <1>1, <1>2 DEF Admitted, OpAtLabel, AcquiringOps
  <2>1. CASE AcquireLoadCloseReq(p) \/ AcquireLoadDestroyed(p) \/ AcquireAddLive(p)
    BY <2>1 DEF AcquireLoadCloseReq, AcquireLoadDestroyed, AcquireAddLive, AfterFail
  <2>2. CASE AcquireRecheck(p)
    BY <2>2 DEF AcquireRecheck
  <2>3. CASE HoldSchema(p) \/ RLock(p) \/ BeginLoadLock(p) \/ BeginLoadCheckFrozen(p)
    BY <2>3 DEF HoldSchema, RLock, BeginLoadLock, BeginLoadCheckFrozen, Held
  <2>4. CASE CallReturns(p)
    BY <2>4 DEF CallReturns, AfterCall
  <2>5. CASE Freeze(p) \/ Unhold(p) \/ Unlock(p)
    BY <2>5 DEF Freeze, Unhold, Unlock, Creates
  <2>6. CASE CasReleased(p) \/ FreeNodes(p)
    BY <2>6 DEF CasReleased, FreeNodes
  <2>7. CASE ReleaseCheck(p) \/ DestroyCas(p) \/ DestroyCtx(p)
    BY <2>7 DEF ReleaseCheck, DestroyCas, DestroyCtx, AfterRelease, AfterFail
  <2>8. CASE CloseStore(p) \/ CloseLoadLive(p)
    BY <2>8 DEF CloseStore, CloseLoadLive
  <2> QED BY <2>1, <2>2, <2>3, <2>4, <2>5, <2>6, <2>7, <2>8 DEF Step
<1> QED BY <1>1, <1>3, <1>4 DEF Same, Admitted

(* acquire that passes its second check: the context is open.              *)
LEMMA RecheckEnters ==
    ASSUME IInv, NEW p \in Procs, AcquireRecheck(p), ~closeReq
    PROVE  phaseBar = "open" /\ Joins(p)
<1>1. /\ \A q \in Procs : q # p => pc'[q] = pc[q] /\ failed'[q] = failed[q]
      /\ job' = job
  BY StepFrame DEF IInv, OpsAtLabels, Step
<1>2. ~destroyed
  <2>1. ~Gone
    BY GoneStep DEF IInv, OpsAtLabels, Step, AcquireRecheck
  <2> QED BY <2>1 DEF IInv, DrainInv, Dead
<1>3. Admitted(p)'
  BY DEF AcquireRecheck, AfterAcquire, Admitted, IInv, OpAtLabel, TypeOK, Goto, AcquiringOps
<1>4. \A q \in Procs : q # p => (Admitted(q)' <=> Admitted(q))
  BY <1>1 DEF Admitted
<1>5. \A h \in Handles : Retained(h)' <=> Retained(h)
  BY DEF AcquireRecheck, handles, Retained
<1> QED BY <1>2, <1>3, <1>4, <1>5 DEF phaseBar, holdersBar, Joins

(* A new tree or diff is brought in by a call or by a tree that holds the  *)
(* context already; a shell holds nothing.                                 *)
LEMMA RetainSpawns ==
    ASSUME IInv, NEW p \in Procs, Retain(p)
    PROVE  Same \/ (holdersBar # {} /\ \E h \in Handles : Joins(h))
<1>1. /\ \A q \in Procs : q # p => pc'[q] = pc[q] /\ failed'[q] = failed[q]
      /\ job' = job
  BY StepFrame DEF IInv, OpsAtLabels, Step
<1>2. OpAtLabel(p) /\ OnHandles(p) /\ pc[p] = "retain"
  BY DEF IInv, Retain
<1>3. PICK d \in Handles : d = job[p].dst /\ hs[d] = "none"
  BY <1>2 DEF OnHandles, OpAtLabel
<1>4. /\ hs' = [hs EXCEPT ![d] = "open"] /\ kind' = [kind EXCEPT ![d] = KindOf(p)]
  BY <1>3 DEF Retain
<1>5. \A q \in Procs : Admitted(q)' <=> Admitted(q)
  BY <1>1, <1>2 DEF Retain, Admitted, OpAtLabel, AcquiringOps, IInv, TypeOK, Goto
<1>6. \A h \in Handles : h # d => (Retained(h)' <=> Retained(h))
  BY <1>3, <1>4 DEF Retained, IInv, TypeOK
<1>7. ~Retained(d) /\ (Retained(d)' <=> KindOf(p) # "shell")
  BY <1>3, <1>4 DEF Retained, IInv, TypeOK
<1>8. CASE KindOf(p) = "shell"
  BY <1>5, <1>6, <1>7, <1>8 DEF Same
<1>9. CASE KindOf(p) # "shell"
  <2>1. Admitted(p) \/ (Retained(job[p].src) /\ job[p].src \in Handles)
    <3>1. CASE job[p].op \in {"parse", "newdata"}
      BY <1>2, <1>9, <3>1 DEF KindOf, Admitted, AcquiringOps
    <3>2. CASE job[p].op \in {"dup", "diff"}
      BY <1>2, <3>2 DEF OnHandles, HandleOps, Retained
    <3> QED BY <1>2, <3>1, <3>2 DEF OpAtLabel
  <2>2. holdersBar # {}
    BY <2>1 DEF holdersBar
  <2>3. Joins(d)
    BY <1>3, <1>5, <1>6, <1>7, <1>9 DEF Joins, holdersBar
  <2> QED BY <1>3, <2>2, <2>3
<1> QED BY <1>8, <1>9

(* A release lets a call, a tree or a diff go.                             *)
LEMMA ReleaseLeaves ==
    ASSUME IInv, NEW p \in Procs, ReleaseDec(p)
    PROVE  Same \/ \E x \in holdersBar : Goes(x)
<1>1. /\ \A q \in Procs : q # p => pc'[q] = pc[q] /\ failed'[q] = failed[q]
      /\ job' = job
  BY StepFrame DEF IInv, OpsAtLabels, Step
<1>2. OpAtLabel(p) /\ OnHandles(p) /\ pc[p] = "dec"
  BY DEF IInv, ReleaseDec
<1>3. \A q \in Procs : q # p => (Admitted(q)' <=> Admitted(q))
  BY <1>1 DEF Admitted
<1>4. ~Admitted(p)'
  BY <1>1, <1>2 DEF ReleaseDec, AfterRelease, AfterFail, Admitted, IInv, TypeOK, Goto,
                    AcquiringOps
<1>5. CASE job[p].op \in AcquiringOps
  <2>1. \A h \in Handles : Retained(h)' <=> Retained(h)
    BY <1>5 DEF ReleaseDec, Retained
  <2>2. CASE Admitted(p)
    <3>1. p \in holdersBar /\ Goes(p)
      BY <1>3, <1>4, <2>1, <2>2 DEF holdersBar, Goes
    <3> QED BY <3>1
  <2>3. CASE ~Admitted(p)
    BY <1>3, <1>4, <2>1, <2>3 DEF Same
  <2> QED BY <2>2, <2>3
<1>6. CASE job[p].op \notin AcquiringOps
  <2>1. PICK r \in Handles : r = Released(p) /\ hs[r] = "freeing"
    BY <1>2, <1>6 DEF OpAtLabel, OnHandles, Released
  <2>6. ~Admitted(p)
    BY <1>6 DEF Admitted
  <2>2. hs' = [hs EXCEPT ![r] = "closed"] /\ kind' = kind
    BY <1>6, <2>1 DEF ReleaseDec
  <2>3. ~Retained(r)' /\ \A h \in Handles : h # r => (Retained(h)' <=> Retained(h))
    BY <2>1, <2>2 DEF Retained, IInv, TypeOK
  <2>4. CASE Retained(r)
    <3>1. r \in holdersBar /\ Goes(r)
      BY <1>3, <1>4, <2>3, <2>4, <2>6 DEF holdersBar, Goes
    <3> QED BY <3>1
  <2>5. CASE ~Retained(r)
    BY <1>3, <1>4, <2>3, <2>5, <2>6 DEF Same
  <2> QED BY <2>4, <2>5
<1> QED BY <1>5, <1>6

----------------------------------------------------------------------------
(* Every step is a step of the abstract context, or invisible there.       *)
LEMMA StepRefines ==
    ASSUME IInv, NEW p \in Procs, Step(p)
    PROVE  [Lifecycle!Next]_<<phaseBar, holdersBar>>
<1> USE DEF Lifecycle!Next, Lifecycle!Enter, Lifecycle!Spawn, Lifecycle!Leave,
            Lifecycle!Close, Lifecycle!Die
<1>0. closeReq \in BOOLEAN /\ destroyed \in BOOLEAN
  BY DEF IInv, TypeOK
<1>1. CASE CloseStore(p)
  <2>1. closeReq' = TRUE /\ destroyed' = destroyed
    BY <1>1 DEF CloseStore
  <2>2. holdersBar' = holdersBar
    BY <1>1, QuietSteps, SameHolders DEF CloseStore, Retain, ReleaseDec, AcquireRecheck
  <2>3. CASE closeReq \/ destroyed
    BY <1>0, <2>1, <2>2, <2>3 DEF phaseBar
  <2>4. CASE ~closeReq /\ ~destroyed
    <3>1. phaseBar = "open" /\ phaseBar' = "closing"
      BY <1>0, <2>1, <2>4 DEF phaseBar
    <3> QED BY <2>2, <3>1
  <2> QED BY <2>3, <2>4
<1>2. CASE DestroyCas(p)
  <2>1. destroyed' = TRUE /\ closeReq' = closeReq /\ pc[p] = "cas"
    BY <1>2 DEF DestroyCas
  <2>2. holdersBar' = holdersBar
    BY <1>2, QuietSteps, SameHolders DEF DestroyCas, Retain, ReleaseDec, AcquireRecheck
  <2>3. CASE destroyed
    BY <2>1, <2>2, <2>3 DEF phaseBar
  <2>4. CASE ~destroyed
    <3>1. phaseBar # "dead" /\ phaseBar' = "dead"
      BY <2>1, <2>4 DEF phaseBar
    <3>2. holdersBar = {}
      BY <2>1 DEF IInv, DrainInv, Dead, Drained, holdersBar
    <3> QED BY <2>2, <3>1, <3>2
  <2> QED BY <2>3, <2>4
<1>3. CASE ~CloseStore(p) /\ ~DestroyCas(p)
  <2>1. phaseBar' = phaseBar
    BY <1>3, StepPhase DEF phaseBar
  <2>2. CASE Same
    BY <2>1, <2>2, SameHolders
  <2>3. CASE AcquireRecheck(p) /\ ~closeReq
    <3>1. phaseBar = "open" /\ holdersBar' = holdersBar \cup {p}
      BY <2>3, RecheckEnters DEF Joins
    <3> QED BY <2>1, <3>1
  <2>4. ASSUME NEW h \in Handles, Joins(h), holdersBar # {}
        PROVE  [Lifecycle!Next]_<<phaseBar, holdersBar>>
    BY <2>1, <2>4 DEF Joins
  <2>5. ASSUME NEW x \in holdersBar, Goes(x)
        PROVE  [Lifecycle!Next]_<<phaseBar, holdersBar>>
    BY <2>1, <2>5 DEF Goes
  <2> QED BY <2>2, <2>3, <2>4, <2>5, QuietSteps, RetainSpawns, ReleaseLeaves
<1> QED BY <1>1, <1>2, <1>3

(* The start of a call and the drop of a reference are invisible.          *)
LEMMA NextRefines ==
    ASSUME IInv, [Next]_vars
    PROVE  [Lifecycle!Next]_<<phaseBar, holdersBar>>
<1>1. ASSUME NEW p \in Procs, Begins(p)
      PROVE  UNCHANGED <<phaseBar, holdersBar>>
  <2>1. PICK l \in Labels, j \in Jobs : BeginsWith(p, l, j)
    BY <1>1 DEF Begins
  <2>2. /\ pc[p] = "idle" /\ pc'[p] = l /\ job'[p] = j
        /\ \A q \in Procs : q # p =>
              pc'[q] = pc[q] /\ job'[q] = job[q] /\ failed'[q] = failed[q]
        /\ hs' = hs /\ kind' = kind /\ closeReq' = closeReq /\ destroyed' = destroyed
    BY <2>1, StartFrame DEF IInv
  <2>3. ~(l = "call" /\ j.op \in AcquiringOps) /\ l \in {"loadCloseReq", "call",
          "storeCloseReq", "casReleased", "cas"}
    BY <2>1 DEF BeginsWith, AcquiringOps
  <2>4. Same
    BY <2>2, <2>3 DEF Same, Admitted, Retained
  <2> QED BY <2>2, <2>4, SameHolders DEF phaseBar
<1>2. CASE Drop \/ UNCHANGED vars
  <2>1. /\ pc' = pc /\ job' = job /\ failed' = failed /\ hs' = hs /\ kind' = kind
        /\ closeReq' = closeReq /\ destroyed' = destroyed
    BY <1>2 DEF Drop, DropContext, DropHandle, vars, handles, atomics
  <2>2. Same
    BY <2>1 DEF Same, Admitted, Retained
  <2> QED BY <2>1, <2>2, SameHolders DEF phaseBar
<1> QED BY <1>1, <1>2, StepRefines, NextCases DEF IInv, OpsAtLabels

(* A new context is open and has no holders.                               *)
LEMMA InitRefines == NewContext => Lifecycle!Init
<1> SUFFICES ASSUME NewContext PROVE Lifecycle!Init
  OBVIOUS
<1>1. phaseBar = "open"
  BY DEF NewContext, phaseBar
<1>2. \A p \in Procs : pc[p] = "idle"
  BY DEF NewContext
<1>3. \A h \in Handles : hs[h] = "none"
  BY DEF NewContext
<1>4. holdersBar = {}
  BY <1>2, <1>3 DEF holdersBar, Admitted, Retained
<1> QED BY <1>1, <1>4 DEF Lifecycle!Init

(* The atomics, the count, the locks and the finalizers of the seam keep   *)
(* the promise of ContextLifecycle: newcomers enter only before Close, the *)
(* context dies once and never under a holder.                             *)
THEOREM SeamKeepsLifecycle ==
    ASSUME ~UseAfterClose, ~StaleRelease
    PROVE  Spec => KeepsLifecycle
<1>1. IInv /\ [Next]_vars => IInv'
  BY IInvStep
<1>2. IInv /\ [Next]_vars => [Lifecycle!Next]_<<phaseBar, holdersBar>>
  BY NextRefines
<1> QED BY <1>1, <1>2, InitIInv, InitRefines, PTL DEF Spec, KeepsLifecycle, Lifecycle!Spec

----------------------------------------------------------------------------
(* A module load runs alone (LoadsAlone), although a frozen context is     *)
(* parsed without the lock.                                                *)

(* What is known of every call, whatever the schedule.                     *)
Calls == TypeOK /\ OpsAtLabels /\ Exclusive /\ Hands

(* destroyCtx is entered after Close, or by the context's finalizer.       *)
AfterClose ==
    /\ \A p \in Procs : pc[p] = "loadLive" => closeReq
    /\ \A p \in Procs : pc[p] = "cas" => closeReq \/ Gone
    /\ destroyed => closeReq \/ Gone

(* acquire fails only after Close: a shell is not made before.             *)
FailsClosed == \A p \in Procs : failed[p] /\ pc[p] # "idle" => closeReq

(* A load has loadMu to itself; a parse shares it, or has seen frozen.     *)
Makes(p) == job[p].op \in {"parse", "newdata"} /\ ~failed[p]
Locks ==
    /\ writers # {} => readers = {}
    /\ \A p \in Procs : job[p].op = "load" /\ pc[p] \in {"checkFrozen", "call", "unlock"} =>
          writers = {p}
    /\ \A p \in Procs : Makes(p) /\ pc[p] \in {"call", "retain", "freeze", "unhold"} =>
          frozen \/ p \in readers

(* A tree or diff freezes the context: it is frozen, or the goroutine that *)
(* makes the tree is about to freeze it and still holds loadMu.            *)
Freezing(h) == \E q \in Procs : pc[q] = "freeze" /\ Makes(q) /\ job[q].dst = h
Frozen == \A h \in Handles : Retained(h) => frozen \/ Freezing(h)

(* A load that has looked at frozen is not overtaken by a freeze.          *)
Unfrozen == \A p \in Procs : Loading(p) /\ ~closeReq => ~frozen

LoadInv == AfterClose /\ FailsClosed /\ Locks /\ Frozen /\ Unfrozen

----------------------------------------------------------------------------
(* The shared variables that a step of a call changes.                     *)
LEMMA StepShared ==
    ASSUME TypeOK, NEW p \in Procs, Step(p)
    PROVE  /\ closeReq => closeReq'
           /\ (frozen' = frozen) \/ Freeze(p)
           /\ (destroyed' = destroyed) \/ DestroyCas(p)
           /\ (readers' = readers) \/ RLock(p) \/ Unhold(p)
           /\ (writers' = writers) \/ BeginLoadLock(p) \/ Unlock(p)
           /\ (hs' = hs /\ kind' = kind) \/ Retain(p) \/ CasReleased(p) \/ ReleaseDec(p)
<1> USE DEF atomics, mutex, handles
<1>1. CASE \/ AcquireLoadCloseReq(p) \/ AcquireLoadDestroyed(p) \/ AcquireAddLive(p)
           \/ AcquireRecheck(p) \/ HoldSchema(p) \/ RLock(p) \/ BeginLoadLock(p)
           \/ BeginLoadCheckFrozen(p) \/ CallReturns(p)
  BY <1>1 DEF AcquireLoadCloseReq, AcquireLoadDestroyed, AcquireAddLive, AcquireRecheck,
              HoldSchema, RLock, BeginLoadLock, BeginLoadCheckFrozen, CallReturns
<1>2. CASE Retain(p) \/ Freeze(p) \/ Unhold(p) \/ Unlock(p) \/ CasReleased(p) \/ FreeNodes(p)
  BY <1>2 DEF Retain, Freeze, Unhold, Unlock, CasReleased, FreeNodes
<1>3. CASE \/ ReleaseDec(p) \/ ReleaseCheck(p) \/ DestroyCas(p) \/ DestroyCtx(p)
           \/ CloseStore(p) \/ CloseLoadLive(p)
  BY <1>3 DEF ReleaseDec, ReleaseCheck, DestroyCas, DestroyCtx, CloseStore, CloseLoadLive
<1> QED BY <1>1, <1>2, <1>3 DEF Step

(* A tree in use was made by a call that is over: the context is frozen.   *)
LEMMA SourceFrozen ==
    ASSUME Calls, Frozen, NEW p \in Procs, job[p].op \in {"dup", "diff"},
           pc[p] \in {"call", "retain", "freeze"}
    PROVE  frozen
<1>1. /\ job[p].src \in Handles /\ hs[job[p].src] = "open" /\ kind[job[p].src] # "shell"
  BY DEF Calls, Hands, OnHandles, HandleOps
<1>2. frozen \/ Freezing(job[p].src)
  BY <1>1 DEF Frozen, Retained
<1>3. ASSUME NEW q \in Procs, pc[q] = "freeze", Makes(q), job[q].dst = job[p].src
      PROVE  FALSE
  BY <1>1, <1>3 DEF Calls, Exclusive, Uses, Makes
<1> QED BY <1>2, <1>3 DEF Freezing

(* The goroutine that freezes an unfrozen context holds loadMu, or makes a *)
(* shell of a closed context.                                              *)
LEMMA FreezeHolds ==
    ASSUME Calls, LoadInv, NEW p \in Procs, Freeze(p), ~frozen
    PROVE  closeReq \/ p \in readers
<1>1. pc[p] = "freeze" /\ OpAtLabel(p)
  BY DEF Freeze, Calls, OpsAtLabels
<1>2. job[p].op # "dup"
  BY <1>1, SourceFrozen DEF LoadInv
<1> QED BY <1>1, <1>2 DEF OpAtLabel, LoadInv, FailsClosed, Locks, Makes

----------------------------------------------------------------------------
(* One lemma per conjunct, for the steps of calls.                         *)
LEMMA AfterCloseStep ==
    ASSUME Calls, AfterClose, NEW p \in Procs, Step(p)
    PROVE  AfterClose'
<1>1. Gone => Gone'
  BY GoneStep DEF Calls
<1>2. \A q \in Procs : q # p => pc'[q] = pc[q]
  BY StepFrame DEF Calls
<1>3. closeReq => closeReq'
  BY StepShared DEF Calls
<1>4. pc'[p] = "loadLive" => closeReq'
  <2> USE DEF Calls, TypeOK, Goto
  <2>1. CASE CloseStore(p)
    BY <2>1 DEF CloseStore
  <2>2. CASE \/ AcquireLoadCloseReq(p) \/ AcquireLoadDestroyed(p) \/ AcquireAddLive(p)
             \/ AcquireRecheck(p) \/ HoldSchema(p) \/ RLock(p) \/ BeginLoadLock(p)
             \/ BeginLoadCheckFrozen(p)
    BY <2>2 DEF AcquireLoadCloseReq, AcquireLoadDestroyed, AcquireAddLive, AcquireRecheck,
                HoldSchema, RLock, BeginLoadLock, BeginLoadCheckFrozen, AfterFail,
                AfterAcquire, Held
  <2>3. CASE CallReturns(p)
    BY <2>3 DEF CallReturns, AfterCall
  <2>4. CASE Retain(p) \/ Freeze(p) \/ Unhold(p) \/ Unlock(p) \/ CasReleased(p) \/ FreeNodes(p)
    BY <2>4 DEF Retain, Freeze, Unhold, Unlock, CasReleased, FreeNodes
  <2>5. CASE ReleaseDec(p) \/ ReleaseCheck(p) \/ DestroyCas(p) \/ DestroyCtx(p) \/ CloseLoadLive(p)
    BY <2>5 DEF ReleaseDec, ReleaseCheck, DestroyCas, DestroyCtx, CloseLoadLive,
                AfterRelease, AfterFail
  <2> QED BY <2>1, <2>2, <2>3, <2>4, <2>5 DEF Step
<1>5. pc'[p] = "cas" => closeReq
  <2> USE DEF Calls, TypeOK, Goto
  <2>1. CASE ReleaseCheck(p) \/ CloseLoadLive(p)
    BY <2>1 DEF ReleaseCheck, CloseLoadLive, AfterRelease, AfterFail, AfterClose
  <2>2. CASE \/ AcquireLoadCloseReq(p) \/ AcquireLoadDestroyed(p) \/ AcquireAddLive(p)
             \/ AcquireRecheck(p) \/ HoldSchema(p) \/ RLock(p) \/ BeginLoadLock(p)
             \/ BeginLoadCheckFrozen(p)
    BY <2>2 DEF AcquireLoadCloseReq, AcquireLoadDestroyed, AcquireAddLive, AcquireRecheck,
                HoldSchema, RLock, BeginLoadLock, BeginLoadCheckFrozen, AfterFail,
                AfterAcquire, Held
  <2>3. CASE CallReturns(p)
    BY <2>3 DEF CallReturns, AfterCall
  <2>4. CASE Retain(p) \/ Freeze(p) \/ Unhold(p) \/ Unlock(p) \/ CasReleased(p) \/ FreeNodes(p)
    BY <2>4 DEF Retain, Freeze, Unhold, Unlock, CasReleased, FreeNodes
  <2>5. CASE ReleaseDec(p) \/ DestroyCas(p) \/ DestroyCtx(p) \/ CloseStore(p)
    BY <2>5 DEF ReleaseDec, DestroyCas, DestroyCtx, CloseStore, AfterRelease, AfterFail
  <2> QED BY <2>1, <2>2, <2>3, <2>4, <2>5 DEF Step
<1>6. destroyed' => destroyed \/ pc[p] = "cas"
  BY StepShared DEF DestroyCas, Calls
<1> QED BY <1>1, <1>2, <1>3, <1>4, <1>5, <1>6 DEF AfterClose

(* acquire fails only when it sees the close, so every step keeps it true. *)
LEMMA FailsClosedStep ==
    ASSUME Calls, AfterClose, FailsClosed, NEW p \in Procs, Step(p)
    PROVE  FailsClosed'
<1>1. \A q \in Procs : q # p => pc'[q] = pc[q] /\ failed'[q] = failed[q]
  BY StepFrame DEF Calls
<1>2. closeReq => closeReq'
  BY StepShared DEF Calls
<1>3. failed'[p] => failed[p] \/ closeReq
  <2> USE DEF Calls, TypeOK
  <2>1. CASE AcquireLoadDestroyed(p)
    <3>1. ~Gone
      BY <2>1 DEF AcquireLoadDestroyed, Gone, OpsAtLabels, OpAtLabel, AcquiringOps, Procs
    <3> QED BY <2>1, <3>1 DEF AcquireLoadDestroyed, AfterClose
  <2>2. CASE AcquireLoadCloseReq(p) \/ AcquireRecheck(p)
    BY <2>2 DEF AcquireLoadCloseReq, AcquireRecheck
  <2>3. CASE ~(AcquireLoadDestroyed(p) \/ AcquireLoadCloseReq(p) \/ AcquireRecheck(p))
    BY <2>3 DEF Step, AcquireAddLive, HoldSchema, RLock, BeginLoadLock, BeginLoadCheckFrozen,
                CallReturns, Retain, Freeze, Unhold, Unlock, CasReleased, FreeNodes,
                ReleaseDec, ReleaseCheck, DestroyCas, DestroyCtx, CloseStore, CloseLoadLive
  <2> QED BY <2>1, <2>2, <2>3
<1>4. pc[p] # "idle"
  BY StepFrame DEF Calls
<1> QED BY <1>1, <1>2, <1>3, <1>4 DEF FailsClosed

(* A step takes or gives up loadMu only as the lock admits.                *)
LEMMA LocksStep ==
    ASSUME Calls, LoadInv, NEW p \in Procs, Step(p)
    PROVE  Locks'
<1>1. /\ \A q \in Procs : q # p => pc'[q] = pc[q] /\ failed'[q] = failed[q]
      /\ job' = job
  BY StepFrame DEF Calls
<1>2. frozen => frozen'
  BY StepShared DEF Freeze, Calls
<1>3. /\ OpAtLabel(p) /\ Locks
  BY DEF Calls, OpsAtLabels, LoadInv
<1> USE DEF Calls, TypeOK, Goto
<1>4. CASE RLock(p)
  BY <1>1, <1>2, <1>3, <1>4 DEF RLock, Locks, Makes, Held, OpAtLabel
<1>5. CASE BeginLoadLock(p)
  BY <1>1, <1>2, <1>3, <1>5 DEF BeginLoadLock, Locks, Makes, OpAtLabel
<1>6. CASE Unhold(p)
  BY <1>1, <1>2, <1>3, <1>6 DEF Unhold, Locks, Makes, OpAtLabel
<1>7. CASE Unlock(p)
  BY <1>1, <1>2, <1>3, <1>7 DEF Unlock, Locks, Makes, OpAtLabel
<1>8. CASE ~(RLock(p) \/ BeginLoadLock(p) \/ Unhold(p) \/ Unlock(p))
  <2>1. readers' = readers /\ writers' = writers
    BY <1>8, StepShared
  <2>2. job[p].op = "load" /\ pc'[p] \in {"checkFrozen", "call", "unlock"} =>
           writers = {p}
    <3> USE <1>3, <1>8 DEF Locks, OpAtLabel
    <3>1. CASE AcquireLoadCloseReq(p) \/ AcquireLoadDestroyed(p) \/ AcquireAddLive(p)
      BY <3>1 DEF AcquireLoadCloseReq, AcquireLoadDestroyed, AcquireAddLive, AfterFail
    <3>2. CASE AcquireRecheck(p) \/ HoldSchema(p) \/ BeginLoadCheckFrozen(p)
      BY <3>2 DEF AcquireRecheck, AfterAcquire, HoldSchema, Held, BeginLoadCheckFrozen
    <3>3. CASE CallReturns(p)
      BY <3>3 DEF CallReturns, AfterCall
    <3>4. CASE Retain(p) \/ Freeze(p) \/ CasReleased(p) \/ FreeNodes(p)
      BY <3>4 DEF Retain, Freeze, CasReleased, FreeNodes, Creates
    <3>5. CASE ReleaseDec(p) \/ ReleaseCheck(p) \/ DestroyCas(p) \/ DestroyCtx(p)
      BY <3>5 DEF ReleaseDec, ReleaseCheck, DestroyCas, DestroyCtx, AfterRelease, AfterFail
    <3>6. CASE CloseStore(p) \/ CloseLoadLive(p)
      BY <3>6 DEF CloseStore, CloseLoadLive
    <3> QED BY <1>8, <3>1, <3>2, <3>3, <3>4, <3>5, <3>6 DEF Step
  <2>3. Makes(p)' /\ pc'[p] \in {"call", "retain", "freeze", "unhold"} =>
           frozen' \/ p \in readers
    <3> USE <1>1, <1>2, <1>3, <1>8 DEF Locks, OpAtLabel, Makes
    <3>1. CASE AcquireLoadCloseReq(p) \/ AcquireLoadDestroyed(p) \/ AcquireAddLive(p)
      BY <3>1 DEF AcquireLoadCloseReq, AcquireLoadDestroyed, AcquireAddLive, AfterFail
    <3>2. CASE AcquireRecheck(p) \/ HoldSchema(p) \/ BeginLoadCheckFrozen(p)
      BY <3>2 DEF AcquireRecheck, AfterAcquire, HoldSchema, Held, BeginLoadCheckFrozen
    <3>3. CASE CallReturns(p)
      BY <3>3 DEF CallReturns, AfterCall
    <3>4. CASE Retain(p) \/ Freeze(p) \/ CasReleased(p) \/ FreeNodes(p)
      BY <3>4 DEF Retain, Freeze, CasReleased, FreeNodes, Creates
    <3>5. CASE ReleaseDec(p) \/ ReleaseCheck(p) \/ DestroyCas(p) \/ DestroyCtx(p)
      BY <3>5 DEF ReleaseDec, ReleaseCheck, DestroyCas, DestroyCtx, AfterRelease, AfterFail
    <3>6. CASE CloseStore(p) \/ CloseLoadLive(p)
      BY <3>6 DEF CloseStore, CloseLoadLive
    <3> QED BY <1>8, <3>1, <3>2, <3>3, <3>4, <3>5, <3>6 DEF Step
  <2> QED BY <1>1, <1>2, <1>3, <2>1, <2>2, <2>3 DEF Locks, Makes
<1> QED BY <1>4, <1>5, <1>6, <1>7, <1>8

(* Every new tree or diff freezes the context or finds it frozen.          *)
LEMMA FrozenStep ==
    ASSUME Calls, LoadInv, NEW p \in Procs, Step(p)
    PROVE  Frozen'
<1>1. /\ \A q \in Procs : q # p => pc'[q] = pc[q] /\ failed'[q] = failed[q]
      /\ job' = job
  BY StepFrame DEF Calls
<1>2. frozen => frozen'
  BY StepShared DEF Freeze, Calls
<1>3. Frozen /\ OpAtLabel(p) /\ OnHandles(p)
  BY DEF Calls, OpsAtLabels, Hands, LoadInv
<1>4. ASSUME NEW h \in Handles, Freezing(h)
      PROVE  frozen' \/ Freezing(h)'
  <2>1. PICK q \in Procs : pc[q] = "freeze" /\ Makes(q) /\ job[q].dst = h
    BY <1>4 DEF Freezing
  <2>2. CASE q # p
    BY <1>1, <2>1, <2>2 DEF Freezing, Makes
  <2>3. CASE q = p
    <3>1. Freeze(p)
      BY <2>1, <2>3 DEF Step, AcquireLoadCloseReq, AcquireLoadDestroyed, AcquireAddLive,
         AcquireRecheck, HoldSchema, RLock, BeginLoadLock, BeginLoadCheckFrozen, CallReturns,
         Retain, Unhold, Unlock, CasReleased, FreeNodes, ReleaseDec, ReleaseCheck,
         DestroyCas, DestroyCtx, CloseStore, CloseLoadLive
    <3> QED BY <3>1 DEF Freeze
  <2> QED BY <2>2, <2>3
<1>5. ASSUME NEW h \in Handles, Retained(h)
      PROVE  frozen' \/ Freezing(h)'
  BY <1>2, <1>3, <1>4, <1>5 DEF Frozen
<1>6. ASSUME NEW h \in Handles, ~Retained(h), Retained(h)'
      PROVE  frozen' \/ Freezing(h)'
  <2> USE DEF Calls, TypeOK, Goto
  <2>1. Retain(p) /\ h = job[p].dst
    <3>1. CASE Retain(p)
      BY <1>6, <3>1 DEF Retain, Retained
    <3>2. CASE CasReleased(p) \/ ReleaseDec(p)
      BY <1>6, <3>2 DEF CasReleased, ReleaseDec, Retained
    <3> QED BY <1>6, <3>1, <3>2, StepShared DEF Retained
  <2>2. CASE job[p].op \in {"dup", "diff"}
    BY <1>2, <1>3, <2>1, <2>2, SourceFrozen DEF Retain
  <2>3. CASE job[p].op \notin {"dup", "diff"}
    <3>1. job[p].op \in {"parse", "newdata"}
      BY <1>3, <2>1, <2>3 DEF Retain, OpAtLabel
    <3>2. ~failed[p]
      <4>1. kind'[h] = KindOf(p)
        BY <2>1 DEF Retain
      <4> QED BY <1>6, <2>3, <4>1 DEF KindOf, Retained
    <3>3. pc'[p] = "freeze" /\ failed' = failed
      BY <2>1, <3>1 DEF Retain
    <3> QED BY <1>1, <2>1, <3>1, <3>2, <3>3 DEF Freezing, Makes
  <2> QED BY <2>2, <2>3
<1> QED BY <1>5, <1>6 DEF Frozen

(* No step freezes the context under a load, unless Close was requested.   *)
LEMMA UnfrozenStep ==
    ASSUME Calls, LoadInv, NEW p \in Procs, Step(p)
    PROVE  Unfrozen'
<1>1. /\ \A q \in Procs : q # p => pc'[q] = pc[q]
      /\ job' = job
  BY StepFrame DEF Calls
<1>2. closeReq => closeReq'
  BY StepShared DEF Calls
<1>3. OpAtLabel(p) /\ Locks /\ Unfrozen
  BY DEF Calls, OpsAtLabels, LoadInv
<1>4. CASE Freeze(p) /\ ~frozen
  <2>1. CASE closeReq
    BY <1>2, <2>1 DEF Unfrozen
  <2>2. CASE p \in readers
    <3>1. ASSUME NEW q \in Procs PROVE ~Loading(q)
      BY <1>3, <2>2 DEF Locks, Loading
    <3>2. pc'[p] # "call"
      BY <1>4 DEF Freeze, Goto, Calls, TypeOK
    <3> QED BY <1>1, <3>1, <3>2 DEF Unfrozen, Loading
  <2> QED BY <1>4, <2>1, <2>2, FreezeHolds
<1>5. CASE ~(Freeze(p) /\ ~frozen)
  <2>1. frozen' = frozen
    BY <1>5, StepShared DEF Freeze, Calls, TypeOK
  <2>2. Loading(p)' => Loading(p) \/ ~frozen
    <3> USE <1>1, <1>3 DEF Loading, OpAtLabel, Calls, TypeOK, Goto
    <3>1. CASE BeginLoadCheckFrozen(p)
      BY <3>1 DEF BeginLoadCheckFrozen
    <3>2. CASE AcquireLoadCloseReq(p) \/ AcquireLoadDestroyed(p) \/ AcquireAddLive(p)
      BY <3>2 DEF AcquireLoadCloseReq, AcquireLoadDestroyed, AcquireAddLive, AfterFail
    <3>3. CASE AcquireRecheck(p) \/ HoldSchema(p) \/ RLock(p) \/ BeginLoadLock(p)
      BY <3>3 DEF AcquireRecheck, AfterAcquire, HoldSchema, Held, RLock, BeginLoadLock
    <3>4. CASE CallReturns(p)
      BY <3>4 DEF CallReturns, AfterCall
    <3>5. CASE Retain(p) \/ Freeze(p) \/ Unhold(p) \/ Unlock(p)
      BY <3>5 DEF Retain, Freeze, Unhold, Unlock, Creates
    <3>6. CASE CasReleased(p) \/ FreeNodes(p) \/ CloseStore(p) \/ CloseLoadLive(p)
      BY <3>6 DEF CasReleased, FreeNodes, CloseStore, CloseLoadLive
    <3>7. CASE ReleaseDec(p) \/ ReleaseCheck(p) \/ DestroyCas(p) \/ DestroyCtx(p)
      BY <3>7 DEF ReleaseDec, ReleaseCheck, DestroyCas, DestroyCtx, AfterRelease, AfterFail
    <3> QED BY <3>1, <3>2, <3>3, <3>4, <3>5, <3>6, <3>7 DEF Step
  <2> QED BY <1>1, <1>2, <1>3, <2>1, <2>2 DEF Unfrozen, Loading
<1> QED BY <1>4, <1>5

----------------------------------------------------------------------------
(* The start of a call opens nothing and locks nothing.                    *)
LEMMA LoadInvBegin ==
    ASSUME Calls, LoadInv, NEW p \in Procs, Begins(p)
    PROVE  LoadInv'
<1>1. PICK l \in Labels, j \in Jobs : BeginsWith(p, l, j)
  BY DEF Begins
<1>2. /\ pc[p] = "idle" /\ pc'[p] = l /\ job'[p] = j /\ failed'[p] = FALSE
      /\ \A q \in Procs : q # p =>
            pc'[q] = pc[q] /\ job'[q] = job[q] /\ failed'[q] = failed[q]
      /\ hs' = hs /\ kind' = kind
      /\ closeReq' = closeReq /\ destroyed' = destroyed /\ frozen' = frozen
      /\ readers' = readers /\ writers' = writers
  BY <1>1, StartFrame DEF Calls
<1>3. Gone => Gone'
  BY <1>1, GoneBegin DEF Calls
<1>4. l = "cas" => Gone
  BY <1>1 DEF BeginsWith, FinalizeContext, Gone, Procs
<1>5. /\ l \notin {"loadLive", "checkFrozen", "unlock", "retain", "freeze", "unhold"}
      /\ l = "call" => j.op \notin {"load", "parse", "newdata"}
  BY <1>1 DEF BeginsWith
<1>6. AfterClose'
  BY <1>2, <1>3, <1>4, <1>5 DEF LoadInv, AfterClose
<1>7. FailsClosed'
  BY <1>2 DEF LoadInv, FailsClosed
<1>8. Locks'
  BY <1>2, <1>5 DEF LoadInv, Locks, Makes
<1>9. Frozen'
  BY <1>2 DEF LoadInv, Frozen, Freezing, Makes, Retained
<1>10. Unfrozen'
  BY <1>2, <1>5 DEF LoadInv, Unfrozen, Loading
<1> QED BY <1>6, <1>7, <1>8, <1>9, <1>10 DEF LoadInv

(* The invariant of the loads is inductive.                                *)
LEMMA LoadInvStep ==
    ASSUME Calls, LoadInv, [Next]_vars
    PROVE  LoadInv'
<1>1. ASSUME NEW p \in Procs, Step(p) PROVE LoadInv'
  BY <1>1, AfterCloseStep, FailsClosedStep, LocksStep, FrozenStep, UnfrozenStep DEF LoadInv
<1>2. CASE Drop
  <2>1. /\ pc' = pc /\ job' = job /\ hs' = hs /\ kind' = kind /\ failed' = failed
        /\ closeReq' = closeReq /\ destroyed' = destroyed /\ frozen' = frozen
        /\ readers' = readers /\ writers' = writers
        /\ ~ctxRef => ~ctxRef'
        /\ \A h \in Handles : ~hRef[h] => ~hRef'[h]
    BY <1>2 DEF Drop, DropContext, DropHandle, handles, atomics, mutex, Calls, TypeOK
  <2>2. Gone => Gone'
    BY <2>1 DEF Gone
  <2> QED BY <2>1, <2>2 DEF LoadInv, AfterClose, FailsClosed, Locks, Makes, Frozen, Freezing,
                            Retained, Unfrozen, Loading
<1>3. CASE UNCHANGED vars
  BY <1>3 DEF vars, handles, atomics, mutex, LoadInv, AfterClose, Gone, FailsClosed, Locks,
              Makes, Frozen, Freezing, Retained, Unfrozen, Loading
<1> QED BY <1>1, <1>2, <1>3, LoadInvBegin, NextCases DEF Calls

(* A load alone has loadMu, so that nothing else parses or holds a tree.   *)
LEMMA LoadInvSafe == Calls /\ LoadInv => LoadsAlone
<1> SUFFICES ASSUME Calls, LoadInv, NEW p \in Procs, Loading(p), ~closeReq
             PROVE  /\ \A q \in Procs : ~(pc[q] = "call" /\ job[q].op = "parse")
                    /\ \A h \in Handles : ~Retained(h)
  BY DEF LoadsAlone
<1>1. ~frozen /\ readers = {}
  BY DEF LoadInv, Unfrozen, Locks, Loading
<1>2. ASSUME NEW q \in Procs, pc[q] \in {"call", "freeze"} PROVE ~Makes(q)
  BY <1>1, <1>2 DEF LoadInv, Locks
<1>3. ASSUME NEW q \in Procs, pc[q] = "call", job[q].op = "parse" PROVE FALSE
  BY <1>2, <1>3 DEF Makes, Calls, OpsAtLabels, OpAtLabel
<1>4. ASSUME NEW h \in Handles PROVE ~Retained(h)
  BY <1>1, <1>2 DEF LoadInv, Frozen, Freezing
<1> QED BY <1>3, <1>4

(* beginLoad, holdSchema, freeze: until Close is requested, a module load  *)
(* overlaps with no parse and with no tree or diff, for any number of      *)
(* goroutines and handles, as long as callers do not use closed objects.   *)
THEOREM LoadRunsAlone ==
    ASSUME ~UseAfterClose
    PROVE  Spec => []LoadsAlone
<1>1. NewContext => Calls /\ LoadInv
  <2> SUFFICES ASSUME NewContext PROVE Calls /\ LoadInv
    OBVIOUS
  <2>1. Calls
    BY InitIInv DEF IInv, Calls, OpsAtLabels, Hands
  <2>2. /\ \A p \in Procs : pc[p] = "idle"
        /\ \A h \in Handles : ~Retained(h)
    BY DEF NewContext, Retained
  <2>3. LoadInv
    BY <2>2 DEF NewContext, LoadInv, AfterClose, FailsClosed, Locks, Frozen, Unfrozen, Loading
  <2> QED BY <2>1, <2>3
<1>2. Calls /\ LoadInv /\ [Next]_vars => Calls' /\ LoadInv'
  BY TypeStep, OpsAtLabelsStep, ExclusiveStep, HandsStep, LoadInvStep DEF Calls
<1> QED BY <1>1, <1>2, LoadInvSafe, PTL DEF Spec
=============================================================================
