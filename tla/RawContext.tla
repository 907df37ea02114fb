----------------------------- MODULE RawContext -----------------------------
(***************************************************************************)
(* Lifetime of one libyang context behind the cgo seam                     *)
(* (go/internal/libyang).  Goroutines race context operations, operations  *)
(* on data trees and diffs, Close, and the garbage collector's finalizers. *)
(* Every atomic load, store, add and compare-and-swap, every mutex         *)
(* operation and every libyang call is a step of its own.                  *)
(***************************************************************************)
EXTENDS Integers, FiniteSets

CONSTANTS
    Threads,        \* application goroutines
    GC,             \* the goroutine of the Go runtime that runs finalizers
    Handles,        \* identities of RawDataTree and RawDataDiff objects
    NoHandle,       \* "no handle" in the fields of a job
    UseAfterClose,  \* TRUE: a caller may operate on a handle it has closed
    StaleRelease    \* TRUE: Close may store closeReq between the two atomic
                    \* operations of a release (nothing in the code prevents
                    \* it); FALSE: the schedules where it never does

ASSUME FiniteAssumption == IsFiniteSet(Threads) /\ IsFiniteSet(Handles)
ASSUME GCAssumption == GC \notin Threads
ASSUME NoHandleAssumption == NoHandle \notin Handles
ASSUME UseAfterCloseAssumption == UseAfterClose \in BOOLEAN
ASSUME StaleReleaseAssumption == StaleRelease \in BOOLEAN

Procs == Threads \cup {GC}

VARIABLES
    live,       \* RawContext.live
    closeReq,   \* RawContext.closeReq
    destroyed,  \* RawContext.destroyed
    frozen,     \* RawContext.frozen
    ctx,        \* the ly_ctx behind RawContext.ctx: "alloc" or "freed"
    readers,    \* goroutines holding RawContext.loadMu shared
    writers,    \* goroutines holding RawContext.loadMu exclusively
    pc,         \* next step of every goroutine
    job,        \* the call every goroutine is executing
    failed,     \* acquire returned ErrContextClosed to this goroutine
    hs,         \* handle: "none", "open", "freeing" (released set), "closed"
    kind,       \* handle: "tree", "diff", or "shell" (a tree whose ctx is nil)
    hRef,       \* the application still references the handle
    ctxRef      \* the application still references the RawContext

atomics == <<closeReq, destroyed, frozen>>
mutex   == <<readers, writers>>
handles == <<hs, kind, hRef>>
vars    == <<live, atomics, ctx, mutex, pc, job, failed, handles, ctxRef>>

----------------------------------------------------------------------------
(* The calls.                                                              *)
AcquiringOps == {"search", "load", "parse", "newdata"}
HandleOps    == {"use", "dup", "diff"}
Ops == AcquiringOps \cup HandleOps
         \cup {"none", "schema", "close", "insert", "free", "finalize"}

Jobs == [op : Ops, src : Handles \cup {NoHandle}, ent : Handles \cup {NoHandle},
         dst : Handles \cup {NoHandle}]
Idle == [op |-> "none", src |-> NoHandle, ent |-> NoHandle, dst |-> NoHandle]

Labels == {"idle", "loadCloseReq", "loadDestroyed", "addLive", "recheck",
           "hold", "rlock", "lock", "checkFrozen", "call", "retain", "freeze",
           "unhold", "unlock", "casReleased", "free", "dec", "check",
           "cas", "destroy", "storeCloseReq", "loadLive"}

(* A data tree is not concurrency-safe: a caller gives it to one goroutine *)
(* at a time.  A handle being created belongs to its creator.              *)
Uses(p, h) == pc[p] # "idle" /\ h \in {job[p].src, job[p].ent, job[p].dst}
Unused(h)  == \A p \in Procs : ~Uses(p, h)

Usable(h) == /\ hRef[h]
             /\ Unused(h)
             /\ hs[h] = "open" \/ (UseAfterClose /\ hs[h] = "closed")

(* RawDataTree.requireContext: only a shell has a nil context pointer.     *)
requireContext(h) == kind[h] # "shell"

TypeOK ==
    /\ live \in Int
    /\ closeReq \in BOOLEAN /\ destroyed \in BOOLEAN /\ frozen \in BOOLEAN
    /\ ctx \in {"alloc", "freed"}
    /\ readers \in SUBSET Procs /\ writers \in SUBSET Procs
    /\ pc \in [Procs -> Labels]
    /\ job \in [Procs -> Jobs]
    /\ failed \in [Procs -> BOOLEAN]
    /\ hs \in [Handles -> {"none", "open", "freeing", "closed"}]
    /\ kind \in [Handles -> {"tree", "diff", "shell"}]
    /\ hRef \in [Handles -> BOOLEAN]
    /\ ctxRef \in BOOLEAN

(* NewContext: a fresh libyang context, nothing retained, finalizer set.   *)
NewContext ==
    /\ live = 0
    /\ closeReq = FALSE /\ destroyed = FALSE /\ frozen = FALSE
    /\ ctx = "alloc"
    /\ readers = {} /\ writers = {}
    /\ pc = [p \in Procs |-> "idle"]
    /\ job = [p \in Procs |-> Idle]
    /\ failed = [p \in Procs |-> FALSE]
    /\ hs = [h \in Handles |-> "none"]
    /\ kind = [h \in Handles |-> "tree"]
    /\ hRef = [h \in Handles |-> FALSE]
    /\ ctxRef = TRUE

----------------------------------------------------------------------------
(* Starting a call.                                                        *)
Goto(p, l) == pc' = [pc EXCEPT ![p] = l]

Start(p, l, j) ==
    /\ pc[p] = "idle"
    /\ Goto(p, l)
    /\ job' = [job EXCEPT ![p] = j]
    /\ failed' = [failed EXCEPT ![p] = FALSE]
    /\ UNCHANGED <<live, atomics, ctx, mutex, handles, ctxRef>>

Fresh(h) == hs[h] = "none" /\ Unused(h)

(* SetSearchPath; LoadModule and LoadModuleFromPath: acquire first.        *)
StartSearch(p) ==
    /\ p \in Threads /\ ctxRef
    /\ Start(p, "loadCloseReq", [Idle EXCEPT !.op = "search"])

StartLoad(p) ==
    /\ p \in Threads /\ ctxRef
    /\ Start(p, "loadCloseReq", [Idle EXCEPT !.op = "load"])

(* ParseData and ParseOp.                                                  *)
StartParse(p, h) ==
    /\ p \in Threads /\ ctxRef /\ Fresh(h)
    /\ Start(p, "loadCloseReq", [Idle EXCEPT !.op = "parse", !.dst = h])

StartNewData(p, h) ==
    /\ p \in Threads /\ ctxRef /\ Fresh(h)
    /\ Start(p, "loadCloseReq", [Idle EXCEPT !.op = "newdata", !.dst = h])

(* SchemaTree, SchemaModule, SchemaModules, Modules: no acquire; the walk  *)
(* of the C memory starts at once.  destroyCtx leaves c.ctx nil, for which *)
(* libyang finds no module: a walk that starts after it touches nothing.   *)
StartSchema(p) ==
    /\ p \in Threads /\ ctxRef /\ ctx = "alloc"
    /\ Start(p, "call", [Idle EXCEPT !.op = "schema"])

(* RawContext.Close.                                                       *)
StartClose(p) ==
    /\ p \in Threads /\ ctxRef
    /\ Start(p, "storeCloseReq", [Idle EXCEPT !.op = "close"])

(* Any operation of a tree or diff that creates no new object.             *)
StartUse(p, h) ==
    /\ p \in Threads /\ Usable(h) /\ requireContext(h)
    /\ Start(p, "call", [Idle EXCEPT !.op = "use", !.src = h])

(* Duplicate, UnlinkPath.                                                  *)
StartDuplicate(p, h, d) ==
    /\ p \in Threads /\ Usable(h) /\ requireContext(h) /\ kind[h] = "tree"
    /\ Fresh(d)
    /\ Start(p, "call", [Idle EXCEPT !.op = "dup", !.src = h, !.dst = d])

(* Diff of two trees of the context.                                       *)
StartDiff(p, h, e, d) ==
    /\ p \in Threads /\ Usable(h) /\ requireContext(h) /\ kind[h] = "tree"
    /\ Usable(e) /\ requireContext(e) /\ kind[e] = "tree"
    /\ Fresh(d)
    /\ Start(p, "call", [op |-> "diff", src |-> h, ent |-> e, dst |-> d])

(* RawUserOrderedList.Insert*: the entry e gives up its node (intoRaw)     *)
(* before libyang links the node into tree h.                              *)
StartInsert(p, h, e) ==
    /\ p \in Threads /\ h # e
    /\ Usable(h) /\ requireContext(h) /\ kind[h] = "tree"
    /\ Usable(e) /\ kind[e] # "diff"
    /\ Start(p, "casReleased", [Idle EXCEPT !.op = "insert", !.src = h, !.ent = e])

(* RawDataTree.Close and RawDataDiff.Close; a second Close is legal.       *)
StartFree(p, h) ==
    /\ p \in Threads /\ hRef[h] /\ Unused(h) /\ hs[h] \in {"open", "closed"}
    /\ Start(p, "casReleased", [Idle EXCEPT !.op = "free", !.src = h])

(* Mutant: Close of the context cancels the finalizers of its trees too.   *)
FinalizeHandle_BeforeClose(h) ==
    /\ ~hRef[h] /\ Unused(h) /\ hs[h] = "open" /\ ~closeReq
    /\ Start(GC, "casReleased", [Idle EXCEPT !.op = "free", !.src = h])

(* The runtime finalizes a handle that nothing references any more.        *)
FinalizeHandle(h) ==
    /\ ~hRef[h] /\ Unused(h) /\ hs[h] = "open"
    /\ Start(GC, "casReleased", [Idle EXCEPT !.op = "free", !.src = h])

(* The context's own finalizer: SetFinalizer(c, nil) in Close cancels it,  *)
(* and every referenced handle, every handle whose finalizer has not run   *)
(* and every call in progress keeps the context reachable.                 *)
FinalizeContext ==
    /\ ~ctxRef /\ ~closeReq /\ ~destroyed
    /\ \A h \in Handles : ~hRef[h] /\ hs[h] \in {"none", "closed"}
    /\ \A p \in Procs : pc[p] = "idle"
    /\ Start(GC, "cas", [Idle EXCEPT !.op = "finalize"])

(* The application drops its last reference to an object.                  *)
DropHandle(h) ==
    /\ hRef[h]
    /\ hRef' = [hRef EXCEPT ![h] = FALSE]
    /\ UNCHANGED <<live, atomics, ctx, mutex, pc, job, failed, hs, kind, ctxRef>>

DropContext ==
    /\ ctxRef
    /\ ctxRef' = FALSE
    /\ UNCHANGED <<live, atomics, ctx, mutex, pc, job, failed, handles>>

----------------------------------------------------------------------------
(* acquire.                                                                *)
Creates(p) == job[p].op \in {"parse", "newdata"}

(* Where a goroutine continues when acquire or release is over.            *)
AfterFail(p)    == IF job[p].op = "newdata" THEN "retain" ELSE "idle"
AfterRelease(p) == IF failed[p] THEN AfterFail(p)
                   ELSE IF job[p].op = "insert" THEN "call" ELSE "idle"
AfterAcquire(p) == CASE job[p].op = "search" -> "call"
                     [] job[p].op = "load"   -> "lock"
                     [] OTHER                -> "hold"

AcquireLoadCloseReq(p) ==
    /\ pc[p] = "loadCloseReq"
    /\ Goto(p, IF closeReq THEN AfterFail(p) ELSE "loadDestroyed")
    /\ failed' = [failed EXCEPT ![p] = closeReq]
    /\ UNCHANGED <<live, atomics, ctx, mutex, job, handles, ctxRef>>

AcquireLoadDestroyed(p) ==
    /\ pc[p] = "loadDestroyed"
    /\ Goto(p, IF destroyed THEN AfterFail(p) ELSE "addLive")
    /\ failed' = [failed EXCEPT ![p] = destroyed]
    /\ UNCHANGED <<live, atomics, ctx, mutex, job, handles, ctxRef>>

AcquireAddLive(p) ==
    /\ pc[p] = "addLive"
    /\ live' = live + 1
    /\ Goto(p, "recheck")
    /\ UNCHANGED <<atomics, ctx, mutex, job, failed, handles, ctxRef>>

(* Mutant: acquire without its second look at closeReq.                    *)
AcquireRecheck_Once(p) ==
    /\ pc[p] = "recheck"
    /\ Goto(p, AfterAcquire(p))
    /\ UNCHANGED <<live, atomics, ctx, mutex, job, failed, handles, ctxRef>>

AcquireRecheck(p) ==
    /\ pc[p] = "recheck"
    /\ Goto(p, IF closeReq THEN "dec" ELSE AfterAcquire(p))
    /\ failed' = [failed EXCEPT ![p] = closeReq]
    /\ UNCHANGED <<live, atomics, ctx, mutex, job, handles, ctxRef>>

(* holdSchema: a frozen context is read without the lock.                  *)
Held(p) == IF job[p].op = "newdata" THEN "retain" ELSE "call"

HoldSchema(p) ==
    /\ pc[p] = "hold"
    /\ Goto(p, IF frozen THEN Held(p) ELSE "rlock")
    /\ UNCHANGED <<live, atomics, ctx, mutex, job, failed, handles, ctxRef>>

RLock(p) ==
    /\ pc[p] = "rlock" /\ writers = {}
    /\ readers' = readers \cup {p}
    /\ Goto(p, Held(p))
    /\ UNCHANGED <<live, atomics, ctx, writers, job, failed, handles, ctxRef>>

(* beginLoad.                                                              *)
BeginLoadLock(p) ==
    /\ pc[p] = "lock" /\ writers = {} /\ readers = {}
    /\ writers' = {p}
    /\ Goto(p, "checkFrozen")
    /\ UNCHANGED <<live, atomics, ctx, readers, job, failed, handles, ctxRef>>

(* Mutant: beginLoad that admits loads into a frozen context.              *)
BeginLoadCheckFrozen_Never(p) ==
    /\ pc[p] = "checkFrozen"
    /\ Goto(p, "call")
    /\ UNCHANGED <<live, atomics, ctx, mutex, job, failed, handles, ctxRef>>

BeginLoadCheckFrozen(p) ==
    /\ pc[p] = "checkFrozen"
    /\ Goto(p, IF frozen THEN "unlock" ELSE "call")
    /\ UNCHANGED <<live, atomics, ctx, mutex, job, failed, handles, ctxRef>>

----------------------------------------------------------------------------
(* The libyang call returns.  Success of a creating call goes on to        *)
(* newRawDataTree or newRawDataDiff.                                       *)
AfterCall(p, ok) ==
    CASE job[p].op = "search" -> "dec"
      [] job[p].op = "load"   -> "unlock"
      [] job[p].op = "parse"  -> IF ok THEN "retain" ELSE "unhold"
      [] job[p].op \in {"dup", "diff"} -> IF ok THEN "retain" ELSE "idle"
      [] OTHER -> "idle"

CallReturns(p) ==
    /\ pc[p] = "call"
    /\ \E ok \in BOOLEAN : Goto(p, AfterCall(p, ok))
    /\ UNCHANGED <<live, atomics, ctx, mutex, job, failed, handles, ctxRef>>

(* Mutant: a new handle that is tagged with the call that made it.         *)
KindOf_Call(p) == job[p].op

(* newRawDataTree / newRawDataDiff: retain, then (trees only) freeze.      *)
KindOf(p) == CASE job[p].op = "diff" -> "diff"
               [] failed[p]          -> "shell"
               [] OTHER              -> "tree"

(* Mutant: newRawDataTree that forgets to retain.                          *)
Retain_Uncounted(p) ==
    /\ pc[p] = "retain"
    /\ hs' = [hs EXCEPT ![job[p].dst] = "open"]
    /\ kind' = [kind EXCEPT ![job[p].dst] = KindOf(p)]
    /\ hRef' = [hRef EXCEPT ![job[p].dst] = TRUE]
    /\ Goto(p, IF job[p].op = "diff" THEN "idle" ELSE "freeze")
    /\ UNCHANGED <<live, atomics, ctx, mutex, job, failed, ctxRef>>

Retain(p) ==
    /\ pc[p] = "retain"
    /\ live' = live + 1
    /\ hs' = [hs EXCEPT ![job[p].dst] = "open"]
    /\ kind' = [kind EXCEPT ![job[p].dst] = KindOf(p)]
    /\ hRef' = [hRef EXCEPT ![job[p].dst] = TRUE]
    /\ Goto(p, IF job[p].op = "diff" THEN "idle" ELSE "freeze")
    /\ UNCHANGED <<atomics, ctx, mutex, job, failed, ctxRef>>

Freeze(p) ==
    /\ pc[p] = "freeze"
    /\ frozen' = TRUE
    /\ Goto(p, IF Creates(p) /\ ~failed[p] THEN "unhold" ELSE "idle")
    /\ UNCHANGED <<live, closeReq, destroyed, ctx, mutex, job, failed, handles, ctxRef>>

(* Deferred unlocks: RUnlock (or the no-op of a frozen context), Unlock.   *)
Unhold(p) ==
    /\ pc[p] = "unhold"
    /\ readers' = readers \ {p}
    /\ Goto(p, "dec")
    /\ UNCHANGED <<live, atomics, ctx, writers, job, failed, handles, ctxRef>>

Unlock(p) ==
    /\ pc[p] = "unlock"
    /\ writers' = writers \ {p}
    /\ Goto(p, "dec")
    /\ UNCHANGED <<live, atomics, ctx, readers, job, failed, handles, ctxRef>>

----------------------------------------------------------------------------
(* RawDataTree.finalize, RawDataDiff.finalize and intoRaw: the released    *)
(* flag admits one goroutine; finalize frees the nodes, intoRaw does not.  *)
Released(p) == IF job[p].op = "insert" THEN job[p].ent ELSE job[p].src

(* Mutant: finalize that does not look at released.                        *)
CasReleased_Always(p) ==
    /\ pc[p] = "casReleased"
    /\ hs' = [hs EXCEPT ![Released(p)] = "freeing"]
    /\ Goto(p, IF job[p].op = "insert" THEN "dec" ELSE "free")
    /\ UNCHANGED <<live, atomics, ctx, mutex, job, failed, kind, hRef, ctxRef>>

CasReleased(p) ==
    /\ pc[p] = "casReleased"
    /\ \/ /\ hs[Released(p)] = "open"
          /\ hs' = [hs EXCEPT ![Released(p)] = "freeing"]
          /\ Goto(p, IF job[p].op = "insert" THEN "dec" ELSE "free")
       \/ /\ hs[Released(p)] # "open"
          /\ Goto(p, IF job[p].op = "insert" THEN "call" ELSE "idle")
          /\ UNCHANGED hs
    /\ UNCHANGED <<live, atomics, ctx, mutex, job, failed, kind, hRef, ctxRef>>

FreeNodes(p) ==
    /\ pc[p] = "free"
    /\ Goto(p, "dec")
    /\ UNCHANGED <<live, atomics, ctx, mutex, job, failed, handles, ctxRef>>

(* release.                                                                *)
ReleaseDec(p) ==
    /\ pc[p] = "dec"
    /\ live' = live - 1
    /\ hs' = IF job[p].op \in AcquiringOps THEN hs
             ELSE [hs EXCEPT ![Released(p)] = "closed"]
    /\ Goto(p, IF live - 1 = 0 THEN "check" ELSE AfterRelease(p))
    /\ UNCHANGED <<atomics, ctx, mutex, job, failed, kind, hRef, ctxRef>>

(* Mutant: a last release that leaves the destroy to Close.                *)
ReleaseCheck_Never(p) ==
    /\ pc[p] = "check"
    /\ Goto(p, AfterRelease(p))
    /\ UNCHANGED <<live, atomics, ctx, mutex, job, failed, handles, ctxRef>>

ReleaseCheck(p) ==
    /\ pc[p] = "check"
    /\ Goto(p, IF closeReq THEN "cas" ELSE AfterRelease(p))
    /\ UNCHANGED <<live, atomics, ctx, mutex, job, failed, handles, ctxRef>>

(* Mutant: a store of destroyed instead of a compare-and-swap.             *)
DestroyCas_Store(p) ==
    /\ pc[p] = "cas"
    /\ destroyed' = TRUE
    /\ Goto(p, "destroy")
    /\ UNCHANGED <<live, closeReq, frozen, ctx, mutex, job, failed, handles, ctxRef>>

(* destroyCtx.                                                             *)
DestroyCas(p) ==
    /\ pc[p] = "cas"
    /\ destroyed' = TRUE
    /\ Goto(p, IF destroyed THEN AfterRelease(p) ELSE "destroy")
    /\ UNCHANGED <<live, closeReq, frozen, ctx, mutex, job, failed, handles, ctxRef>>

DestroyCtx(p) ==
    /\ pc[p] = "destroy"
    /\ ctx' = "freed"
    /\ Goto(p, AfterRelease(p))
    /\ UNCHANGED <<live, atomics, mutex, job, failed, handles, ctxRef>>

(* Close.                                                                  *)
CloseStore(p) ==
    /\ pc[p] = "storeCloseReq"
    /\ StaleRelease \/ \A q \in Procs : pc[q] # "check"
    /\ closeReq' = TRUE
    /\ Goto(p, "loadLive")
    /\ UNCHANGED <<live, destroyed, frozen, ctx, mutex, job, failed, handles, ctxRef>>

(* Mutant: Close that destroys the context without looking at live.        *)
CloseLoadLive_Never(p) ==
    /\ pc[p] = "loadLive"
    /\ Goto(p, "cas")
    /\ UNCHANGED <<live, atomics, ctx, mutex, job, failed, handles, ctxRef>>

CloseLoadLive(p) ==
    /\ pc[p] = "loadLive"
    /\ Goto(p, IF live = 0 THEN "cas" ELSE "idle")
    /\ UNCHANGED <<live, atomics, ctx, mutex, job, failed, handles, ctxRef>>

----------------------------------------------------------------------------
StartCall(p) ==
    \/ StartSearch(p) \/ StartLoad(p) \/ StartSchema(p) \/ StartClose(p)
    \/ \E h \in Handles :
         \/ StartParse(p, h) \/ StartNewData(p, h)
         \/ StartUse(p, h) \/ StartFree(p, h)
    \/ \E h, d \in Handles : StartDuplicate(p, h, d) \/ StartInsert(p, h, d)
    \/ \E h, e, d \in Handles : StartDiff(p, h, e, d)

Step(p) ==
    \/ AcquireLoadCloseReq(p) \/ AcquireLoadDestroyed(p)
    \/ AcquireAddLive(p) \/ AcquireRecheck(p)
    \/ HoldSchema(p) \/ RLock(p) \/ BeginLoadLock(p) \/ BeginLoadCheckFrozen(p)
    \/ CallReturns(p) \/ Retain(p) \/ Freeze(p) \/ Unhold(p) \/ Unlock(p)
    \/ CasReleased(p) \/ FreeNodes(p)
    \/ ReleaseDec(p) \/ ReleaseCheck(p) \/ DestroyCas(p) \/ DestroyCtx(p)
    \/ CloseStore(p) \/ CloseLoadLive(p)

Finalizers == FinalizeContext \/ \E h \in Handles : FinalizeHandle(h)

Drop == DropContext \/ \E h \in Handles : DropHandle(h)

(* The program lives on without the context.                              *)
LiveOn == /\ ~ctxRef /\ \A h \in Handles : ~hRef[h]
          /\ \A p \in Procs : pc[p] = "idle"
          /\ UNCHANGED vars

Next == \/ \E p \in Threads : StartCall(p)
        \/ \E p \in Procs : Step(p)
        \/ Finalizers
        \/ Drop
        \/ LiveOn

Spec == NewContext /\ [][Next]_vars

(* A goroutine that is inside a call is scheduled again, and the collector *)
(* finalizes unreachable objects; nobody is obliged to start a call.       *)
Fairness == /\ \A p \in Procs : WF_vars(Step(p))
            /\ WF_vars(Finalizers)

FairSpec == Spec /\ Fairness
----------------------------------------------------------------------------
(* Correctness.                                                            *)

(* The goroutine is inside libyang, reading or freeing memory of the       *)
(* context (a shell has no nodes to free).                                 *)
InLibyang(p) == \/ pc[p] = "call"
                \/ pc[p] = "free" /\ kind[job[p].src] # "shell"

(* acquire succeeded and its release has not run.                          *)
Admitted(p) == /\ job[p].op \in AcquiringOps
               /\ ~failed[p]
               /\ pc[p] \in {"hold", "rlock", "lock", "checkFrozen", "call",
                             "retain", "freeze", "unhold", "unlock", "dec"}

(* A tree or diff with a context pointer that has not been released.       *)
Retained(h) == hs[h] \in {"open", "freeing"} /\ kind[h] # "shell"

(* The goroutines and the handles that account for one unit of live each:  *)
(* from the add of acquire to the add of its release, and from retain to   *)
(* the release of finalize or intoRaw.                                     *)
CountsThread(p) ==
    /\ job[p].op \in AcquiringOps
    /\ pc[p] \in {"recheck", "hold", "rlock", "lock", "checkFrozen", "call",
                  "retain", "freeze", "unhold", "unlock", "dec"}
    /\ ~(failed[p] /\ pc[p] \in {"retain", "freeze"})
CountingThreads == {p \in Procs : CountsThread(p)}
CountingHandles == {h \in Handles : hs[h] \in {"open", "freeing"}}

(* acquire, retain and release: in every schedule live is exactly the      *)
(* number of calls and objects that must still release it; a failing       *)
(* acquire, a second Close, a consumed entry or a shell of a closed        *)
(* context neither loses nor repeats a unit.                               *)
LiveCounts == live = Cardinality(CountingThreads) + Cardinality(CountingHandles)

(* acquire/release and retain/release: no operation admitted by acquire,   *)
(* and no operation of a tree or diff that has not been closed, runs in    *)
(* libyang after ly_ctx_destroy, whatever Close, finalizers and failing    *)
(* acquires do meanwhile.  (Schema walks do not acquire: see               *)
(* FailClosed.)                                                            *)
NoUseAfterDestroy ==
    \A p \in Procs : InLibyang(p) /\ job[p].op # "schema" => ctx = "alloc"

(* "the context must outlive every tree/diff created from it": destroyCtx  *)
(* is never entered while a tree, a diff or an admitted call holds the     *)
(* context, even by the finalizer, which does not look at live.            *)
ContextOutlivesHolders ==
    destroyed => /\ \A h \in Handles : ~Retained(h)
                 /\ \A p \in Procs : ~Admitted(p)

(* destroyCtx: several goroutines may find live = 0 after Close, but       *)
(* ly_ctx_destroy runs at most once.                                       *)
DestroyedOnce ==
    \A p \in Procs : pc[p] = "destroy" =>
        ctx = "alloc" /\ \A q \in Procs \ {p} : pc[q] # "destroy"

(* beginLoad, holdSchema and freeze: until Close is requested, a module    *)
(* load (which recompiles the schema) overlaps with no parse and with no   *)
(* tree, although a frozen context is read without the lock.               *)
Loading(p) == job[p].op = "load" /\ pc[p] = "call"
LoadsAlone ==
    \A p \in Procs : Loading(p) /\ ~closeReq =>
        /\ \A q \in Procs : ~(pc[q] = "call" /\ job[q].op = "parse")
        /\ \A h \in Handles : ~Retained(h)

(* Close, release: when nothing runs and nothing is open any more, a       *)
(* closed context has been destroyed; no interleaving of the decrement,    *)
(* the closeReq store and the two checks loses the destroy.                *)
NoLeak ==
    /\ closeReq
    /\ \A p \in Procs : pc[p] = "idle"
    /\ \A h \in Handles : hs[h] \in {"none", "closed"}
    => ctx = "freed"

(* Close and the finalizers: a context that the application has let go of  *)
(* (and whose trees it has let go of) is destroyed, closed or not.         *)
Reclaimed ==
    ~ctxRef /\ (\A h \in Handles : ~hRef[h]) ~> ctx = "freed" \/ \E h \in Handles : hRef[h]

(* The seam keeps the promise of ContextLifecycle: admitted calls and      *)
(* retained handles are the holders.                                       *)
phaseBar == CASE destroyed -> "dead" [] ~destroyed /\ closeReq -> "closing" [] OTHER -> "open"
holdersBar == {p \in Procs : Admitted(p)} \cup {h \in Handles : Retained(h)}
Lifecycle == INSTANCE ContextLifecycle
    WITH Holders <- Procs \cup Handles, phase <- phaseBar, holders <- holdersBar
KeepsLifecycle == Lifecycle!Spec

(* ADR 0005: "Operations after (or racing) Close return the sentinel       *)
(* ErrContextClosed ... instead of reaching freed memory", whatever the    *)
(* operation: a schema walk, or an operation of a tree closed before.      *)
FailClosed == \A p \in Procs : InLibyang(p) => ctx = "alloc"

(* beginLoad: "no tree can be created while libyang (re)compiles the       *)
(* schema".                                                                *)
NoParseDuringLoad ==
    \A p, q \in Procs : Loading(p) => ~(pc[q] = "call" /\ job[q].op = "parse")
=============================================================================
