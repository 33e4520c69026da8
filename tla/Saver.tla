------------------------------- MODULE Saver -------------------------------
(***************************************************************************)
(* The write-behind saver of internal/storage/saver.go, with the store it  *)
(* writes to, the work channel its completions come back through and the   *)
(* shutdown of internal/core/core.go that ends in FlushSync.               *)
(*                                                                         *)
(* An entry's value is a version number.  Three kinds of process take      *)
(* steps: the dispatcher (handlers, Flush, completions, FlushSync), the    *)
(* goroutine of one asynchronous write, and the other producers that fill  *)
(* the work channel.                                                       *)
(***************************************************************************)
EXTENDS Naturals, FiniteSets

CONSTANTS
    Keys,         \* the (ns, name) entries
    Namespaces,
    NsOf,         \* the namespace of an entry
    Groups,       \* sets of entries a handler changes and marks together
    Unmarshalable,\* the <<entry, version>> pairs json.Marshal refuses
    None,         \* no entry in a map
    Live,         \* the dirty entry's func reads the module's data
    WorkCap,      \* capacity of the work channel
    MaxVersion,   \* bound: how often an entry changes
    MaxFails      \* bound: how many writes fail

ASSUME SaverAssumption ==
    /\ NsOf \in [Keys -> Namespaces]
    /\ Groups \subseteq SUBSET Keys
    /\ \A g \in Groups : \A a, b \in g : NsOf[a] = NsOf[b]
    /\ \A g, h \in Groups : g # h => g \cap h = {}
    /\ \A g \in Groups : \A a, b \in g : \A v \in 0..MaxVersion :
         a # b => <<a, v>> \notin Unmarshalable
    /\ None \notin Nat /\ Live \notin Nat /\ None # Live
    /\ WorkCap \in Nat /\ MaxVersion \in Nat /\ MaxFails \in Nat

VARIABLES
    data,      \* what the modules hold in memory
    dirty,     \* s.dirty: Live, the requeued bytes, or None
    inflight,  \* s.inflight
    raws,      \* the batch being written asynchronously
    todo,      \* its namespaces not tried yet
    failed,    \* its namespaces that failed
    writer,    \* the goroutine of Flush, up to its queued completion
    store,     \* what the database holds
    others,    \* other items in the work channel
    phase,     \* the dispatcher: looping, shutting down, flushing, gone
    sraws, stodo, syncErr,  \* FlushSync's batch, what is left of it, its error
    fails      \* failed writes so far

vars == <<data, dirty, inflight, raws, todo, failed, writer, store, others, phase,
          sraws, stodo, syncErr, fails>>
async == <<raws, todo, failed>>
sync == <<sraws, stodo, syncErr>>

Empty == [k \in Keys |-> None]

Init ==
    /\ data = [k \in Keys |-> 0]
    /\ store = data
    /\ dirty = Empty
    /\ inflight = FALSE
    /\ raws = Empty /\ todo = {} /\ failed = {}
    /\ writer = "none"
    /\ others = 0
    /\ phase = "run"
    /\ sraws = Empty /\ stodo = {} /\ syncErr = FALSE
    /\ fails = 0

-----------------------------------------------------------------------------
(* A handler changes its data and marks every entry it changed.  Handlers  *)
(* run in the loop, and once more on the QUIT event of the shutdown.       *)
Mark(g) ==
    /\ phase \in {"run", "quit"}
    /\ \A k \in g : data[k] < MaxVersion
    /\ data' = [k \in Keys |-> IF k \in g THEN data[k] + 1 ELSE data[k]]
    /\ dirty' = [k \in Keys |-> IF k \in g THEN Live ELSE dirty[k]]
    /\ UNCHANGED <<inflight, writer, store, others, phase, fails>>
    /\ UNCHANGED async /\ UNCHANGED sync

Value(k) == IF dirty[k] = Live THEN data[k] ELSE dirty[k]

Marshals(k) == dirty[k] = Live => <<k, data[k]>> \notin Unmarshalable

(* serialize: every dirty entry that marshals; the others are dropped. *)
Serialized ==
    [k \in Keys |-> IF dirty[k] # None /\ Marshals(k) THEN Value(k) ELSE None]

BatchNamespaces(b) == {NsOf[k] : k \in {j \in Keys : b[j] # None}}

(* The flush heartbeat; a no-op while a write is in flight. *)
Flush ==
    /\ phase = "run"
    /\ ~inflight
    /\ dirty # Empty
    /\ raws' = Serialized
    /\ todo' = BatchNamespaces(Serialized)
    /\ failed' = {}
    /\ dirty' = Empty
    /\ inflight' = TRUE
    /\ writer' = "writing"
    /\ UNCHANGED <<data, store, others, phase, fails>> /\ UNCHANGED sync

-----------------------------------------------------------------------------
(* PutMany: the batch's entries of one namespace, in one transaction. *)
Landed(b, ns) ==
    [k \in Keys |-> IF NsOf[k] = ns /\ b[k] # None THEN b[k] ELSE store[k]]

(* The goroutine writes one namespace of the batch. *)
WriteOK(ns) ==
    /\ writer = "writing" /\ ns \in todo
    /\ store' = Landed(raws, ns)
    /\ todo' = todo \ {ns}
    /\ UNCHANGED <<data, dirty, inflight, raws, failed, writer, others, phase, fails>>
    /\ UNCHANGED sync

(* Mutant: PutMany without its transaction, some rows land before the error. *)
WriteFailsPartly(ns) ==
    /\ writer = "writing" /\ ns \in todo
    /\ fails < MaxFails
    /\ fails' = fails + 1
    /\ \E k \in Keys : store' = [store EXCEPT ![k] = Landed(raws, ns)[k]]
    /\ todo' = todo \ {ns}
    /\ failed' = failed \cup {ns}
    /\ UNCHANGED <<data, dirty, inflight, raws, writer, others, phase>>
    /\ UNCHANGED sync

(* PutMany answers an error.  The answer may be lost after the commit, so  *)
(* the rows may have landed all the same.                                  *)
WriteFails(ns) ==
    /\ writer = "writing" /\ ns \in todo
    /\ fails < MaxFails
    /\ fails' = fails + 1
    /\ store' = store \/ store' = Landed(raws, ns)
    /\ todo' = todo \ {ns}
    /\ failed' = failed \cup {ns}
    /\ UNCHANGED <<data, dirty, inflight, raws, writer, others, phase>>
    /\ UNCHANGED sync

(* Mutant: the goroutine delivers before it calls wg.Done. *)
WgDoneAfterDeliver ==
    /\ writer = "writing" /\ todo = {}
    /\ others < WorkCap
    /\ writer' = "queued"
    /\ UNCHANGED <<data, dirty, inflight, store, others, phase, fails>>
    /\ UNCHANGED async /\ UNCHANGED sync

(* s.wg.Done() comes before the completion is delivered. *)
WgDone ==
    /\ writer = "writing" /\ todo = {}
    /\ writer' = "delivering"
    /\ UNCHANGED <<data, dirty, inflight, store, others, phase, fails>>
    /\ UNCHANGED async /\ UNCHANGED sync

Queued == others + (IF writer = "queued" THEN 1 ELSE 0)

(* c.work <- fn blocks while the channel is full. *)
Deliver ==
    /\ writer = "delivering"
    /\ Queued < WorkCap
    /\ writer' = "queued"
    /\ UNCHANGED <<data, dirty, inflight, store, others, phase, fails>>
    /\ UNCHANGED async /\ UNCHANGED sync

(* Mutant: what a handler marked since is overwritten by the old bytes. *)
RequeuedAlways ==
    [k \in Keys |-> IF raws[k] # None /\ NsOf[k] \in failed THEN raws[k] ELSE dirty[k]]

(* Mutant: a failed write is only reported. *)
RequeuedNone == dirty

Requeued ==
    [k \in Keys |-> IF raws[k] # None /\ NsOf[k] \in failed /\ dirty[k] = None
                    THEN raws[k] ELSE dirty[k]]

(* The completion, on the dispatcher. *)
Complete ==
    /\ phase = "run"
    /\ writer = "queued"
    /\ inflight' = FALSE
    /\ dirty' = Requeued
    /\ writer' = "none"
    /\ raws' = Empty /\ todo' = {} /\ failed' = {}
    /\ UNCHANGED <<data, store, others, phase, fails>> /\ UNCHANGED sync

(* Socket readers and fetches share the channel. *)
OtherDelivers ==
    /\ phase # "exit"
    /\ Queued < WorkCap
    /\ others' = others + 1
    /\ UNCHANGED <<data, dirty, inflight, writer, store, phase, fails>>
    /\ UNCHANGED async /\ UNCHANGED sync

OtherRuns ==
    /\ phase = "run"
    /\ others > 0
    /\ others' = others - 1
    /\ UNCHANGED <<data, dirty, inflight, writer, store, phase, fails>>
    /\ UNCHANGED async /\ UNCHANGED sync

-----------------------------------------------------------------------------
(* The context is cancelled: the loop returns and shutdown submits QUIT. *)
LoopEnds ==
    /\ phase = "run"
    /\ phase' = "quit"
    /\ UNCHANGED <<data, dirty, inflight, writer, store, others, fails>>
    /\ UNCHANGED async /\ UNCHANGED sync

(* Mutant: FlushSync does not wait for the write in flight. *)
WgWaitNone == TRUE

(* s.wg.Wait() *)
WgWait == writer # "writing"

FlushSyncNothing ==
    /\ phase = "quit"
    /\ WgWait
    /\ dirty = Empty
    /\ phase' = "exit"
    /\ UNCHANGED <<data, dirty, inflight, writer, store, others, fails>>
    /\ UNCHANGED async /\ UNCHANGED sync

FlushSync ==
    /\ phase = "quit"
    /\ WgWait
    /\ dirty # Empty
    /\ sraws' = Serialized
    /\ stodo' = BatchNamespaces(Serialized)
    /\ dirty' = Empty
    /\ inflight' = FALSE
    /\ phase' = "sync"
    /\ UNCHANGED <<data, writer, store, others, syncErr, fails>> /\ UNCHANGED async

SyncWriteOK(ns) ==
    /\ phase = "sync" /\ ns \in stodo
    /\ store' = Landed(sraws, ns)
    /\ stodo' = stodo \ {ns}
    /\ UNCHANGED <<data, dirty, inflight, writer, others, phase, sraws, syncErr, fails>>
    /\ UNCHANGED async

SyncWriteFails(ns) ==
    /\ phase = "sync" /\ ns \in stodo
    /\ fails < MaxFails
    /\ fails' = fails + 1
    /\ store' = store \/ store' = Landed(sraws, ns)
    /\ stodo' = stodo \ {ns}
    /\ syncErr' = TRUE
    /\ UNCHANGED <<data, dirty, inflight, writer, others, phase, sraws>>
    /\ UNCHANGED async

FlushSyncReturns ==
    /\ phase = "sync" /\ stodo = {}
    /\ phase' = "exit"
    /\ UNCHANGED <<data, dirty, inflight, writer, store, others, fails>>
    /\ UNCHANGED async /\ UNCHANGED sync

(* The process dies at any point, or is gone, and is started again: memory *)
(* is loaded from the store, everything else is new.                       *)
Restart ==
    /\ data' = store
    /\ dirty' = Empty
    /\ inflight' = FALSE
    /\ raws' = Empty /\ todo' = {} /\ failed' = {}
    /\ writer' = "none"
    /\ others' = 0
    /\ phase' = "run"
    /\ sraws' = Empty /\ stodo' = {} /\ syncErr' = FALSE
    /\ UNCHANGED <<store, fails>>

Next ==
    \/ \E g \in Groups : Mark(g)
    \/ \E ns \in Namespaces :
         WriteOK(ns) \/ WriteFails(ns) \/ SyncWriteOK(ns) \/ SyncWriteFails(ns)
    \/ Flush \/ WgDone \/ Deliver \/ Complete
    \/ OtherDelivers \/ OtherRuns
    \/ LoopEnds \/ FlushSyncNothing \/ FlushSync \/ FlushSyncReturns
    \/ Restart

Spec == Init /\ [][Next]_vars

(* The heartbeat reschedules itself, the loop serves its channel in order, *)
(* and database calls return.                                              *)
Fairness ==
    /\ WF_vars(Flush) /\ WF_vars(WgDone) /\ SF_vars(Deliver) /\ WF_vars(Complete)
    /\ WF_vars(OtherRuns)
    /\ \A ns \in Namespaces :
         /\ WF_vars(WriteOK(ns) \/ WriteFails(ns))
         /\ WF_vars(SyncWriteOK(ns) \/ SyncWriteFails(ns))
    /\ WF_vars(FlushSyncNothing \/ FlushSync) /\ WF_vars(FlushSyncReturns)

FairSpec == Spec /\ Fairness

-----------------------------------------------------------------------------
Versions == 0..MaxVersion
Batch == [Keys -> Versions \cup {None}]

TypeOK ==
    /\ data \in [Keys -> Versions]
    /\ store \in [Keys -> Versions]
    /\ dirty \in [Keys -> Versions \cup {None, Live}]
    /\ inflight \in BOOLEAN /\ syncErr \in BOOLEAN
    /\ raws \in Batch /\ sraws \in Batch
    /\ todo \subseteq Namespaces /\ failed \subseteq Namespaces /\ stodo \subseteq Namespaces
    /\ writer \in {"none", "writing", "delivering", "queued"}
    /\ others \in Nat
    /\ phase \in {"run", "quit", "sync", "exit"}
    /\ fails \in 0..MaxFails

(* The value an entry will have in the store once everything under way has *)
(* succeeded.                                                              *)
Upcoming(k) ==
    IF dirty[k] = Live THEN data[k]
    ELSE IF dirty[k] # None THEN dirty[k]
    ELSE IF phase = "sync" /\ sraws[k] # None /\ NsOf[k] \in stodo THEN sraws[k]
    ELSE IF raws[k] # None /\ NsOf[k] \in todo \cup failed THEN raws[k]
    ELSE store[k]

(* While the bot runs, no change is forgotten: what a handler marked is in *)
(* the store, dirty, or in a batch that is still written or will be        *)
(* requeued, through failed writes and marks that race a write in flight.  *)
NoLostUpdate ==
    phase \in {"run", "quit"} =>
        \A k \in Keys : <<k, data[k]>> \notin Unmarshalable => Upcoming(k) = data[k]

(* The saver implements the write-behind store of WriteBehind: the store   *)
(* never goes back, never ahead of the memory, and never shows half of     *)
(* what one handler changed, across failures, crashes and the shutdown.    *)
WB == INSTANCE WriteBehind
ImplementsWriteBehind == WB!Spec

(* The failed namespaces of a batch whose completion the ended loop will   *)
(* never run.                                                              *)
Stranded == writer \in {"delivering", "queued"} /\ failed # {}

AllStored == \A k \in Keys : <<k, data[k]>> \notin Unmarshalable => store[k] = data[k]

(* A shutdown whose FlushSync reports no error leaves everything in the    *)
(* store, unless an asynchronous write had failed with its completion      *)
(* still queued.                                                           *)
FinalFlush == phase = "exit" /\ ~syncErr /\ ~Stranded => AllStored

(* The shutdown ends: FlushSync waits for the write in flight, and that    *)
(* never waits for the loop, however full the work channel.                *)
ShutdownEnds == phase = "quit" ~> phase # "quit"

(* With a store that works again, a change reaches it.                     *)
SavedInTheEnd ==
    \A k \in Keys : \A v \in 1..MaxVersion :
        phase = "run" /\ data[k] = v
          ~> \/ store[k] >= v
             \/ data[k] < v \/ phase # "run" \/ <<k, data[k]>> \in Unmarshalable

(* What core.go says of the last flush: it catches whatever is dirty at    *)
(* shutdown.                                                               *)
FinalFlushCatchesAll == phase = "exit" /\ ~syncErr => AllStored

=============================================================================
